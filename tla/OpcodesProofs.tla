----------------------------- MODULE OpcodesProofs ------------------------------
(***************************************************************************)
(* What every matcher's proof rests on, for any two sequences: how a list  *)
(* of opcodes grows and stays true, where runs of equals and edits lead,   *)
(* how many edits there must be, and where two searches that start from    *)
(* the two ends meet.                                                      *)
(***************************************************************************)
EXTENDS Opcodes, Numbers

-------------------------------------------------------------------------------
(* What becomes of a list of opcodes when a matcher says one more: facts that the  *)
(* engines that walk both sequences forwards rest on.                              *)

\* Three sequences can be put together in either order.
Joins(S) == \A u, v, w \in Seq(S) : (u \o v) \o w = u \o (v \o w)

\* Whatever they are sequences of.
LEMMA ThreeJoin ==
  ASSUME NEW S
  PROVE  Joins(S)
BY ConcatAssociative DEF Joins

Tags == {"equal", "replace", "delete", "insert"}

OpcodeSet == [tag : Tags, i1 : Nat, i2 : Nat, j1 : Nat, j2 : Nat]

\* What is so of the opcodes a matcher has said when it stands at (x, y).
SaidUpTo(said, s, t, x, y) ==
  /\ said \in Seq(OpcodeSet) /\ Legal(said, s, t)
  /\ ReachedInA(said) = x /\ ReachedInB(said) = y

\* At the start nothing has been said.
LEMMA NothingSaid ==
  ASSUME NEW s, NEW t
  PROVE  SaidUpTo(<<>>, s, t, 0, 0) /\ NoneEmpty(<<>>)
BY DEF SaidUpTo, Legal, InOrder, NoneEmpty, ReachedInA, ReachedInB

\* One more opcode that is true and begins where the matcher stands takes it to where
\* the opcode ends.
LEMMA SayOne ==
  ASSUME NEW s, NEW t, NEW said, NEW x, NEW y, NEW op \in OpcodeSet,
         SaidUpTo(said, s, t, x, y),
         OpcodeTrue(op, s, t),
         op.i1 = x, op.j1 = y
  PROVE  /\ SaidUpTo(said \o <<op>>, s, t, op.i2, op.j2)
         /\ NoneEmpty(said) /\ (op.i1 < op.i2 \/ op.j1 < op.j2) => NoneEmpty(said \o <<op>>)
<1> DEFINE more == said \o <<op>>
<1>1. said \in Seq(OpcodeSet) /\ <<op>> \in Seq(OpcodeSet)
  BY DEF SaidUpTo
<1>2. more \in Seq(OpcodeSet) /\ Len(more) = Len(said) + 1 /\ Len(said) \in Nat
  BY <1>1, ConcatProperties
<1>3. more[Len(said) + 1] = op
  BY <1>1
<1>4. \A m \in 1..Len(said) : more[m] = said[m]
  BY <1>1
<1>5. Legal(more, s, t)
  <2>1. ASSUME NEW m \in 1..Len(more)
        PROVE  /\ more[m].i1 = IF m = 1 THEN 0 ELSE more[m - 1].i2
               /\ more[m].j1 = IF m = 1 THEN 0 ELSE more[m - 1].j2
               /\ OpcodeTrue(more[m], s, t)
    <3>1. CASE m \in 1..Len(said)
      <4>1. m # 1 => m - 1 \in 1..Len(said)
        BY <3>1, <1>2
      <4>2. more[m] = said[m] /\ (m # 1 => more[m - 1] = said[m - 1])
        BY <3>1, <4>1, <1>4
      <4> QED BY <3>1, <4>2 DEF SaidUpTo, Legal, InOrder
    <3>2. CASE m = Len(said) + 1
      <4>1. CASE said = <<>>
        BY <3>2, <4>1, <1>3 DEF SaidUpTo, ReachedInA, ReachedInB
      <4>2. CASE said # <<>>
        <5>1. Len(said) # 0 /\ m # 1 /\ m - 1 = Len(said) /\ Len(said) \in 1..Len(said)
          BY <3>2, <4>2, <1>1, <1>2
        <5>2. more[m - 1] = said[Len(said)]
          BY <5>1, <1>4
        <5> QED BY <3>2, <4>2, <5>1, <5>2, <1>3 DEF SaidUpTo, ReachedInA, ReachedInB
      <4> QED BY <4>1, <4>2
    <3> QED BY <3>1, <3>2, <1>2
  <2> QED BY <2>1 DEF Legal, InOrder
<1>6. ASSUME NoneEmpty(said), op.i1 < op.i2 \/ op.j1 < op.j2 PROVE NoneEmpty(more)
  <2>1. ASSUME NEW m \in 1..Len(more)
        PROVE  more[m].i1 < more[m].i2 \/ more[m].j1 < more[m].j2
    <3>1. CASE m \in 1..Len(said)
      BY <1>6, <3>1, <1>4 DEF NoneEmpty
    <3>2. CASE m = Len(said) + 1
      BY <1>6, <3>2, <1>3
    <3> QED BY <3>1, <3>2, <1>2
  <2> QED BY <2>1 DEF NoneEmpty
<1>7. more # <<>> /\ more[Len(more)] = op
  BY <1>2, <1>3
<1> QED BY <1>2, <1>5, <1>6, <1>7 DEF SaidUpTo, ReachedInA, ReachedInB

\* What is said of two ranges is a list of opcodes.
LEMMA ChangeIsOpcodes ==
  ASSUME NEW x \in Nat, NEW x2 \in Nat, NEW y \in Nat, NEW y2 \in Nat
  PROVE  Change(x, x2, y, y2) \in Seq(OpcodeSet)
<1>1. \A tag \in Tags : Opcode(tag, x, x2, y, y2) \in OpcodeSet
  BY DEF Opcode, OpcodeSet
<1>2. \A op \in OpcodeSet : <<op>> \in Seq(OpcodeSet)
  OBVIOUS
<1>3. <<>> \in Seq(OpcodeSet)
  OBVIOUS
<1> QED BY <1>1, <1>2, <1>3 DEF Change, Tags

\* So does what is said of two ranges that are not compared any further.
LEMMA SayChange ==
  ASSUME NEW s, NEW t, NEW said, NEW x \in Nat, NEW y \in Nat,
         Len(s) \in Nat, Len(t) \in Nat,
         SaidUpTo(said, s, t, x, y),
         NEW x2 \in x..Len(s), NEW y2 \in y..Len(t)
  PROVE  /\ SaidUpTo(said \o Change(x, x2, y, y2), s, t, x2, y2)
         /\ NoneEmpty(said) => NoneEmpty(said \o Change(x, x2, y, y2))
<1>0. x2 \in Nat /\ y2 \in Nat /\ x <= x2 /\ y <= y2 /\ x2 <= Len(s) /\ y2 <= Len(t)
  OBVIOUS
<1>1. CASE x < x2 /\ y < y2
  <2> DEFINE op == Opcode("replace", x, x2, y, y2)
  <2>1. op \in OpcodeSet /\ op.i1 = x /\ op.j1 = y /\ op.i2 = x2 /\ op.j2 = y2
    BY <1>0 DEF OpcodeSet, Opcode, Tags
  <2>2. OpcodeTrue(op, s, t)
    BY <1>0, <1>1 DEF OpcodeTrue, Opcode
  <2>3. /\ SaidUpTo(said \o <<op>>, s, t, op.i2, op.j2)
        /\ NoneEmpty(said) => NoneEmpty(said \o <<op>>)
    BY <1>1, <2>1, <2>2, SayOne
  <2> QED BY <1>1, <2>1, <2>3 DEF Change
<1>2. CASE x < x2 /\ y = y2
  <2> DEFINE op == Opcode("delete", x, x2, y, y2)
  <2>1. op \in OpcodeSet /\ op.i1 = x /\ op.j1 = y /\ op.i2 = x2 /\ op.j2 = y2
    BY <1>0 DEF OpcodeSet, Opcode, Tags
  <2>2. OpcodeTrue(op, s, t)
    BY <1>0, <1>2 DEF OpcodeTrue, Opcode
  <2>3. /\ SaidUpTo(said \o <<op>>, s, t, op.i2, op.j2)
        /\ NoneEmpty(said) => NoneEmpty(said \o <<op>>)
    BY <1>2, <2>1, <2>2, SayOne
  <2> QED BY <1>2, <2>1, <2>3 DEF Change
<1>3. CASE x = x2 /\ y < y2
  <2> DEFINE op == Opcode("insert", x, x2, y, y2)
  <2>1. op \in OpcodeSet /\ op.i1 = x /\ op.j1 = y /\ op.i2 = x2 /\ op.j2 = y2
    BY <1>0 DEF OpcodeSet, Opcode, Tags
  <2>2. OpcodeTrue(op, s, t)
    BY <1>0, <1>3 DEF OpcodeTrue, Opcode
  <2>3. /\ SaidUpTo(said \o <<op>>, s, t, op.i2, op.j2)
        /\ NoneEmpty(said) => NoneEmpty(said \o <<op>>)
    BY <1>3, <2>1, <2>2, SayOne
  <2> QED BY <1>3, <2>1, <2>3 DEF Change
<1>4. CASE x = x2 /\ y = y2
  <2>1. Change(x, x2, y, y2) = <<>>
    BY <1>4 DEF Change
  <2> QED BY <1>4, <2>1, ConcatEmptySeq DEF SaidUpTo
<1> QED BY <1>0, <1>1, <1>2, <1>3, <1>4

\* And a run of equals.
LEMMA SayEqual ==
  ASSUME NEW s, NEW t, NEW said, NEW x \in Nat, NEW y \in Nat, NEW n \in Nat \ {0},
         Len(s) \in Nat, Len(t) \in Nat,
         SaidUpTo(said, s, t, x, y),
         Matches(s, t, x, y, n)
  PROVE  LET more == said \o <<Opcode("equal", x, x + n, y, y + n)>> IN
         SaidUpTo(more, s, t, x + n, y + n) /\ (NoneEmpty(said) => NoneEmpty(more))
<1> DEFINE op == Opcode("equal", x, x + n, y, y + n)
<1>1. op \in OpcodeSet /\ op.i1 = x /\ op.j1 = y /\ op.i2 = x + n /\ op.j2 = y + n
      /\ op.tag = "equal" /\ x < x + n /\ y < y + n
  BY DEF OpcodeSet, Opcode, Tags
<1>2. x + n <= Len(s) /\ y + n <= Len(t) /\ x + n - x = n /\ y + n - y = n
  BY DEF Matches
<1>3. OpcodeTrue(op, s, t)
  BY <1>1, <1>2 DEF OpcodeTrue
<1> HIDE DEF op
<1>4. /\ SaidUpTo(said \o <<op>>, s, t, op.i2, op.j2)
      /\ NoneEmpty(said) => NoneEmpty(said \o <<op>>)
  BY <1>1, <1>3, SayOne
<1> QED BY <1>1, <1>4 DEF op

\* Or a run of equals some way ahead in a.
LEMMA SayMatch ==
  ASSUME NEW s, NEW t, NEW said, NEW x \in Nat, NEW y \in Nat, NEW x2 \in Nat,
         NEW n \in Nat \ {0}, Len(s) \in Nat, Len(t) \in Nat,
         SaidUpTo(said, s, t, x, y),
         x <= x2, Matches(s, t, x2, y, n)
  PROVE  LET more == said \o (Change(x, x2, y, y) \o <<Opcode("equal", x2, x2 + n, y, y + n)>>)
         IN  SaidUpTo(more, s, t, x2 + n, y + n) /\ (NoneEmpty(said) => NoneEmpty(more))
<1> DEFINE eq == <<Opcode("equal", x2, x2 + n, y, y + n)>>
           chg == Change(x, x2, y, y)
<1>1. x2 \in x..Len(s) /\ y \in y..Len(t)
  BY DEF Matches
<1>2. SaidUpTo(said \o chg, s, t, x2, y) /\ (NoneEmpty(said) => NoneEmpty(said \o chg))
  BY <1>1, SayChange
<1>3. LET more == (said \o chg) \o eq IN
      SaidUpTo(more, s, t, x2 + n, y + n) /\ (NoneEmpty(said \o chg) => NoneEmpty(more))
  <2> HIDE DEF chg
  <2> QED BY <1>2, SayEqual
<1>4. chg \in Seq(OpcodeSet) /\ eq \in Seq(OpcodeSet) /\ said \in Seq(OpcodeSet)
  <2>1. Opcode("equal", x2, x2 + n, y, y + n) \in OpcodeSet
    BY DEF Opcode, OpcodeSet, Tags
  <2>2. chg \in Seq(OpcodeSet)
    BY ChangeIsOpcodes
  <2> QED BY <2>1, <2>2 DEF SaidUpTo
<1> HIDE DEF chg, eq
<1>5. (said \o chg) \o eq = said \o (chg \o eq)
  <2>1. Joins(OpcodeSet)
    BY ThreeJoin
  <2> QED BY <1>4, <2>1 DEF Joins
<1> QED BY <1>2, <1>3, <1>5 DEF chg, eq

-------------------------------------------------------------------------------

\* A loop that advances as long as two sequences agree comes to where they do not.
LEMMA ExtentMatches ==
  ASSUME NEW s, NEW t, Len(s) \in Nat, Len(t) \in Nat, NEW x \in 0..Len(s), NEW y \in 0..Len(t)
  PROVE  /\ Extent(s, t, x, y) \in Nat
         /\ MatchesExactly(s, t, x, y, Extent(s, t, x, y))
<1> DEFINE most == Smaller(Len(s) - x, Len(t) - y)
           D == {m \in 0..most : m = most \/ s[x + m + 1] # t[y + m + 1]}
<1>1. /\ most \in Nat /\ x + most <= Len(s) /\ y + most <= Len(t)
      /\ x + most = Len(s) \/ y + most = Len(t)
  BY DEF Smaller
<1> HIDE DEF most
<1>2. PICK n \in D : \A m \in D : n <= m
  <2>1. most \in D /\ D \in SUBSET Nat
    BY <1>1
  <2> HIDE DEF D
  <2>2. D # {}
    BY <2>1
  <2> QED BY <2>1, <2>2, LeastNatural
<1>3. n \in 0..most /\ (n = most \/ s[x + n + 1] # t[y + n + 1])
  BY <1>2
<1>4. \A l \in 1..n : s[x + l] = t[y + l]
  <2> SUFFICES ASSUME NEW l \in 1..n PROVE s[x + l] = t[y + l]
    OBVIOUS
  <2> DEFINE m == l - 1
  <2>1. m \in 0..most /\ ~(n <= m) /\ m # most /\ m + 1 = l
    BY <1>1, <1>3
  <2>2. m \notin D
    BY <1>2, <2>1
  <2>3. s[x + m + 1] = t[y + m + 1]
    BY <2>1, <2>2
  <2>4. x + m + 1 = x + l /\ y + m + 1 = y + l
    BY <2>1
  <2> QED BY <2>3, <2>4
<1> HIDE DEF D
<1>5. MatchesExactly(s, t, x, y, n)
  <2>1. x + n <= Len(s) /\ y + n <= Len(t)
    BY <1>1, <1>3
  <2>2. n = most => ~(x + n < Len(s) /\ y + n < Len(t))
    BY <1>1
  <2> QED BY <1>3, <1>4, <2>1, <2>2 DEF MatchesExactly, Matches
<1>6. ~(x > Len(s) \/ y > Len(t))
  OBVIOUS
<1>7. Extent(s, t, x, y) = CHOOSE m \in 0..most : MatchesExactly(s, t, x, y, m)
  BY <1>6 DEF Extent, most
<1>8. Extent(s, t, x, y) \in 0..most /\ MatchesExactly(s, t, x, y, Extent(s, t, x, y))
  BY <1>3, <1>5, <1>7
<1> QED BY <1>1, <1>8

-------------------------------------------------------------------------------
(* A matcher that may go back in a. *)

\* f is where in a each opcode leads to.
LeadsTo(f, said) ==
  /\ f \in [0..Len(said) -> Nat] /\ f[0] = 0
  /\ \A m \in 1..Len(said) : f[m] = f[m - 1] + (said[m].i2 - said[m].i1)

\* What is so of an opcode when it leads from x to z: what it compares begins at x, and
\* what it copies is so.
JumpSays(op, s, t, x, z) ==
  /\ z <= Len(s) /\ op.j1 <= op.j2 /\ op.j2 <= Len(t)
  /\ op.tag \in {"equal", "replace"} => op.i1 = x /\ op.i1 <= op.i2
  /\ op.tag = "equal" =>
       op.i2 - op.i1 = op.j2 - op.j1 /\ Matches(s, t, op.i1, op.j1, op.i2 - op.i1)
  /\ op.tag = "delete" => op.j1 = op.j2
  /\ op.tag = "insert" => op.i1 = op.i2

\* So of each opcode, and it leaves no gap in b.
JumpTrue(f, said, m, s, t) ==
  /\ said[m].j1 = IF m = 1 THEN 0 ELSE said[m - 1].j2
  /\ JumpSays(said[m], s, t, f[m - 1], f[m])

JumpedTo(said, s, t, x, y) ==
  /\ said \in Seq(OpcodeSet) /\ ReachedInB(said) = y
  /\ \E f : /\ LeadsTo(f, said) /\ f[Len(said)] = x
            /\ \A m \in 1..Len(said) : JumpTrue(f, said, m, s, t)

\* At the start nothing has been said.
LEMMA NothingJumped ==
  ASSUME NEW s, NEW t
  PROVE  JumpedTo(<<>>, s, t, 0, 0)
<1> DEFINE f == [m \in 0..0 |-> 0]
<1>1. LeadsTo(f, <<>>) /\ f[Len(<<>>)] = 0
  BY DEF LeadsTo
<1>2. \A m \in 1..Len(<<>>) : JumpTrue(f, <<>>, m, s, t)
  OBVIOUS
<1> QED BY <1>1, <1>2 DEF JumpedTo, ReachedInB

\* One more opcode, which begins in b where the others end.
LEMMA SayJump ==
  ASSUME NEW s, NEW t, NEW said, NEW x \in Nat, NEW y \in Nat, NEW z \in Nat,
         NEW op \in OpcodeSet,
         JumpedTo(said, s, t, x, y),
         op.j1 = y, z = x + (op.i2 - op.i1),
         JumpSays(op, s, t, x, z)
  PROVE  JumpedTo(said \o <<op>>, s, t, z, op.j2)
<1> DEFINE more == said \o <<op>>
           n == Len(said)
<1>1. said \in Seq(OpcodeSet) /\ <<op>> \in Seq(OpcodeSet) /\ n \in Nat
  BY LenProperties DEF JumpedTo
<1>2. /\ more \in Seq(OpcodeSet) /\ Len(more) = n + 1
      /\ \A m \in 1..n : more[m] = said[m]
      /\ more[n + 1] = op
  <2>1. Len(<<op>>) = 1 /\ <<op>>[1] = op
    OBVIOUS
  <2> QED BY <1>1, <2>1, ConcatProperties
<1>3. PICK f : /\ LeadsTo(f, said) /\ f[n] = x
               /\ \A m \in 1..n : JumpTrue(f, said, m, s, t)
  BY DEF JumpedTo
<1> DEFINE g == [m \in 0..(n + 1) |-> IF m <= n THEN f[m] ELSE z]
<1>4. op.i1 \in Nat /\ op.i2 \in Nat
  BY DEF OpcodeSet
<1>5. g \in [0..(n + 1) -> Nat] /\ (\A m \in 0..n : g[m] = f[m]) /\ g[n + 1] = z
  BY <1>1, <1>3, <1>4 DEF LeadsTo
<1> HIDE DEF g, more, n
<1>6. LeadsTo(g, more)
  <2>1. \A m \in 1..n : f[m] = f[m - 1] + (said[m].i2 - said[m].i1)
    BY <1>3 DEF LeadsTo, n
  <2>2. \A m \in 1..(n + 1) : g[m] = g[m - 1] + (more[m].i2 - more[m].i1)
    <3> SUFFICES ASSUME NEW m \in 1..(n + 1)
                 PROVE  g[m] = g[m - 1] + (more[m].i2 - more[m].i1)
      OBVIOUS
    <3>1. CASE m \in 1..n
      <4>1. m \in 0..n /\ m - 1 \in 0..n
        BY <1>1, <3>1
      <4> QED BY <1>2, <1>5, <2>1, <3>1, <4>1
    <3>2. CASE m = n + 1
      <4>1. m - 1 = n /\ n \in 0..n
        BY <1>1, <3>2
      <4> QED BY <1>2, <1>3, <1>5, <3>2, <4>1
    <3> QED BY <1>1, <3>1, <3>2
  <2>3. g[0] = 0
    <3>1. 0 \in 0..n
      BY <1>1
    <3>2. f[0] = 0
      BY <1>3 DEF LeadsTo
    <3> QED BY <1>5, <3>1, <3>2
  <2> QED BY <1>2, <1>5, <2>2, <2>3 DEF LeadsTo
<1>7. ASSUME NEW m \in 1..(n + 1) PROVE JumpTrue(g, more, m, s, t)
  <2>1. CASE m \in 1..n
    <3>1. JumpTrue(f, said, m, s, t)
      BY <1>3, <2>1 DEF n
    <3>2. m - 1 \in 0..n /\ (m # 1 => m - 1 \in 1..n)
      BY <1>1, <2>1
    <3>3. more[m] = said[m] /\ g[m - 1] = f[m - 1] /\ g[m] = f[m] /\ (m # 1 => more[m - 1] = said[m - 1])
      BY <1>2, <1>5, <2>1, <3>2
    <3> QED BY <3>1, <3>3 DEF JumpTrue
  <2>2. CASE m = n + 1
    <3>1. m - 1 = n /\ n \in 0..n
      BY <1>1, <2>2
    <3>2. more[m] = op /\ g[m - 1] = x /\ g[m] = z
      BY <1>2, <1>3, <1>5, <2>2, <3>1
    <3>3. ReachedInB(said) = y
      BY DEF JumpedTo
    <3>4. op.j1 = IF m = 1 THEN 0 ELSE more[m - 1].j2
      <4>1. CASE n = 0
        <5>1. said = <<>>
          BY <1>1, <4>1, EmptySeq DEF n
        <5> QED BY <2>2, <3>3, <4>1, <5>1 DEF ReachedInB
      <4>2. CASE n # 0
        <5>1. said # <<>> /\ n \in 1..n /\ m # 1
          BY <1>1, <2>2, <4>2, EmptySeq DEF n
        <5>2. more[m - 1] = said[n]
          BY <1>2, <3>1, <5>1
        <5> QED BY <3>3, <5>1, <5>2 DEF ReachedInB, n
      <4> QED BY <4>1, <4>2
    <3> QED BY <3>2, <3>4 DEF JumpTrue
  <2> QED BY <1>1, <2>1, <2>2
<1>8. ReachedInB(more) = op.j2
  <2>1. Len(more) # 0
    BY <1>1, <1>2
  <2>2. more # <<>>
    BY <1>2, <2>1, EmptySeq
  <2> QED BY <1>2, <2>2 DEF ReachedInB
<1>9. JumpedTo(more, s, t, z, op.j2)
  BY <1>2, <1>5, <1>6, <1>7, <1>8 DEF JumpedTo
<1> QED BY <1>9 DEF more

\* What is still to be said of two sequences by who stands at (x, y).
Remains(rest, s, t, x, y) ==
  /\ rest \in Seq(OpcodeSet)
  /\ \A m \in 1..Len(rest) :
       /\ OpcodeTrue(rest[m], s, t)
       /\ rest[m].i1 = IF m = 1 THEN x ELSE rest[m - 1].i2
       /\ rest[m].j1 = IF m = 1 THEN y ELSE rest[m - 1].j2
  /\ IF rest = <<>> THEN x = Len(s) /\ y = Len(t)
     ELSE rest[Len(rest)].i2 = Len(s) /\ rest[Len(rest)].j2 = Len(t)

\* Before anything has been passed on, all that has been said is.
LEMMA AllRemains ==
  ASSUME NEW s, NEW t, NEW said, SaidUpTo(said, s, t, Len(s), Len(t))
  PROVE  Remains(said, s, t, 0, 0)
<1>1. said \in Seq(OpcodeSet) /\ Legal(said, s, t)
  BY DEF SaidUpTo
<1>2. \A m \in 1..Len(said) :
        /\ OpcodeTrue(said[m], s, t)
        /\ said[m].i1 = IF m = 1 THEN 0 ELSE said[m - 1].i2
        /\ said[m].j1 = IF m = 1 THEN 0 ELSE said[m - 1].j2
  BY <1>1 DEF Legal, InOrder
<1>3. IF said = <<>> THEN 0 = Len(s) /\ 0 = Len(t)
      ELSE said[Len(said)].i2 = Len(s) /\ said[Len(said)].j2 = Len(t)
  BY DEF SaidUpTo, ReachedInA, ReachedInB
<1> QED BY <1>1, <1>2, <1>3 DEF Remains

\* Passing on the first of what remains.
LEMMA OneFewer ==
  ASSUME NEW s, NEW t, NEW x, NEW y, NEW rest, rest # <<>>, Remains(rest, s, t, x, y)
  PROVE  /\ Head(rest) \in OpcodeSet /\ OpcodeTrue(Head(rest), s, t)
         /\ Head(rest).i1 = x /\ Head(rest).j1 = y
         /\ Remains(Tail(rest), s, t, Head(rest).i2, Head(rest).j2)
<1>1. rest \in Seq(OpcodeSet)
  BY DEF Remains
<1>2. PICK n \in Nat \ {0} : n = Len(rest)
  BY <1>1, LenProperties, EmptySeq
<1>3. Head(rest) = rest[1] /\ Head(rest) \in OpcodeSet
  BY <1>1, HeadTailProperties
<1> DEFINE r == Tail(rest)
<1>4. /\ r \in Seq(OpcodeSet) /\ Len(r) = n - 1
      /\ \A m \in 1..(n - 1) : r[m] = rest[m + 1]
  BY <1>1, <1>2, HeadTailProperties
<1>5. OpcodeTrue(rest[1], s, t) /\ rest[1].i1 = x /\ rest[1].j1 = y
  BY <1>2 DEF Remains
<1>6. \A m \in 1..(n - 1) :
        /\ OpcodeTrue(r[m], s, t)
        /\ r[m].i1 = IF m = 1 THEN rest[1].i2 ELSE r[m - 1].i2
        /\ r[m].j1 = IF m = 1 THEN rest[1].j2 ELSE r[m - 1].j2
  <2> HIDE DEF r
  <2> SUFFICES ASSUME NEW m \in 1..(n - 1)
               PROVE  /\ OpcodeTrue(r[m], s, t)
                      /\ r[m].i1 = IF m = 1 THEN rest[1].i2 ELSE r[m - 1].i2
                      /\ r[m].j1 = IF m = 1 THEN rest[1].j2 ELSE r[m - 1].j2
    OBVIOUS
  <2>1. m + 1 \in 1..n /\ m + 1 # 1 /\ (m + 1) - 1 = m
    OBVIOUS
  <2>2. OpcodeTrue(rest[m + 1], s, t) /\ rest[m + 1].i1 = rest[m].i2 /\ rest[m + 1].j1 = rest[m].j2
    BY <1>2, <2>1 DEF Remains
  <2>3. m # 1 => m - 1 \in 1..(n - 1) /\ r[m - 1] = rest[m]
    <3>1. m # 1 => m - 1 \in 1..(n - 1) /\ (m - 1) + 1 = m
      OBVIOUS
    <3> QED BY <1>4, <3>1
  <2> QED BY <1>4, <2>2, <2>3
<1>7. IF r = <<>> THEN rest[1].i2 = Len(s) /\ rest[1].j2 = Len(t)
      ELSE r[Len(r)].i2 = Len(s) /\ r[Len(r)].j2 = Len(t)
  <2>1. rest[n].i2 = Len(s) /\ rest[n].j2 = Len(t)
    BY <1>2 DEF Remains
  <2> HIDE DEF r
  <2>2. CASE n = 1
    <3>1. r = <<>>
      BY <1>4, <2>2, EmptySeq
    <3> QED BY <2>1, <2>2, <3>1
  <2>3. CASE n # 1
    <3>1. n - 1 \in 1..(n - 1) /\ (n - 1) + 1 = n
      BY <2>3
    <3>2. r # <<>> /\ r[n - 1] = rest[n]
      BY <1>4, <2>3, <3>1, EmptySeq
    <3> QED BY <1>4, <2>1, <3>2
  <2> QED BY <2>2, <2>3
<1>8. Remains(r, s, t, rest[1].i2, rest[1].j2)
  <2> HIDE DEF r
  <2> QED BY <1>4, <1>6, <1>7 DEF Remains
<1> QED BY <1>3, <1>5, <1>8

\* Fewer opcodes that each say something.
LEMMA NoneEmptyTail ==
  ASSUME NEW said \in Seq(OpcodeSet), said # <<>>, NoneEmpty(said)
  PROVE  /\ Head(said) = said[1] /\ (said[1].i1 < said[1].i2 \/ said[1].j1 < said[1].j2)
         /\ Tail(said) \in Seq(OpcodeSet) /\ NoneEmpty(Tail(said))
         /\ Tail(said) = <<>> <=> Len(said) <= 1
         /\ Len(said) > 1 => Head(Tail(said)) = said[2]
<1>1. PICK n \in Nat \ {0} : n = Len(said)
  BY LenProperties, EmptySeq
<1>2. /\ Head(said) = said[1] /\ Tail(said) \in Seq(OpcodeSet) /\ Len(Tail(said)) = n - 1
      /\ \A m \in 1..(n - 1) : Tail(said)[m] = said[m + 1]
  BY <1>1, HeadTailProperties
<1>3. 1 \in 1..n
  BY <1>1
<1>4. PICK r \in Seq(OpcodeSet) : r = Tail(said)
  BY <1>2
<1>5. Len(r) = n - 1 /\ \A m \in 1..(n - 1) : r[m] = said[m + 1]
  BY <1>2, <1>4
<1>6. NoneEmpty(r)
  <2>1. \A m \in 1..(n - 1) : m + 1 \in 1..n
    OBVIOUS
  <2> QED BY <1>1, <1>5, <2>1 DEF NoneEmpty
<1>7. r = <<>> <=> n <= 1
  <2>1. r = <<>> <=> Len(r) = 0
    BY EmptySeq
  <2> QED BY <1>5, <2>1
<1>8. n > 1 => Head(r) = said[2]
  <2>1. n > 1 => 1 \in 1..(n - 1) /\ 1 + 1 = 2
    OBVIOUS
  <2>2. n > 1 => Head(r) = r[1]
    BY <1>7, HeadTailProperties
  <2> QED BY <1>5, <2>1, <2>2
<1> QED BY <1>1, <1>2, <1>3, <1>4, <1>6, <1>7, <1>8 DEF NoneEmpty

\* Two parts of sequences that agree are where they were taken from.
LEMMA PartsAgree ==
  ASSUME NEW S, NEW s \in Seq(S), NEW t \in Seq(S), NEW x \in Nat, NEW m \in Nat, NEW y \in Nat,
         NEW n \in Nat, x + m <= Len(s), y + n <= Len(t), NEW p \in Nat, NEW q \in Nat, NEW l \in Nat,
         Matches(SubSeq(s, x + 1, x + m), SubSeq(t, y + 1, y + n), p, q, l)
  PROVE  Matches(s, t, x + p, y + q, l) /\ p + l <= m /\ q + l <= n
<1> DEFINE u == SubSeq(s, x + 1, x + m)
           v == SubSeq(t, y + 1, y + n)
<1>1. Len(u) = m /\ \A z \in 1..m : u[z] = s[x + z]
  BY Slice
<1>2. Len(v) = n /\ \A z \in 1..n : v[z] = t[y + z]
  BY Slice
<1>3. p + l <= Len(u) /\ q + l <= Len(v) /\ \A z \in 1..l : u[p + z] = v[q + z]
  BY DEF Matches
<1> HIDE DEF u, v
<1>4. p + l <= m /\ q + l <= n
  BY <1>1, <1>2, <1>3
<1>5. Len(s) \in Nat /\ Len(t) \in Nat
  OBVIOUS
<1>6. (x + p) + l <= Len(s) /\ (y + q) + l <= Len(t)
  BY <1>4, <1>5
<1>7. ASSUME NEW z \in 1..l PROVE s[(x + p) + z] = t[(y + q) + z]
  <2>1. /\ p + z \in 1..m /\ q + z \in 1..n /\ x + (p + z) = (x + p) + z
        /\ y + (q + z) = (y + q) + z
    BY <1>4
  <2>2. u[p + z] = s[(x + p) + z] /\ v[q + z] = t[(y + q) + z]
    BY <1>1, <1>2, <2>1
  <2> QED BY <1>3, <2>2
<1> QED BY <1>4, <1>6, <1>7 DEF Matches

\* Of m entries, p and then q of those after them.
LEMMA EndsMeet ==
  ASSUME NEW m \in Nat, NEW n \in Nat, NEW p \in Nat, NEW g \in Nat, NEW h \in Nat,
         p + g = m, p + h = n, NEW q \in Nat, q <= g, q <= h
  PROVE  p + (g - q) = m - q /\ p + (h - q) = n - q /\ p + q <= m /\ p + q <= n
OBVIOUS

-------------------------------------------------------------------------------
(* Paths through two sequences: edits, and after each the run of equals. *)

\* A run of equals from any place, inside the two sequences or beyond them.
LEMMA ExtentAnywhere ==
  ASSUME NEW s, NEW t, Len(s) \in Nat, Len(t) \in Nat, NEW x \in Nat, NEW y \in Nat
  PROVE  /\ Extent(s, t, x, y) \in Nat
         /\ Extent(s, t, x, y) # 0 => Matches(s, t, x, y, Extent(s, t, x, y))
         /\ x + Extent(s, t, x, y) < Len(s) /\ y + Extent(s, t, x, y) < Len(t)
              => s[x + Extent(s, t, x, y) + 1] # t[y + Extent(s, t, x, y) + 1]
<1>1. CASE x > Len(s) \/ y > Len(t)
  <2>1. Extent(s, t, x, y) = 0
    BY <1>1 DEF Extent
  <2>2. ~(x + 0 < Len(s) /\ y + 0 < Len(t))
    BY <1>1
  <2> QED BY <2>1, <2>2
<1>2. CASE ~(x > Len(s) \/ y > Len(t))
  <2>1. x \in 0..Len(s) /\ y \in 0..Len(t)
    BY <1>2
  <2>2. Extent(s, t, x, y) \in Nat /\ MatchesExactly(s, t, x, y, Extent(s, t, x, y))
    BY <2>1, ExtentMatches
  <2> QED BY <2>2 DEF MatchesExactly
<1> QED BY <1>1, <1>2

PointSet == [x : Nat, y : Nat]
Point(x, y) == [x |-> x, y |-> y]
Edits == {"i", "d"}

\* How far an edit goes in either sequence.
InFirst(w)  == IF w = "d" THEN 1 ELSE 0
InSecond(w) == IF w = "i" THEN 1 ELSE 0

\* Where the run of equals from (x, y) ends.
Slid(s, t, x, y) == Point(x + Extent(s, t, x, y), y + Extent(s, t, x, y))

\* The places f that the edits h lead through, a run of equals before the first one and
\* after each.
Follows(f, h, s, t, x, y) ==
  /\ f \in [0..Len(h) -> PointSet] /\ f[0] = Slid(s, t, x, y)
  /\ \A n \in 1..Len(h) :
       f[n] = Slid(s, t, f[n - 1].x + InFirst(h[n]), f[n - 1].y + InSecond(h[n]))

\* They lead from (x, y) to (p, q).
LedTo(h, s, t, x, y, p, q) ==
  h \in Seq(Edits) /\ \E f : Follows(f, h, s, t, x, y) /\ f[Len(h)] = Point(p, q)

\* A run of equals ends at a place.
LEMMA SlidIs ==
  ASSUME NEW s, NEW t, Len(s) \in Nat, Len(t) \in Nat, NEW x \in Nat, NEW y \in Nat
  PROVE  /\ Slid(s, t, x, y) \in PointSet
         /\ x <= Slid(s, t, x, y).x /\ y <= Slid(s, t, x, y).y
<1>1. PICK n \in Nat : n = Extent(s, t, x, y)
  BY ExtentAnywhere
<1>2. Slid(s, t, x, y) = [x |-> x + n, y |-> y + n]
  BY <1>1 DEF Slid, Point
<1> QED BY <1>2 DEF PointSet

\* Without edits, a run of equals is all there is.
LEMMA LedNowhere ==
  ASSUME NEW s, NEW t, Len(s) \in Nat, Len(t) \in Nat, NEW x \in Nat, NEW y \in Nat
  PROVE  LedTo(<<>>, s, t, x, y, x + Extent(s, t, x, y), y + Extent(s, t, x, y))
<1> DEFINE f == [n \in 0..0 |-> Slid(s, t, x, y)]
<1>1. Len(<<>>) = 0 /\ <<>> \in Seq(Edits)
  OBVIOUS
<1>2. f \in [0..0 -> PointSet] /\ f[0] = Slid(s, t, x, y)
  BY SlidIs
<1>3. Follows(f, <<>>, s, t, x, y)
  BY <1>1, <1>2 DEF Follows
<1> QED BY <1>1, <1>2, <1>3 DEF LedTo, Slid

\* One more edit leads on from where the edits before it led.
LEMMA LedFurther ==
  ASSUME NEW s, NEW t, Len(s) \in Nat, Len(t) \in Nat, NEW x, NEW y, NEW h,
         NEW p \in Nat, NEW q \in Nat, LedTo(h, s, t, x, y, p, q), NEW w \in Edits
  PROVE  LET u == p + InFirst(w)
             v == q + InSecond(w)
         IN LedTo(Append(h, w), s, t, x, y, u + Extent(s, t, u, v), v + Extent(s, t, u, v))
<1> DEFINE u == p + InFirst(w)
           v == q + InSecond(w)
<1>1. h \in Seq(Edits) /\ u \in Nat /\ v \in Nat
  BY DEF LedTo, InFirst, InSecond
<1>2. PICK f : Follows(f, h, s, t, x, y) /\ f[Len(h)] = Point(p, q)
  BY DEF LedTo
<1>3. PICK n \in Nat : n = Len(h)
  BY <1>1
<1> DEFINE g == [m \in 0..(n + 1) |-> IF m <= n THEN f[m] ELSE Slid(s, t, u, v)]
           more == Append(h, w)
<1>4. /\ more \in Seq(Edits) /\ Len(more) = n + 1 /\ more[n + 1] = w
      /\ \A m \in 1..n : more[m] = h[m]
  BY <1>1, <1>3, AppendProperties
<1>5. /\ f \in [0..n -> PointSet] /\ f[0] = Slid(s, t, x, y) /\ f[n] = Point(p, q)
      /\ \A m \in 1..n : f[m] = Slid(s, t, f[m - 1].x + InFirst(h[m]), f[m - 1].y + InSecond(h[m]))
  BY <1>2, <1>3 DEF Follows
<1>6. Slid(s, t, u, v) \in PointSet
  BY <1>1, SlidIs
<1>7. /\ g \in [0..(n + 1) -> PointSet] /\ g[n + 1] = Slid(s, t, u, v)
      /\ \A m \in 0..n : g[m] = f[m]
  BY <1>5, <1>6
<1> HIDE DEF g, more
<1>8. \A m \in 1..(n + 1) :
        g[m] = Slid(s, t, g[m - 1].x + InFirst(more[m]), g[m - 1].y + InSecond(more[m]))
  <2> SUFFICES ASSUME NEW m \in 1..(n + 1)
               PROVE  g[m] = Slid(s, t, g[m - 1].x + InFirst(more[m]), g[m - 1].y + InSecond(more[m]))
    OBVIOUS
  <2>1. m - 1 \in 0..n
    OBVIOUS
  <2>2. CASE m = n + 1
    <3>1. g[m - 1] = Point(p, q)
      BY <1>5, <1>7, <2>1, <2>2
    <3>2. g[m - 1].x = p /\ g[m - 1].y = q
      BY <3>1 DEF Point
    <3> QED BY <1>4, <1>7, <2>2, <3>2
  <2>3. CASE m # n + 1
    <3>1. m \in 1..n /\ m \in 0..n
      BY <2>3
    <3> QED BY <1>4, <1>5, <1>7, <2>1, <3>1
  <2> QED BY <2>2, <2>3
<1>9. 0 \in 0..n
  OBVIOUS
<1>10. Follows(g, more, s, t, x, y)
  BY <1>4, <1>5, <1>7, <1>8, <1>9 DEF Follows
<1>11. g[Len(more)] = Point(u + Extent(s, t, u, v), v + Extent(s, t, u, v))
  BY <1>4, <1>7 DEF Slid
<1>12. LedTo(more, s, t, x, y, u + Extent(s, t, u, v), v + Extent(s, t, u, v))
  BY <1>4, <1>10, <1>11 DEF LedTo
<1> QED BY <1>12 DEF more

\* After the first run and the first edit, the rest of them lead to the same place.
LEMMA LedRest ==
  ASSUME NEW s, NEW t, Len(s) \in Nat, Len(t) \in Nat, NEW x \in Nat, NEW y \in Nat, NEW h,
         NEW p, NEW q, LedTo(h, s, t, x, y, p, q), h # <<>>
  PROVE  LET n == Extent(s, t, x, y) IN
         LedTo(Tail(h), s, t, x + n + InFirst(Head(h)), y + n + InSecond(Head(h)), p, q)
<1> DEFINE w == Head(h)
           rest == Tail(h)
<1>1. PICK n \in Nat : n = Extent(s, t, x, y)
  BY ExtentAnywhere
<1> DEFINE u == x + n + InFirst(w)
           v == y + n + InSecond(w)
<1>2. h \in Seq(Edits)
  BY DEF LedTo
<1>3. PICK l \in Nat : l + 1 = Len(h) /\ Len(rest) = l
  <2>1. PICK z \in Nat \ {0} : z = Len(h)
    BY <1>2, EmptySeq
  <2>2. Len(rest) = Len(h) - 1
    BY <1>2, HeadTailProperties
  <2>3. z - 1 \in Nat /\ (z - 1) + 1 = z
    OBVIOUS
  <2> HIDE DEF rest
  <2> QED BY <2>1, <2>2, <2>3
<1>4. /\ w = h[1] /\ rest \in Seq(Edits) /\ \A m \in 1..l : rest[m] = h[m + 1]
  BY <1>2, <1>3, HeadTailProperties
<1>5. PICK f : Follows(f, h, s, t, x, y) /\ f[Len(h)] = Point(p, q)
  BY DEF LedTo
<1>6. /\ f \in [0..(l + 1) -> PointSet] /\ f[0] = Slid(s, t, x, y) /\ f[l + 1] = Point(p, q)
      /\ \A m \in 1..(l + 1) :
           f[m] = Slid(s, t, f[m - 1].x + InFirst(h[m]), f[m - 1].y + InSecond(h[m]))
  BY <1>3, <1>5 DEF Follows
<1> DEFINE g == [m \in 0..l |-> f[m + 1]]
<1>7. g \in [0..l -> PointSet] /\ \A m \in 0..l : g[m] = f[m + 1]
  <2>1. \A m \in 0..l : m + 1 \in 0..(l + 1)
    OBVIOUS
  <2> QED BY <1>6, <2>1
<1> HIDE DEF g, w, rest
<1>8. g[0] = Slid(s, t, u, v)
  <2>1. f[0].x = x + n /\ f[0].y = y + n
    BY <1>1, <1>6 DEF Slid, Point
  <2>2. 1 \in 1..(l + 1) /\ 1 - 1 = 0 /\ 0 \in 0..l /\ 0 + 1 = 1
    OBVIOUS
  <2>3. f[1] = Slid(s, t, f[0].x + InFirst(h[1]), f[0].y + InSecond(h[1]))
    BY <1>6, <2>2
  <2> QED BY <1>4, <1>7, <2>1, <2>2, <2>3
<1>9. \A m \in 1..l : g[m] = Slid(s, t, g[m - 1].x + InFirst(rest[m]), g[m - 1].y + InSecond(rest[m]))
  <2> SUFFICES ASSUME NEW m \in 1..l
               PROVE  g[m] = Slid(s, t, g[m - 1].x + InFirst(rest[m]), g[m - 1].y + InSecond(rest[m]))
    OBVIOUS
  <2>1. m \in 0..l /\ m - 1 \in 0..l /\ m + 1 \in 1..(l + 1) /\ (m + 1) - 1 = m /\ (m - 1) + 1 = m
    OBVIOUS
  <2>2. g[m] = f[m + 1] /\ g[m - 1] = f[m]
    BY <1>7, <2>1
  <2>3. f[m + 1] = Slid(s, t, f[m].x + InFirst(h[m + 1]), f[m].y + InSecond(h[m + 1]))
    BY <1>6, <2>1
  <2> QED BY <1>4, <2>2, <2>3
<1>10. Follows(g, rest, s, t, u, v)
  BY <1>3, <1>7, <1>8, <1>9 DEF Follows
<1>11. g[Len(rest)] = Point(p, q)
  BY <1>3, <1>6, <1>7
<1>12. LedTo(rest, s, t, u, v, p, q)
  BY <1>4, <1>10, <1>11 DEF LedTo
<1> QED BY <1>1, <1>12 DEF rest, w

\* The edits lead forwards, and every one of them somewhere.
LEMMA LedForward ==
  ASSUME NEW s, NEW t, Len(s) \in Nat, Len(t) \in Nat, NEW x \in Nat, NEW y \in Nat, NEW h,
         NEW p \in Nat, NEW q \in Nat, LedTo(h, s, t, x, y, p, q)
  PROVE  LET n == Extent(s, t, x, y) IN
         /\ x + n <= p /\ y + n <= q
         /\ h = <<>> => x + n = p /\ y + n = q
<1>1. PICK n \in Nat : n = Extent(s, t, x, y)
  BY ExtentAnywhere
<1>2. h \in Seq(Edits)
  BY DEF LedTo
<1>3. PICK l \in Nat : l = Len(h)
  BY <1>2
<1>4. PICK f : Follows(f, h, s, t, x, y) /\ f[Len(h)] = Point(p, q)
  BY DEF LedTo
<1>5. /\ f \in [0..l -> PointSet] /\ f[0] = Slid(s, t, x, y) /\ f[l] = Point(p, q)
      /\ \A m \in 1..l : f[m] = Slid(s, t, f[m - 1].x + InFirst(h[m]), f[m - 1].y + InSecond(h[m]))
  BY <1>3, <1>4 DEF Follows
<1>6. f[0].x = x + n /\ f[0].y = y + n /\ f[l].x = p /\ f[l].y = q
  BY <1>1, <1>5 DEF Slid, Point
<1> DEFINE R == {m \in 0..l : x + n <= f[m].x /\ y + n <= f[m].y}
<1>7. 0 \in R
  BY <1>6
<1>8. ASSUME NEW m \in 0..(l - 1), m \in R PROVE m + 1 \in R
  <2>1. m + 1 \in 1..l /\ m + 1 \in 0..l /\ m \in 0..l /\ (m + 1) - 1 = m
    OBVIOUS
  <2>2. f[m] \in PointSet /\ x + n <= f[m].x /\ y + n <= f[m].y
    BY <1>5, <1>8, <2>1
  <2>3. PICK u \in Nat, v \in Nat : u = f[m].x /\ v = f[m].y
    BY <2>2 DEF PointSet
  <2>4. PICK e1 \in Nat, e2 \in Nat : e1 = u + InFirst(h[m + 1]) /\ e2 = v + InSecond(h[m + 1])
                                       /\ u <= e1 /\ v <= e2
    BY DEF InFirst, InSecond
  <2>5. f[m + 1] = Slid(s, t, e1, e2)
    BY <1>5, <2>1, <2>3, <2>4
  <2>6. f[m + 1] \in PointSet /\ e1 <= f[m + 1].x /\ e2 <= f[m + 1].y
    BY <2>5, SlidIs
  <2>7. PICK u2 \in Nat, v2 \in Nat : u2 = f[m + 1].x /\ v2 = f[m + 1].y
    BY <2>6 DEF PointSet
  <2>8. x + n <= u2 /\ y + n <= v2
    <3>1. x + n <= u /\ y + n <= v
      BY <2>2, <2>3
    <3>2. e1 <= u2 /\ e2 <= v2 /\ u <= e1 /\ v <= e2
      BY <2>4, <2>6, <2>7
    <3> QED BY <3>1, <3>2
  <2> QED BY <2>1, <2>7, <2>8
<1> HIDE DEF R
<1>9. \A m \in 0..l : m \in R
  <2>1. \A m \in 0..(l - 1) : m \in R => m + 1 \in R
    BY <1>8
  <2> QED BY <1>7, <2>1, InductionUpTo
<1>10. l \in R
  BY <1>9
<1>11. x + n <= p /\ y + n <= q
  BY <1>6, <1>10 DEF R
<1>12. h = <<>> => x + n = p /\ y + n = q
  <2>1. h = <<>> => l = 0
    BY <1>3
  <2> QED BY <1>6, <2>1
<1> QED BY <1>1, <1>11, <1>12

-------------------------------------------------------------------------------
(* The Myers engine.  After r edits, c of which delete, the frontier has come to a place *)
(* on diagonal 2c - r: those places, for c from 0 to r, are a row.                        *)

\* Places of the two neighbours in the row before, xl with one deletion fewer and xr with
\* as many, that are not the end of both sequences of m and n elements and that have not
\* left them but from the neighbour on the other side: one edit more and a run of l equals
\* lead to a place that is no further from its neighbours, and to the end of both
\* sequences, if at all, without passing it.
LEMMA FurthestNumbers ==
  ASSUME NEW m \in Nat, NEW n \in Nat, NEW r \in Nat \ {0}, NEW c \in 0..r,
         NEW xl \in Int, NEW xr \in Int, NEW l \in Nat, NEW u \in Int,
         c > 0 => /\ c - 1 <= xl
                  /\ xl < m \/ xl - (2 * c - r - 1) < n
                  /\ n < xl - (2 * c - r - 1) => c < r /\ xl + 1 <= xr,
         c < r => /\ c <= xr
                  /\ xr < m \/ xr - (2 * c - r + 1) < n
                  /\ m < xr => c > 0 /\ xr <= xl + 1,
         \/ (c = 0 \/ (c < r /\ xl < xr)) /\ u = xr
         \/ c > 0 /\ (c < r => xr <= xl) /\ u = xl + 1,
         l # 0 => u + l <= m /\ u - (2 * c - r) + l <= n
  PROVE  LET x == u + l
             y == x - (2 * c - r)
         IN  /\ x \in Nat /\ y \in Nat /\ c <= x
             /\ x >= m /\ y >= n => x = m /\ y = n
             /\ c < r => xr <= x
             /\ c > 0 => xl + 1 <= x
             /\ m < x => c > 0 /\ x <= xl + 1
             /\ n < y => c < r /\ x <= xr
<1>1. CASE (c = 0 \/ (c < r /\ xl < xr)) /\ u = xr
  <2>1. c < r /\ c <= xr
    BY <1>1
  <2>2. CASE l = 0
    BY <1>1, <2>1, <2>2
  <2>3. CASE l # 0
    BY <1>1, <2>1, <2>3
  <2> QED BY <2>2, <2>3
<1>2. CASE c > 0 /\ (c < r => xr <= xl) /\ u = xl + 1
  <2>2. CASE l = 0
    BY <1>2, <2>2
  <2>3. CASE l # 0
    BY <1>2, <2>3
  <2> QED BY <2>2, <2>3
<1> QED BY <1>1, <1>2

\* A place of a row: c deletions lead there, and it passes the end of both sequences by
\* nothing.
Reached(F, r, c, s, t) ==
  LET x == F[2 * c - r].x
      y == x - (2 * c - r)
  IN  x \in Nat /\ c <= x /\ (x >= Len(s) /\ y >= Len(t) => x = Len(s) /\ y = Len(t))

\* The places after r edits: one beyond either sequence was led to from beside it.
Row(F, r, s, t) ==
  \A c \in 0..r :
    /\ Reached(F, r, c, s, t)
    /\ Len(s) < F[2 * c - r].x => c > 0 /\ F[2 * c - r].x <= F[2 * (c - 1) - r].x + 1
    /\ Len(t) < F[2 * c - r].x - (2 * c - r) =>
         c < r /\ F[2 * c - r].x + 1 <= F[2 * (c + 1) - r].x

\* The first q of them are not the end of both sequences.
Short(F, r, q, s, t) ==
  \A c \in 0..(q - 1) : F[2 * c - r].x < Len(s) \/ F[2 * c - r].x - (2 * c - r) < Len(t)

\* How far x, on the diagonal of c deletions out of r edits, is from the places beside it
\* of the row before.
Beside(F, r, c, x, s, t) ==
  /\ c < r => F[2 * c - r + 1].x <= x
  /\ c > 0 => F[2 * c - r - 1].x + 1 <= x
  /\ Len(s) < x => c > 0 /\ x <= F[2 * c - r - 1].x + 1
  /\ Len(t) < x - (2 * c - r) => c < r /\ x <= F[2 * c - r + 1].x

\* The first q places after r edits, the places of the row before still being there.
RowSoFar(F, r, q, s, t) ==
  \A c \in 0..(q - 1) : Reached(F, r, c, s, t) /\ Beside(F, r, c, F[2 * c - r].x, s, t)

\* Where the edit that leads further comes to: an insertion from one side, or a deletion
\* from the other.
Chosen(F, r, c, u) ==
  \/ /\ c = 0 \/ (c < r /\ F[2 * c - r - 1].x < F[2 * c - r + 1].x)
     /\ c < r /\ u = F[2 * c - r + 1].x
  \/ /\ c > 0 /\ (c < r => F[2 * c - r + 1].x <= F[2 * c - r - 1].x)
     /\ u = F[2 * c - r - 1].x + 1

\* With the run of equals after it, that edit leads to a place of the next row.
LEMMA OneFurther ==
  ASSUME NEW s, NEW t, Len(s) \in Nat, Len(t) \in Nat, NEW r \in Nat \ {0}, NEW c \in 0..r,
         NEW F, Row(F, r - 1, s, t), Short(F, r - 1, r, s, t), NEW u, Chosen(F, r, c, u)
  PROVE  LET z == 2 * c - r
             l == Extent(s, t, u, u - z)
             x == u + l
         IN  /\ u \in Nat /\ u - z \in Nat /\ l \in Nat
             /\ x \in Nat /\ x - z \in Nat /\ c <= x
             /\ x >= Len(s) /\ x - z >= Len(t) => x = Len(s) /\ x - z = Len(t)
             /\ Beside(F, r, c, x, s, t)
<1> DEFINE z == 2 * c - r
           L == F[z - 1]
           G == F[z + 1]
           l == Extent(s, t, u, u - z)
<1>0. z \in Int
  OBVIOUS
<1>1. /\ c > 0 => 2 * (c - 1) - (r - 1) = z - 1 /\ c - 1 \in 0..(r - 1)
      /\ c < r => 2 * c - (r - 1) = z + 1 /\ c \in 0..(r - 1)
  OBVIOUS
<1>2. c > 0 => /\ L.x \in Nat /\ c - 1 <= L.x
               /\ L.x < Len(s) \/ L.x - (z - 1) < Len(t)
               /\ Len(t) < L.x - (z - 1) => c - 1 < r - 1 /\ L.x + 1 <= G.x
  <2> SUFFICES ASSUME c > 0
               PROVE  /\ L.x \in Nat /\ c - 1 <= L.x
                      /\ L.x < Len(s) \/ L.x - (z - 1) < Len(t)
                      /\ Len(t) < L.x - (z - 1) => c - 1 < r - 1 /\ L.x + 1 <= G.x
    OBVIOUS
  <2>1. Reached(F, r - 1, c - 1, s, t)
    BY <1>1 DEF Row
  <2>2. Len(t) < F[2 * (c - 1) - (r - 1)].x - (2 * (c - 1) - (r - 1)) =>
          c - 1 < r - 1
          /\ F[2 * (c - 1) - (r - 1)].x + 1 <= F[2 * ((c - 1) + 1) - (r - 1)].x
    BY <1>1 DEF Row
  <2>3. 2 * ((c - 1) + 1) - (r - 1) = z + 1
    OBVIOUS
  <2>4. \/ F[2 * (c - 1) - (r - 1)].x < Len(s)
        \/ F[2 * (c - 1) - (r - 1)].x - (2 * (c - 1) - (r - 1)) < Len(t)
    <3>1. c - 1 \in 0..(r - 1)
      BY <1>1
    <3> QED BY <3>1 DEF Short
  <2> QED BY <1>1, <2>1, <2>2, <2>3, <2>4 DEF Reached
<1>3. c < r => /\ G.x \in Nat /\ c <= G.x
               /\ G.x < Len(s) \/ G.x - (z + 1) < Len(t)
               /\ Len(s) < G.x => c > 0 /\ G.x <= L.x + 1
  <2> SUFFICES ASSUME c < r
               PROVE  /\ G.x \in Nat /\ c <= G.x
                      /\ G.x < Len(s) \/ G.x - (z + 1) < Len(t)
                      /\ Len(s) < G.x => c > 0 /\ G.x <= L.x + 1
    OBVIOUS
  <2>1. Reached(F, r - 1, c, s, t)
    BY <1>1 DEF Row
  <2>2. Len(s) < F[2 * c - (r - 1)].x =>
          c > 0 /\ F[2 * c - (r - 1)].x <= F[2 * (c - 1) - (r - 1)].x + 1
    BY <1>1 DEF Row
  <2>3. F[2 * c - (r - 1)].x < Len(s) \/ F[2 * c - (r - 1)].x - (2 * c - (r - 1)) < Len(t)
    <3>1. c \in 0..(r - 1)
      BY <1>1
    <3> QED BY <3>1 DEF Short
  <2> QED BY <1>1, <2>1, <2>2, <2>3 DEF Reached
<1>4. PICK xl \in Int : c > 0 => xl = L.x
  BY <1>2
<1>5. PICK xr \in Int : c < r => xr = G.x
  BY <1>3
<1>6. \/ (c = 0 \/ (c < r /\ xl < xr)) /\ u = xr /\ c < r
      \/ c > 0 /\ (c < r => xr <= xl) /\ u = xl + 1
  <2>1. CASE /\ c = 0 \/ (c < r /\ L.x < G.x)
             /\ c < r /\ u = G.x
    BY <1>4, <1>5, <2>1, SMTT(30)
  <2>2. CASE /\ c > 0 /\ (c < r => G.x <= L.x)
             /\ u = L.x + 1
    BY <1>4, <1>5, <2>2
  <2> QED BY <2>1, <2>2 DEF Chosen
<1>7. u \in Nat /\ u - z \in Nat
  <2>1. CASE c < r /\ u = xr
    <3>1. xr \in Nat /\ c <= xr
      BY <1>3, <1>5, <2>1
    <3> QED BY <2>1, <3>1
  <2>2. CASE c > 0 /\ u = xl + 1
    <3>1. xl \in Nat /\ c - 1 <= xl
      BY <1>2, <1>4, <2>2
    <3> QED BY <2>2, <3>1
  <2> QED BY <1>6, <2>1, <2>2
<1>8. l \in Nat /\ (l # 0 => u + l <= Len(s) /\ (u - z) + l <= Len(t))
  BY <1>7, ExtentAnywhere DEF Matches
<1> HIDE DEF l
<1>9. c > 0 => /\ c - 1 <= xl
               /\ xl < Len(s) \/ xl - (2 * c - r - 1) < Len(t)
               /\ Len(t) < xl - (2 * c - r - 1) => c < r /\ xl + 1 <= xr
  <2> SUFFICES ASSUME c > 0
               PROVE  /\ c - 1 <= xl
                      /\ xl < Len(s) \/ xl - (2 * c - r - 1) < Len(t)
                      /\ Len(t) < xl - (2 * c - r - 1) => c < r /\ xl + 1 <= xr
    OBVIOUS
  <2>1. xl = L.x
    BY <1>4
  <2>2. Len(t) < xl - (2 * c - r - 1) => c < r /\ xl + 1 <= G.x
    <3>1. Len(t) < xl - (2 * c - r - 1) => c - 1 < r - 1 /\ xl + 1 <= G.x
      BY <1>2, <2>1
    <3> QED BY <3>1
  <2> QED BY <1>2, <1>5, <2>1, <2>2
<1>10. c < r => /\ c <= xr
                /\ xr < Len(s) \/ xr - (2 * c - r + 1) < Len(t)
                /\ Len(s) < xr => c > 0 /\ xr <= xl + 1
  BY <1>3, <1>4, <1>5
<1>11. \/ (c = 0 \/ (c < r /\ xl < xr)) /\ u = xr
       \/ c > 0 /\ (c < r => xr <= xl) /\ u = xl + 1
  BY <1>6
<1>12. l # 0 => u + l <= Len(s) /\ u - (2 * c - r) + l <= Len(t)
  BY <1>8
<1> DEFINE x == u + l
           y == x - (2 * c - r)
<1>13. /\ x \in Nat /\ y \in Nat /\ c <= x
       /\ x >= Len(s) /\ y >= Len(t) => x = Len(s) /\ y = Len(t)
       /\ c < r => xr <= x
       /\ c > 0 => xl + 1 <= x
       /\ Len(s) < x => c > 0 /\ x <= xl + 1
       /\ Len(t) < y => c < r /\ x <= xr
  BY <1>7, <1>8, <1>9, <1>10, <1>11, <1>12, FurthestNumbers
<1>14. Beside(F, r, c, x, s, t)
  BY <1>4, <1>5, <1>13 DEF Beside
<1> QED BY <1>7, <1>8, <1>13, <1>14 DEF l

\* All of them are a row.
LEMMA RowEnds ==
  ASSUME NEW s, NEW t, Len(s) \in Nat, Len(t) \in Nat, NEW r \in Nat \ {0}, NEW F,
         Row(F, r - 1, s, t), RowSoFar(F, r, r + 1, s, t)
  PROVE  Row(F, r, s, t)
<1> SUFFICES ASSUME NEW c \in 0..r
             PROVE  /\ Len(s) < F[2 * c - r].x =>
                         c > 0 /\ F[2 * c - r].x <= F[2 * (c - 1) - r].x + 1
                    /\ Len(t) < F[2 * c - r].x - (2 * c - r) =>
                         c < r /\ F[2 * c - r].x + 1 <= F[2 * (c + 1) - r].x
  <2>1. \A c \in 0..r : Reached(F, r, c, s, t)
    BY DEF RowSoFar
  <2> QED BY <2>1 DEF Row
<1>1. c \in 0..((r + 1) - 1)
  OBVIOUS
<1>2. PICK x \in Nat : x = F[2 * c - r].x
  BY <1>1 DEF RowSoFar, Reached
<1>3. Beside(F, r, c, x, s, t)
  BY <1>1, <1>2 DEF RowSoFar
<1>4. ASSUME Len(s) < x PROVE c > 0 /\ x <= F[2 * (c - 1) - r].x + 1
  <2>1. c > 0 /\ x <= F[2 * c - r - 1].x + 1
    BY <1>3, <1>4 DEF Beside
  <2>2. c - 1 \in 0..((r + 1) - 1) /\ c - 1 \in 0..(r - 1) /\ c - 1 < r
    BY <2>1
  <2>3. /\ 2 * (c - 1) - (r - 1) = 2 * c - r - 1
        /\ 2 * (c - 1) - r + 1 = 2 * c - r - 1
    OBVIOUS
  <2>4. PICK z \in Nat : z = F[2 * c - r - 1].x
    <3>1. F[2 * (c - 1) - (r - 1)].x \in Nat
      BY <2>2 DEF Row, Reached
    <3> QED BY <2>3, <3>1
  <2>5. PICK y \in Nat : y = F[2 * (c - 1) - r].x
    BY <2>2 DEF RowSoFar, Reached
  <2>6. F[2 * (c - 1) - r + 1].x <= F[2 * (c - 1) - r].x
    BY <2>2 DEF RowSoFar, Beside
  <2>7. z <= y
    BY <2>3, <2>4, <2>5, <2>6
  <2>8. x <= z + 1
    BY <2>1, <2>4
  <2>9. x <= y + 1
    BY <2>7, <2>8
  <2> QED BY <2>1, <2>5, <2>9
<1>5. ASSUME Len(t) < x - (2 * c - r) PROVE c < r /\ x + 1 <= F[2 * (c + 1) - r].x
  <2>1. c < r /\ x <= F[2 * c - r + 1].x
    BY <1>3, <1>5 DEF Beside
  <2>2. c + 1 \in 0..((r + 1) - 1) /\ c \in 0..(r - 1) /\ c + 1 > 0
    BY <2>1
  <2>3. /\ 2 * c - (r - 1) = 2 * c - r + 1
        /\ 2 * (c + 1) - r - 1 = 2 * c - r + 1
    OBVIOUS
  <2>4. PICK z \in Nat : z = F[2 * c - r + 1].x
    <3>1. F[2 * c - (r - 1)].x \in Nat
      BY <2>2 DEF Row, Reached
    <3> QED BY <2>3, <3>1
  <2>5. PICK y \in Nat : y = F[2 * (c + 1) - r].x
    BY <2>2 DEF RowSoFar, Reached
  <2>6. F[2 * (c + 1) - r - 1].x + 1 <= F[2 * (c + 1) - r].x
    BY <2>2 DEF RowSoFar, Beside
  <2>7. z + 1 <= y
    BY <2>3, <2>4, <2>5, <2>6
  <2>8. x <= z
    BY <2>1, <2>4
  <2>9. x + 1 <= y
    BY <2>7, <2>8
  <2> QED BY <2>1, <2>5, <2>9
<1> QED BY <1>2, <1>4, <1>5

\* One more place is added to them, where the row before the one before had one; the places
\* before it and those of the row before stay.
LEMMA PlacesStay ==
  ASSUME NEW r \in Nat \ {0}, NEW q \in 0..r, NEW P, NEW E, NEW Z, NEW F \in [Z -> P],
         \A c \in 0..r : 2 * c - r \in Z,
         NEW G, G = [F EXCEPT ![2 * q - r] = E]
  PROVE  /\ G[2 * q - r] = E
         /\ \A c \in 0..(q - 1) : G[2 * c - r] = F[2 * c - r]
         /\ (\A c \in 0..(r - 1) : 2 * c - (r - 1) \in Z) =>
              \A c \in 0..(r - 1) : G[2 * c - (r - 1)] = F[2 * c - (r - 1)]
<1>1. \A c \in 0..(r - 1) : 2 * c - (r - 1) # 2 * q - r
  OBVIOUS
<1>2. \A z \in Z : z # 2 * q - r => G[z] = F[z]
  OBVIOUS
<1>3. G[2 * q - r] = E
  OBVIOUS
<1>4. (\A c \in 0..(r - 1) : 2 * c - (r - 1) \in Z) =>
        \A c \in 0..(r - 1) : G[2 * c - (r - 1)] = F[2 * c - (r - 1)]
  BY <1>1, <1>2
<1>5. \A c \in 0..(q - 1) : G[2 * c - r] = F[2 * c - r]
  <2>1. \A c \in 0..(q - 1) : c \in 0..r /\ 2 * c - r # 2 * q - r
    OBVIOUS
  <2> QED BY <1>2, <2>1
<1> QED BY <1>3, <1>4, <1>5

\* With it they are one place more of the same row.
LEMMA RowGrows ==
  ASSUME NEW s, NEW t, NEW r \in Nat \ {0}, NEW q \in 0..r, NEW P, NEW E, NEW Z,
         NEW F \in [Z -> P], \A c \in 0..r : 2 * c - r \in Z,
         \A c \in 0..(r - 1) : 2 * c - (r - 1) \in Z,
         Row(F, r - 1, s, t), RowSoFar(F, r, q, s, t),
         NEW G, G = [F EXCEPT ![2 * q - r] = E], Reached(G, r, q, s, t),
         Beside(F, r, q, E.x, s, t)
  PROVE  Row(G, r - 1, s, t) /\ RowSoFar(G, r, q + 1, s, t)
<1>1. G[2 * q - r] = E
  BY PlacesStay
<1>2. \A c \in 0..(q - 1) : G[2 * c - r] = F[2 * c - r]
  BY PlacesStay
<1>3. \A c \in 0..(r - 1) : G[2 * c - (r - 1)] = F[2 * c - (r - 1)]
  BY PlacesStay
<1>4. Row(G, r - 1, s, t)
  <2> SUFFICES ASSUME NEW c \in 0..(r - 1)
               PROVE  /\ Reached(G, r - 1, c, s, t)
                      /\ Len(s) < G[2 * c - (r - 1)].x =>
                           c > 0 /\ G[2 * c - (r - 1)].x <= G[2 * (c - 1) - (r - 1)].x + 1
                      /\ Len(t) < G[2 * c - (r - 1)].x - (2 * c - (r - 1)) =>
                           /\ c < r - 1
                           /\ G[2 * c - (r - 1)].x + 1 <= G[2 * (c + 1) - (r - 1)].x
    BY DEF Row
  <2>1. G[2 * c - (r - 1)] = F[2 * c - (r - 1)]
    BY <1>3
  <2>2. c > 0 => G[2 * (c - 1) - (r - 1)] = F[2 * (c - 1) - (r - 1)]
    <3>1. c > 0 => c - 1 \in 0..(r - 1)
      OBVIOUS
    <3> QED BY <1>3, <3>1
  <2>3. c < r - 1 => G[2 * (c + 1) - (r - 1)] = F[2 * (c + 1) - (r - 1)]
    <3>1. c < r - 1 => c + 1 \in 0..(r - 1)
      OBVIOUS
    <3> QED BY <1>3, <3>1
  <2>4. Reached(G, r - 1, c, s, t)
    BY <2>1 DEF Row, Reached
  <2>5. /\ Len(s) < F[2 * c - (r - 1)].x =>
             c > 0 /\ F[2 * c - (r - 1)].x <= F[2 * (c - 1) - (r - 1)].x + 1
        /\ Len(t) < F[2 * c - (r - 1)].x - (2 * c - (r - 1)) =>
             /\ c < r - 1
             /\ F[2 * c - (r - 1)].x + 1 <= F[2 * (c + 1) - (r - 1)].x
    BY DEF Row
  <2> QED BY <2>1, <2>2, <2>3, <2>4, <2>5
<1>5. \A c \in 0..r : \A x : Beside(F, r, c, x, s, t) => Beside(G, r, c, x, s, t)
  <2> SUFFICES ASSUME NEW c \in 0..r, NEW x, Beside(F, r, c, x, s, t)
               PROVE  Beside(G, r, c, x, s, t)
    OBVIOUS
  <2>1. c < r => G[2 * c - r + 1] = F[2 * c - r + 1]
    <3>1. c < r => c \in 0..(r - 1)
      OBVIOUS
    <3>2. 2 * c - (r - 1) = 2 * c - r + 1
      OBVIOUS
    <3> QED BY <1>3, <3>1, <3>2
  <2>2. c > 0 => G[2 * c - r - 1] = F[2 * c - r - 1]
    <3>1. c > 0 => c - 1 \in 0..(r - 1)
      OBVIOUS
    <3>2. 2 * (c - 1) - (r - 1) = 2 * c - r - 1
      OBVIOUS
    <3> QED BY <1>3, <3>1, <3>2
  <2> QED BY <2>1, <2>2 DEF Beside
<1>6. RowSoFar(G, r, q + 1, s, t)
  <2> SUFFICES ASSUME NEW c \in 0..((q + 1) - 1)
               PROVE  Reached(G, r, c, s, t) /\ Beside(G, r, c, G[2 * c - r].x, s, t)
    BY DEF RowSoFar
  <2>0. c \in 0..r
    OBVIOUS
  <2>1. CASE c = q
    BY <1>1, <1>5, <2>0, <2>1
  <2>2. CASE c # q
    <3>1. c \in 0..(q - 1)
      BY <2>2
    <3>2. G[2 * c - r] = F[2 * c - r]
      BY <1>2, <3>1
    <3>3. Reached(F, r, c, s, t) /\ Beside(F, r, c, F[2 * c - r].x, s, t)
      BY <3>1 DEF RowSoFar
    <3>4. Reached(G, r, c, s, t)
      BY <3>2, <3>3 DEF Reached
    <3> QED BY <1>5, <2>0, <3>2, <3>3, <3>4
  <2> QED BY <2>1, <2>2
<1> QED BY <1>4, <1>6

\* The first q places of a row go on: none is the end of both sequences, and its history
\* leads there.
MayGoOn(F, r, q, s, t) ==
  /\ Short(F, r, q, s, t)
  /\ \A c \in 0..(q - 1) :
       LedTo(F[2 * c - r].history, s, t, 0, 0, F[2 * c - r].x, F[2 * c - r].x - (2 * c - r))

-------------------------------------------------------------------------------
(* The least number of edits. *)

\* The places in both sequences.
Grid(m, n) == (0..m) \X (0..n)

\* The recurrence, with f for what is known already.
LeastBy(f, s, t, p, q) ==
  IF p = 0 THEN q ELSE IF q = 0 THEN p
  ELSE IF s[p] = t[q] THEN f[<<p - 1, q - 1>>]
  ELSE 1 + Smaller(f[<<p - 1, q>>], f[<<p, q - 1>>])

\* f satisfies it wherever no more than r entries are taken.
LeastWithin(f, r, s, t) ==
  \A p \in 0..Len(s), q \in 0..Len(t) : p + q <= r => f[<<p, q>>] = LeastBy(f, s, t, p, q)

\* The recurrence leads to a number.
LEMMA LeastByIs ==
  ASSUME NEW s, NEW t, NEW m \in Nat, NEW n \in Nat, NEW f \in [Grid(m, n) -> Nat],
         NEW p \in 0..m, NEW q \in 0..n
  PROVE  /\ LeastBy(f, s, t, p, q) \in Nat
         /\ \A g : (\A c \in Grid(m, n) : c[1] + c[2] < p + q => g[c] = f[c]) =>
                     LeastBy(g, s, t, p, q) = LeastBy(f, s, t, p, q)
<1>1. CASE p = 0
  BY <1>1 DEF LeastBy
<1>2. CASE p # 0 /\ q = 0
  BY <1>2 DEF LeastBy
<1>3. CASE p # 0 /\ q # 0
  <2>1. /\ <<p - 1, q - 1>> \in Grid(m, n) /\ <<p - 1, q>> \in Grid(m, n)
        /\ <<p, q - 1>> \in Grid(m, n)
        /\ (p - 1) + (q - 1) < p + q /\ (p - 1) + q < p + q /\ p + (q - 1) < p + q
    BY <1>3 DEF Grid
  <2>2. PICK x \in Nat, y \in Nat, z \in Nat :
          x = f[<<p - 1, q - 1>>] /\ y = f[<<p - 1, q>>] /\ z = f[<<p, q - 1>>]
    BY <2>1
  <2>3. 1 + Smaller(y, z) \in Nat
    BY DEF Smaller
  <2>4. LeastBy(f, s, t, p, q) \in Nat
    BY <1>3, <2>2, <2>3 DEF LeastBy
  <2>5. ASSUME NEW g, \A c \in Grid(m, n) : c[1] + c[2] < p + q => g[c] = f[c]
        PROVE  LeastBy(g, s, t, p, q) = LeastBy(f, s, t, p, q)
    <3>1. /\ g[<<p - 1, q - 1>>] = f[<<p - 1, q - 1>>] /\ g[<<p - 1, q>>] = f[<<p - 1, q>>]
          /\ g[<<p, q - 1>>] = f[<<p, q - 1>>]
      BY <2>1, <2>5
    <3> QED BY <3>1 DEF LeastBy
  <2> QED BY <2>4, <2>5
<1> QED BY <1>1, <1>2, <1>3

\* There is such a function.
LEMMA LeastExists ==
  ASSUME NEW s, NEW t, Len(s) \in Nat, Len(t) \in Nat
  PROVE  \E f \in [Grid(Len(s), Len(t)) -> Nat] : LeastWithin(f, Len(s) + Len(t), s, t)
<1>1. PICK m \in Nat, n \in Nat : m = Len(s) /\ n = Len(t)
  OBVIOUS
<1> DEFINE G == Grid(m, n)
           R == {r \in 0..(m + n) : \E f \in [G -> Nat] : LeastWithin(f, r, s, t)}
<1>2. 0 \in R
  <2> DEFINE f == [c \in G |-> 0]
  <2>1. f \in [G -> Nat] /\ \A p \in 0..m, q \in 0..n : f[<<p, q>>] = 0
    BY DEF Grid
  <2> HIDE DEF f
  <2>2. LeastWithin(f, 0, s, t)
    <3>1. \A p \in 0..m, q \in 0..n : p + q <= 0 => p = 0 /\ q = 0
      OBVIOUS
    <3> QED BY <1>1, <2>1, <3>1 DEF LeastWithin, LeastBy
  <2> QED BY <2>1, <2>2
<1>3. ASSUME NEW r \in 0..(m + n - 1), r \in R PROVE r + 1 \in R
  <2>1. PICK f \in [G -> Nat] : LeastWithin(f, r, s, t)
    BY <1>3
  <2> DEFINE g == [c \in G |-> IF c[1] + c[2] <= r THEN f[c] ELSE LeastBy(f, s, t, c[1], c[2])]
  <2>2. \A c \in G : LeastBy(f, s, t, c[1], c[2]) \in Nat
    <3>1. \A c \in G : c[1] \in 0..m /\ c[2] \in 0..n
      BY DEF Grid
    <3> QED BY <3>1, LeastByIs
  <2>3. g \in [G -> Nat]
    BY <2>2
  <2>4. \A c \in G : g[c] = IF c[1] + c[2] <= r THEN f[c] ELSE LeastBy(f, s, t, c[1], c[2])
    OBVIOUS
  <2> HIDE DEF g
  <2>5. LeastWithin(g, r + 1, s, t)
    <3> SUFFICES ASSUME NEW p \in 0..m, NEW q \in 0..n, p + q <= r + 1
                 PROVE  g[<<p, q>>] = LeastBy(g, s, t, p, q)
      BY <1>1 DEF LeastWithin
    <3>1. <<p, q>> \in G
      BY DEF Grid
    <3>2. g[<<p, q>>] = LeastBy(f, s, t, p, q)
      <4>1. CASE p + q <= r
        BY <1>1, <2>1, <2>4, <3>1, <4>1 DEF LeastWithin
      <4>2. CASE ~(p + q <= r)
        BY <2>4, <3>1, <4>2
      <4> QED BY <4>1, <4>2
    <3>3. \A c \in G : c[1] + c[2] < p + q => g[c] = f[c]
      <4>1. \A c \in G : c[1] \in Nat /\ c[2] \in Nat
        BY DEF Grid
      <4>2. \A c \in G : c[1] + c[2] < p + q => c[1] + c[2] <= r
        BY <4>1
      <4> QED BY <2>4, <4>2
    <3>4. LeastBy(g, s, t, p, q) = LeastBy(f, s, t, p, q)
      BY <3>3, LeastByIs
    <3> QED BY <3>2, <3>4
  <2>6. r + 1 \in 0..(m + n)
    OBVIOUS
  <2> QED BY <2>3, <2>5, <2>6
<1> HIDE DEF R
<1>4. m + n \in R
  <2>1. PICK l \in Nat : l = m + n
    OBVIOUS
  <2>2. \A r \in 0..(l - 1) : r \in R => r + 1 \in R
    BY <1>3, <2>1
  <2>3. \A r \in 0..l : r \in R
    BY <1>2, <2>2, InductionUpTo
  <2> QED BY <2>1, <2>3
<1> QED BY <1>1, <1>4 DEF R

\* How many edits the first p and the first q entries take at least.
Least(s, t, p, q) == EditDistances(s, t)[<<p, q>>]

\* D is the function that the recurrence defines.
IsLeast(D, s, t) == D = [c \in Grid(Len(s), Len(t)) |-> LeastBy(D, s, t, c[1], c[2])]

\* What the recurrence defines satisfies it, and is a number everywhere.
LEMMA LeastNumbers ==
  ASSUME NEW s, NEW t, Len(s) \in Nat, Len(t) \in Nat, NEW D, IsLeast(D, s, t)
  PROVE  \A p \in 0..Len(s), q \in 0..Len(t) :
           D[<<p, q>>] \in Nat /\ D[<<p, q>>] = LeastBy(D, s, t, p, q)
<1>1. PICK m \in Nat, n \in Nat : m = Len(s) /\ n = Len(t)
  OBVIOUS
<1>2. \A p \in 0..m, q \in 0..n : D[<<p, q>>] = LeastBy(D, s, t, p, q)
  <2>1. \A c \in Grid(m, n) : D[c] = LeastBy(D, s, t, c[1], c[2])
    BY <1>1 DEF IsLeast
  <2>2. \A p \in 0..m, q \in 0..n : /\ <<p, q>> \in Grid(m, n)
                                    /\ <<p, q>>[1] = p /\ <<p, q>>[2] = q
    BY DEF Grid
  <2> QED BY <2>1, <2>2
<1> DEFINE R == {r \in 0..(m + n) : \A p \in 0..m, q \in 0..n : p + q <= r => D[<<p, q>>] \in Nat}
<1>3. 0 \in R
  <2>1. \A p \in 0..m, q \in 0..n : p + q <= 0 => p = 0 /\ q = 0
    OBVIOUS
  <2>2. 0 \in 0..m /\ 0 \in 0..n /\ D[<<0, 0>>] = 0
    <3>1. 0 \in 0..m /\ 0 \in 0..n /\ LeastBy(D, s, t, 0, 0) = 0
      BY DEF LeastBy
    <3> QED BY <1>2, <3>1
  <2>3. \A p \in 0..m, q \in 0..n : p + q <= 0 => D[<<p, q>>] \in Nat
    BY <2>1, <2>2
  <2> QED BY <2>3
<1>4. ASSUME NEW r \in 0..(m + n - 1), r \in R PROVE r + 1 \in R
  <2> SUFFICES ASSUME NEW p \in 0..m, NEW q \in 0..n, p + q <= r + 1 PROVE D[<<p, q>>] \in Nat
    OBVIOUS
  <2>1. CASE p = 0 \/ q = 0
    <3>1. LeastBy(D, s, t, p, q) = q \/ LeastBy(D, s, t, p, q) = p
      BY <2>1 DEF LeastBy
    <3> QED BY <1>2, <3>1
  <2>2. CASE p # 0 /\ q # 0
    <3>1. /\ p - 1 \in 0..m /\ q - 1 \in 0..n
          /\ (p - 1) + (q - 1) <= r /\ (p - 1) + q <= r /\ p + (q - 1) <= r
      BY <2>2
    <3>2. /\ D[<<p - 1, q - 1>>] \in Nat /\ D[<<p - 1, q>>] \in Nat
          /\ D[<<p, q - 1>>] \in Nat
      BY <1>4, <3>1
    <3>3. 1 + Smaller(D[<<p - 1, q>>], D[<<p, q - 1>>]) \in Nat
      <4>1. PICK x \in Nat, y \in Nat : x = D[<<p - 1, q>>] /\ y = D[<<p, q - 1>>]
        BY <3>2
      <4>2. 1 + Smaller(x, y) \in Nat
        BY DEF Smaller
      <4> QED BY <4>1, <4>2
    <3>4. LeastBy(D, s, t, p, q) \in Nat
      <4>1. \/ LeastBy(D, s, t, p, q) = D[<<p - 1, q - 1>>]
            \/ LeastBy(D, s, t, p, q) = 1 + Smaller(D[<<p - 1, q>>], D[<<p, q - 1>>])
        BY <2>2 DEF LeastBy
      <4> QED BY <3>2, <3>3, <4>1
    <3> QED BY <1>2, <3>4
  <2> QED BY <2>1, <2>2
<1> HIDE DEF R
<1>5. PICK l \in Nat : l = m + n
  OBVIOUS
<1>6. l \in R
  <2>1. \A r \in 0..(l - 1) : r \in R => r + 1 \in R
    BY <1>4, <1>5
  <2>2. \A r \in 0..l : r \in R
    BY <1>3, <2>1, InductionUpTo
  <2> QED BY <2>2
<1>7. \A p \in 0..m, q \in 0..n : D[<<p, q>>] \in Nat
  <2>1. \A p \in 0..m, q \in 0..n : p + q <= l
    BY <1>5
  <2> QED BY <1>6, <2>1 DEF R
<1> QED BY <1>1, <1>2, <1>7

\* Those of the places nearer to the beginning give it.
LeastRecurs(s, t, p, q) ==
  /\ Least(s, t, p, q) \in Nat
  /\ p = 0 => Least(s, t, p, q) = q
  /\ q = 0 => Least(s, t, p, q) = p
  /\ p # 0 /\ q # 0 /\ s[p] = t[q] => Least(s, t, p, q) = Least(s, t, p - 1, q - 1)
  /\ p # 0 /\ q # 0 /\ s[p] # t[q] =>
       Least(s, t, p, q) = 1 + Smaller(Least(s, t, p - 1, q), Least(s, t, p, q - 1))

\* They are given by the recurrence.
LEMMA LeastIs ==
  ASSUME NEW s, NEW t, Len(s) \in Nat, Len(t) \in Nat
  PROVE  \A p \in 0..Len(s), q \in 0..Len(t) : LeastRecurs(s, t, p, q)
<1> DEFINE G == Grid(Len(s), Len(t))
<1>1. PICK f \in [G -> Nat] : LeastWithin(f, Len(s) + Len(t), s, t)
  BY LeastExists
<1>2. IsLeast(f, s, t)
  <2>1. \A c \in G : /\ c[1] \in 0..Len(s) /\ c[2] \in 0..Len(t) /\ c = <<c[1], c[2]>>
                     /\ c[1] + c[2] <= Len(s) + Len(t)
    BY DEF Grid
  <2>2. \A c \in G : f[c] = LeastBy(f, s, t, c[1], c[2])
    BY <1>1, <2>1 DEF LeastWithin
  <2>3. f = [c \in G |-> f[c]]
    OBVIOUS
  <2>4. [c \in G |-> f[c]] = [c \in G |-> LeastBy(f, s, t, c[1], c[2])]
    BY <2>2
  <2> QED BY <2>3, <2>4 DEF IsLeast
<1> DEFINE D == CHOOSE D : IsLeast(D, s, t)
<1>3. EditDistances(s, t) = D
  BY DEF EditDistances, Grid, LeastBy, IsLeast
<1>4. IsLeast(D, s, t)
  BY <1>2
<1> HIDE DEF D
<1>5. \A x \in 0..Len(s), y \in 0..Len(t) :
        D[<<x, y>>] \in Nat /\ D[<<x, y>>] = LeastBy(D, s, t, x, y)
  BY <1>4, LeastNumbers
<1>6. \A x, y : Least(s, t, x, y) = D[<<x, y>>]
  BY <1>3 DEF Least
<1> SUFFICES ASSUME NEW p \in 0..Len(s), NEW q \in 0..Len(t) PROVE LeastRecurs(s, t, p, q)
  OBVIOUS
<1>7. Least(s, t, p, q) \in Nat /\ Least(s, t, p, q) = LeastBy(D, s, t, p, q)
  BY <1>5, <1>6
<1>8. /\ p = 0 => LeastBy(D, s, t, p, q) = q
      /\ q = 0 => LeastBy(D, s, t, p, q) = p
      /\ p # 0 /\ q # 0 /\ s[p] = t[q] => LeastBy(D, s, t, p, q) = D[<<p - 1, q - 1>>]
      /\ p # 0 /\ q # 0 /\ s[p] # t[q] =>
           LeastBy(D, s, t, p, q) = 1 + Smaller(D[<<p - 1, q>>], D[<<p, q - 1>>])
  BY DEF LeastBy
<1> QED BY <1>6, <1>7, <1>8 DEF LeastRecurs

\* What holds of a place if it holds of all that are nearer holds of every place.
LEMMA GridInduction ==
  ASSUME NEW m \in Nat, NEW n \in Nat, NEW T,
         \A p \in 0..m, q \in 0..n :
           (\A x \in 0..p, y \in 0..q : x + y < p + q => <<x, y>> \in T) => <<p, q>> \in T
  PROVE  \A p \in 0..m, q \in 0..n : <<p, q>> \in T
<1> DEFINE R == {r \in Nat : \A p \in 0..m, q \in 0..n : p + q < r => <<p, q>> \in T}
<1>1. 0 \in R
  OBVIOUS
<1>2. ASSUME NEW r \in Nat, r \in R PROVE r + 1 \in R
  <2> SUFFICES ASSUME NEW p \in 0..m, NEW q \in 0..n, p + q < r + 1 PROVE <<p, q>> \in T
    OBVIOUS
  <2>1. \A x \in 0..p, y \in 0..q : x + y < p + q => <<x, y>> \in T
    <3> SUFFICES ASSUME NEW x \in 0..p, NEW y \in 0..q, x + y < p + q PROVE <<x, y>> \in T
      OBVIOUS
    <3>1. x \in 0..m /\ y \in 0..n /\ x + y < r
      OBVIOUS
    <3> QED BY <1>2, <3>1
  <2> QED BY <2>1
<1> HIDE DEF R
<1>3. \A r \in Nat : r \in R
  BY <1>1, <1>2, InductionOnNat
<1> SUFFICES ASSUME NEW p \in 0..m, NEW q \in 0..n PROVE <<p, q>> \in T
  OBVIOUS
<1>4. p + q + 1 \in R /\ p + q < p + q + 1
  BY <1>3
<1> QED BY <1>4 DEF R

\* Numbers that differ by one.
Near(x, y) == x = y + 1 \/ y = x + 1

\* Of so many edits so many delete.
Deleting(e, p, q) == \E c \in 0..e : p - q = 2 * c - e

\* One entry more is one edit more or one less.
LEMMA LeastNear ==
  ASSUME NEW s, NEW t, Len(s) \in Nat, Len(t) \in Nat
  PROVE  \A p \in 0..Len(s), q \in 0..Len(t) :
           /\ p > 0 => Near(Least(s, t, p, q), Least(s, t, p - 1, q))
           /\ q > 0 => Near(Least(s, t, p, q), Least(s, t, p, q - 1))
<1>1. PICK m \in Nat, n \in Nat : m = Len(s) /\ n = Len(t)
  OBVIOUS
<1> DEFINE L(p, q) == Least(s, t, p, q)
           T == {c \in Grid(m, n) : /\ c[1] > 0 => Near(L(c[1], c[2]), L(c[1] - 1, c[2]))
                                    /\ c[2] > 0 => Near(L(c[1], c[2]), L(c[1], c[2] - 1))}
<1>2. \A p \in 0..m, q \in 0..n :
        /\ <<p, q>> \in T => /\ p > 0 => Near(L(p, q), L(p - 1, q))
                             /\ q > 0 => Near(L(p, q), L(p, q - 1))
        /\ (/\ p > 0 => Near(L(p, q), L(p - 1, q))
            /\ q > 0 => Near(L(p, q), L(p, q - 1))) => <<p, q>> \in T
  BY DEF Grid
<1>3. \A p \in 0..m, q \in 0..n :
        /\ L(p, q) \in Nat
        /\ p = 0 => L(p, q) = q
        /\ q = 0 => L(p, q) = p
        /\ p # 0 /\ q # 0 /\ s[p] = t[q] => L(p, q) = L(p - 1, q - 1)
        /\ p # 0 /\ q # 0 /\ s[p] # t[q] => L(p, q) = 1 + Smaller(L(p - 1, q), L(p, q - 1))
  <2> HIDE DEF L
  <2>1. \A p \in 0..m, q \in 0..n : LeastRecurs(s, t, p, q)
    BY <1>1, LeastIs
  <2> QED BY <2>1 DEF LeastRecurs, L
<1> HIDE DEF T, L
<1>4. ASSUME NEW p \in 0..m, NEW q \in 0..n,
             \A x \in 0..p, y \in 0..q : x + y < p + q => <<x, y>> \in T
      PROVE  <<p, q>> \in T
  <2>1. CASE p = 0
    <3>1. q > 0 => q - 1 \in 0..n /\ L(p, q) = q /\ L(p, q - 1) = q - 1
      BY <1>3, <2>1
    <3>2. q > 0 => Near(q, q - 1)
      BY DEF Near
    <3> QED BY <1>2, <2>1, <3>1, <3>2
  <2>2. CASE q = 0
    <3>1. p > 0 => p - 1 \in 0..m /\ L(p, q) = p /\ L(p - 1, q) = p - 1
      BY <1>3, <2>2
    <3>2. p > 0 => Near(p, p - 1)
      BY DEF Near
    <3> QED BY <1>2, <2>2, <3>1, <3>2
  <2>3. CASE p # 0 /\ q # 0
    <3>1. /\ p - 1 \in 0..m /\ q - 1 \in 0..n /\ p - 1 \in 0..p /\ q - 1 \in 0..q
          /\ (p - 1) + q < p + q /\ p + (q - 1) < p + q /\ p > 0 /\ q > 0
      BY <2>3
    <3>2. Near(L(p - 1, q), L(p - 1, q - 1)) /\ Near(L(p, q - 1), L(p - 1, q - 1))
      <4>1. <<p - 1, q>> \in T /\ <<p, q - 1>> \in T
        BY <1>4, <3>1
      <4> QED BY <1>2, <3>1, <4>1
    <3>3. PICK e \in Nat, x \in Nat, y \in Nat, z \in Nat :
            e = L(p, q) /\ x = L(p - 1, q) /\ y = L(p, q - 1) /\ z = L(p - 1, q - 1)
      BY <1>3, <3>1
    <3>4. e = z \/ e = 1 + Smaller(x, y)
      BY <1>3, <2>3, <3>3
    <3>5. Near(e, x) /\ Near(e, y)
      BY <3>2, <3>3, <3>4, SMTT(60) DEF Near, Smaller
    <3> QED BY <1>2, <3>3, <3>5
  <2> QED BY <2>1, <2>2, <2>3
<1>5. \A p \in 0..m, q \in 0..n : <<p, q>> \in T
  BY <1>4, GridInduction
<1> QED BY <1>1, <1>2, <1>5 DEF L

\* As many of the edits delete as the place asks for.
LEMMA LeastDeletes ==
  ASSUME NEW s, NEW t, Len(s) \in Nat, Len(t) \in Nat
  PROVE  \A p \in 0..Len(s), q \in 0..Len(t) : Deleting(Least(s, t, p, q), p, q)
<1>1. PICK m \in Nat, n \in Nat : m = Len(s) /\ n = Len(t)
  OBVIOUS
<1> DEFINE L(p, q) == Least(s, t, p, q)
           T == {c \in Grid(m, n) : Deleting(L(c[1], c[2]), c[1], c[2])}
<1>2. \A p \in 0..m, q \in 0..n : <<p, q>> \in T <=> Deleting(L(p, q), p, q)
  BY DEF Grid
<1>3. \A p \in 0..m, q \in 0..n :
        /\ L(p, q) \in Nat
        /\ p = 0 => L(p, q) = q
        /\ q = 0 => L(p, q) = p
        /\ p # 0 /\ q # 0 /\ s[p] = t[q] => L(p, q) = L(p - 1, q - 1)
        /\ p # 0 /\ q # 0 /\ s[p] # t[q] => L(p, q) = 1 + Smaller(L(p - 1, q), L(p, q - 1))
  <2> HIDE DEF L
  <2>1. \A p \in 0..m, q \in 0..n : LeastRecurs(s, t, p, q)
    BY <1>1, LeastIs
  <2> QED BY <2>1 DEF LeastRecurs, L
<1> HIDE DEF T, L
<1>4. ASSUME NEW p \in 0..m, NEW q \in 0..n,
             \A x \in 0..p, y \in 0..q : x + y < p + q => <<x, y>> \in T
      PROVE  <<p, q>> \in T
  <2>1. CASE p = 0
    <3>1. 0 \in 0..q /\ p - q = 2 * 0 - q
      BY <2>1
    <3> QED BY <1>2, <1>3, <2>1, <3>1 DEF Deleting
  <2>2. CASE q = 0
    <3>1. p \in 0..p /\ p - q = 2 * p - p
      BY <2>2
    <3> QED BY <1>2, <1>3, <2>2, <3>1 DEF Deleting
  <2>3. CASE p # 0 /\ q # 0
    <3>1. /\ p - 1 \in 0..m /\ q - 1 \in 0..n /\ p - 1 \in 0..p /\ q - 1 \in 0..q
          /\ (p - 1) + q < p + q /\ p + (q - 1) < p + q /\ (p - 1) + (q - 1) < p + q
      BY <2>3
    <3>2. PICK e \in Nat, x \in Nat, y \in Nat, z \in Nat :
            e = L(p, q) /\ x = L(p - 1, q) /\ y = L(p, q - 1) /\ z = L(p - 1, q - 1)
      BY <1>3, <3>1
    <3>3. Deleting(x, p - 1, q) /\ Deleting(y, p, q - 1) /\ Deleting(z, p - 1, q - 1)
      <4>1. <<p - 1, q>> \in T /\ <<p, q - 1>> \in T /\ <<p - 1, q - 1>> \in T
        BY <1>4, <3>1
      <4> QED BY <1>2, <3>1, <3>2, <4>1
    <3>4. e = z \/ e = x + 1 \/ e = y + 1
      <4>1. e = z \/ e = 1 + Smaller(x, y)
        BY <1>3, <2>3, <3>2
      <4> QED BY <4>1 DEF Smaller
    <3>5. CASE e = z
      <4>1. (p - 1) - (q - 1) = p - q
        OBVIOUS
      <4> QED BY <1>2, <3>2, <3>3, <3>5, <4>1 DEF Deleting
    <3>6. CASE e = x + 1
      <4>1. PICK c \in 0..x : (p - 1) - q = 2 * c - x
        BY <3>3 DEF Deleting
      <4>2. c + 1 \in 0..e /\ p - q = 2 * (c + 1) - e
        BY <3>6, <4>1
      <4> QED BY <1>2, <3>2, <4>2 DEF Deleting
    <3>7. CASE e = y + 1
      <4>1. PICK c \in 0..y : p - (q - 1) = 2 * c - y
        BY <3>3 DEF Deleting
      <4>2. c \in 0..e /\ p - q = 2 * c - e
        BY <3>7, <4>1
      <4> QED BY <1>2, <3>2, <4>2 DEF Deleting
    <3> QED BY <3>4, <3>5, <3>6, <3>7
  <2> QED BY <2>1, <2>2, <2>3
<1>5. \A p \in 0..m, q \in 0..n : <<p, q>> \in T
  BY <1>4, GridInduction
<1> QED BY <1>1, <1>2, <1>5 DEF L

\* A run of equals takes no edit.
LEMMA LeastSlides ==
  ASSUME NEW s, NEW t, Len(s) \in Nat, Len(t) \in Nat, NEW x \in Nat, NEW y \in Nat, NEW l \in Nat,
         Matches(s, t, x, y, l)
  PROVE  Least(s, t, x + l, y + l) = Least(s, t, x, y)
<1>1. /\ x + l <= Len(s) /\ y + l <= Len(t)
      /\ \A e \in 1..l : s[x + e] = t[y + e]
  BY DEF Matches
<1> DEFINE R == {e \in 0..l : Least(s, t, x + e, y + e) = Least(s, t, x, y)}
<1>2. 0 \in R
  <2>1. x + 0 = x /\ y + 0 = y
    OBVIOUS
  <2> QED BY <2>1
<1>3. ASSUME NEW e \in 0..(l - 1), e \in R PROVE e + 1 \in R
  <2>1. /\ x + (e + 1) \in 0..Len(s) /\ y + (e + 1) \in 0..Len(t)
        /\ x + (e + 1) # 0 /\ y + (e + 1) # 0
        /\ (x + (e + 1)) - 1 = x + e /\ (y + (e + 1)) - 1 = y + e
        /\ e + 1 \in 1..l /\ e + 1 \in 0..l
    BY <1>1
  <2>2. LeastRecurs(s, t, x + (e + 1), y + (e + 1))
    BY <2>1, LeastIs
  <2>3. Least(s, t, x + (e + 1), y + (e + 1)) = Least(s, t, x + e, y + e)
    BY <1>1, <2>1, <2>2 DEF LeastRecurs
  <2> QED BY <1>3, <2>1, <2>3
<1> HIDE DEF R
<1>4. l \in R
  <2>1. \A e \in 0..(l - 1) : e \in R => e + 1 \in R
    BY <1>3
  <2>2. \A e \in 0..l : e \in R
    BY <1>2, <2>1, InductionUpTo
  <2> QED BY <2>2
<1> QED BY <1>4 DEF R

\* No place takes fewer edits than it is off the diagonal.
LEMMA LeastOff ==
  ASSUME NEW s, NEW t, Len(s) \in Nat, Len(t) \in Nat, NEW p \in 0..Len(s), NEW q \in 0..Len(t)
  PROVE  p - q <= Least(s, t, p, q) /\ q - p <= Least(s, t, p, q)
<1>1. PICK e \in Nat : e = Least(s, t, p, q)
  BY LeastIs DEF LeastRecurs
<1>2. Deleting(e, p, q)
  BY <1>1, LeastDeletes
<1>3. PICK c \in 0..e : p - q = 2 * c - e
  BY <1>2 DEF Deleting
<1> QED BY <1>1, <1>3

\* What the numbers at a place and beside it have to do with one another.
LeastGoes(s, t, p, q) ==
  /\ Least(s, t, p, q) \in Nat
  /\ p = 0 => Least(s, t, p, q) = q
  /\ q = 0 => Least(s, t, p, q) = p
  /\ p # 0 => /\ Least(s, t, p - 1, q) \in Nat
              /\ Least(s, t, p, q) <= Least(s, t, p - 1, q) + 1
  /\ q # 0 => /\ Least(s, t, p, q - 1) \in Nat
              /\ Least(s, t, p, q) <= Least(s, t, p, q - 1) + 1
  /\ p # 0 /\ q # 0 /\ s[p] = t[q] =>
       Least(s, t, p - 1, q - 1) \in Nat /\ Least(s, t, p, q) = Least(s, t, p - 1, q - 1)
  /\ p # 0 /\ q # 0 /\ s[p] # t[q] => \/ Least(s, t, p, q) = Least(s, t, p - 1, q) + 1
                                      \/ Least(s, t, p, q) = Least(s, t, p, q - 1) + 1

\* They have, at every place.
LEMMA LeastSteps ==
  ASSUME NEW s, NEW t, Len(s) \in Nat, Len(t) \in Nat, NEW p \in 0..Len(s), NEW q \in 0..Len(t)
  PROVE  LeastGoes(s, t, p, q)
<1>1. LeastRecurs(s, t, p, q)
  BY LeastIs
<1>2. p # 0 => /\ p - 1 \in 0..Len(s) /\ Least(s, t, p - 1, q) \in Nat
               /\ Near(Least(s, t, p, q), Least(s, t, p - 1, q))
  <2> SUFFICES ASSUME p # 0 PROVE /\ p - 1 \in 0..Len(s) /\ Least(s, t, p - 1, q) \in Nat
                                  /\ Near(Least(s, t, p, q), Least(s, t, p - 1, q))
    OBVIOUS
  <2>1. p - 1 \in 0..Len(s) /\ p > 0
    OBVIOUS
  <2>2. LeastRecurs(s, t, p - 1, q)
    BY <2>1, LeastIs
  <2>3. Near(Least(s, t, p, q), Least(s, t, p - 1, q))
    BY <2>1, LeastNear
  <2> QED BY <2>1, <2>2, <2>3 DEF LeastRecurs
<1>3. q # 0 => /\ q - 1 \in 0..Len(t) /\ Least(s, t, p, q - 1) \in Nat
               /\ Near(Least(s, t, p, q), Least(s, t, p, q - 1))
  <2> SUFFICES ASSUME q # 0 PROVE /\ q - 1 \in 0..Len(t) /\ Least(s, t, p, q - 1) \in Nat
                                  /\ Near(Least(s, t, p, q), Least(s, t, p, q - 1))
    OBVIOUS
  <2>1. q - 1 \in 0..Len(t) /\ q > 0
    OBVIOUS
  <2>2. LeastRecurs(s, t, p, q - 1)
    BY <2>1, LeastIs
  <2>3. Near(Least(s, t, p, q), Least(s, t, p, q - 1))
    BY <2>1, LeastNear
  <2> QED BY <2>1, <2>2, <2>3 DEF LeastRecurs
<1>4. p # 0 /\ q # 0 => Least(s, t, p - 1, q - 1) \in Nat
  <2> SUFFICES ASSUME p # 0, q # 0 PROVE Least(s, t, p - 1, q - 1) \in Nat
    OBVIOUS
  <2>1. LeastRecurs(s, t, p - 1, q - 1)
    BY LeastIs
  <2> QED BY <2>1 DEF LeastRecurs
<1>5. /\ p # 0 => Least(s, t, p, q) <= Least(s, t, p - 1, q) + 1
      /\ q # 0 => Least(s, t, p, q) <= Least(s, t, p, q - 1) + 1
  <2>1. PICK e \in Nat : e = Least(s, t, p, q)
    BY <1>1 DEF LeastRecurs
  <2>2. \A x \in Nat : Near(e, x) => e <= x + 1
    BY DEF Near
  <2> QED BY <1>2, <1>3, <2>1, <2>2
<1>6. p # 0 /\ q # 0 /\ s[p] # t[q] => \/ Least(s, t, p, q) = Least(s, t, p - 1, q) + 1
                                       \/ Least(s, t, p, q) = Least(s, t, p, q - 1) + 1
  <2> SUFFICES ASSUME p # 0, q # 0, s[p] # t[q]
               PROVE  \/ Least(s, t, p, q) = Least(s, t, p - 1, q) + 1
                      \/ Least(s, t, p, q) = Least(s, t, p, q - 1) + 1
    OBVIOUS
  <2>1. PICK x \in Nat, y \in Nat : x = Least(s, t, p - 1, q) /\ y = Least(s, t, p, q - 1)
    BY <1>2, <1>3
  <2>2. Least(s, t, p, q) = 1 + Smaller(x, y)
    BY <1>1, <2>1 DEF LeastRecurs
  <2>3. 1 + Smaller(x, y) = x + 1 \/ 1 + Smaller(x, y) = y + 1
    BY DEF Smaller
  <2> QED BY <2>1, <2>2, <2>3
<1> QED BY <1>1, <1>2, <1>3, <1>4, <1>5, <1>6 DEF LeastGoes, LeastRecurs

\* No place takes more edits than it is entries away.
LEMMA LeastAtMost ==
  ASSUME NEW s, NEW t, Len(s) \in Nat, Len(t) \in Nat
  PROVE  \A p \in 0..Len(s), q \in 0..Len(t) : Least(s, t, p, q) <= p + q
<1>1. PICK m \in Nat, n \in Nat : m = Len(s) /\ n = Len(t)
  OBVIOUS
<1> DEFINE T == {c \in Grid(m, n) : Least(s, t, c[1], c[2]) <= c[1] + c[2]}
<1>2. \A p \in 0..m, q \in 0..n : <<p, q>> \in T <=> Least(s, t, p, q) <= p + q
  BY DEF Grid
<1> HIDE DEF T
<1>3. ASSUME NEW p \in 0..m, NEW q \in 0..n,
             \A x \in 0..p, y \in 0..q : x + y < p + q => <<x, y>> \in T
      PROVE  <<p, q>> \in T
  <2>1. LeastGoes(s, t, p, q)
    BY <1>1, LeastSteps
  <2>2. CASE p = 0
    BY <1>2, <2>1, <2>2 DEF LeastGoes
  <2>3. CASE p # 0
    <3>1. p - 1 \in 0..p /\ p - 1 \in 0..m /\ q \in 0..q /\ (p - 1) + q < p + q
      BY <2>3
    <3>2. <<p - 1, q>> \in T
      BY <1>3, <3>1
    <3>3. Least(s, t, p - 1, q) <= (p - 1) + q
      BY <1>2, <3>1, <3>2
    <3>4. PICK e \in Nat, l \in Nat :
            e = Least(s, t, p, q) /\ l = Least(s, t, p - 1, q) /\ e <= l + 1
      BY <2>1, <2>3 DEF LeastGoes
    <3> QED BY <1>2, <3>3, <3>4
  <2> QED BY <2>2, <2>3
<1>4. \A p \in 0..m, q \in 0..n : <<p, q>> \in T
  BY <1>3, GridInduction
<1> QED BY <1>1, <1>2, <1>4

\* Which of the first p and the first q entries are equal is the same in u and v.
AlikeUpTo(s, t, u, v, p, q) == \A x \in 1..p, y \in 1..q : s[x] = t[y] <=> u[x] = v[y]

\* Then they take as many edits.
LEMMA LeastAlike ==
  ASSUME NEW s, NEW t, NEW u, NEW v, Len(s) \in Nat, Len(t) \in Nat, Len(u) \in Nat, Len(v) \in Nat,
         NEW m \in Nat, NEW n \in Nat, m <= Len(s), n <= Len(t), m <= Len(u), n <= Len(v),
         AlikeUpTo(s, t, u, v, m, n)
  PROVE  Least(s, t, m, n) = Least(u, v, m, n)
<1> DEFINE T == {c \in Grid(m, n) : Least(s, t, c[1], c[2]) = Least(u, v, c[1], c[2])}
<1>1. \A p \in 0..m, q \in 0..n : <<p, q>> \in T <=> Least(s, t, p, q) = Least(u, v, p, q)
  BY DEF Grid
<1> HIDE DEF T
<1>2. ASSUME NEW p \in 0..m, NEW q \in 0..n,
             \A x \in 0..p, y \in 0..q : x + y < p + q => <<x, y>> \in T
      PROVE  <<p, q>> \in T
  <2>1. LeastRecurs(s, t, p, q) /\ LeastRecurs(u, v, p, q)
    <3>1. p \in 0..Len(s) /\ q \in 0..Len(t) /\ p \in 0..Len(u) /\ q \in 0..Len(v)
      OBVIOUS
    <3> QED BY <3>1, LeastIs
  <2>2. CASE p = 0 \/ q = 0
    BY <1>1, <2>1, <2>2 DEF LeastRecurs
  <2>3. CASE p # 0 /\ q # 0
    <3>1. /\ p - 1 \in 0..p /\ p - 1 \in 0..m /\ q - 1 \in 0..q /\ q - 1 \in 0..n
          /\ p \in 0..p /\ q \in 0..q /\ p \in 1..m /\ q \in 1..n
          /\ (p - 1) + q < p + q /\ p + (q - 1) < p + q /\ (p - 1) + (q - 1) < p + q
      BY <2>3
    <3>2. <<p - 1, q>> \in T /\ <<p, q - 1>> \in T /\ <<p - 1, q - 1>> \in T
      BY <1>2, <3>1
    <3>3. /\ Least(s, t, p - 1, q) = Least(u, v, p - 1, q)
          /\ Least(s, t, p, q - 1) = Least(u, v, p, q - 1)
          /\ Least(s, t, p - 1, q - 1) = Least(u, v, p - 1, q - 1)
      BY <1>1, <3>1, <3>2
    <3>4. s[p] = t[q] <=> u[p] = v[q]
      BY <3>1 DEF AlikeUpTo
    <3> QED BY <1>1, <2>1, <2>3, <3>3, <3>4 DEF LeastRecurs
  <2> QED BY <2>2, <2>3
<1>3. \A p \in 0..m, q \in 0..n : <<p, q>> \in T
  BY <1>2, GridInduction
<1>4. m \in 0..m /\ n \in 0..n
  OBVIOUS
<1> QED BY <1>1, <1>3, <1>4

\* Where no two entries are equal, all of them are deleted and inserted.
LEMMA LeastOfNothing ==
  ASSUME NEW s, NEW t, Len(s) \in Nat, Len(t) \in Nat,
         \A x \in 1..Len(s), y \in 1..Len(t) : s[x] # t[y]
  PROVE  LeastEdits(s, t) = Len(s) + Len(t)
<1>1. PICK m \in Nat, n \in Nat : m = Len(s) /\ n = Len(t)
  OBVIOUS
<1> DEFINE T == {c \in Grid(m, n) : Least(s, t, c[1], c[2]) = c[1] + c[2]}
<1>2. \A p \in 0..m, q \in 0..n : <<p, q>> \in T <=> Least(s, t, p, q) = p + q
  BY DEF Grid
<1> HIDE DEF T
<1>3. ASSUME NEW p \in 0..m, NEW q \in 0..n,
             \A x \in 0..p, y \in 0..q : x + y < p + q => <<x, y>> \in T
      PROVE  <<p, q>> \in T
  <2>1. LeastGoes(s, t, p, q)
    BY <1>1, LeastSteps
  <2>2. CASE p = 0 \/ q = 0
    BY <1>2, <2>1, <2>2 DEF LeastGoes
  <2>3. CASE p # 0 /\ q # 0
    <3>1. /\ p - 1 \in 0..p /\ p - 1 \in 0..m /\ q - 1 \in 0..q /\ q - 1 \in 0..n
          /\ p \in 0..p /\ q \in 0..q /\ p \in 1..m /\ q \in 1..n
          /\ (p - 1) + q < p + q /\ p + (q - 1) < p + q
      BY <2>3
    <3>2. <<p - 1, q>> \in T /\ <<p, q - 1>> \in T
      BY <1>3, <3>1
    <3>3. Least(s, t, p - 1, q) = (p - 1) + q /\ Least(s, t, p, q - 1) = p + (q - 1)
      BY <1>2, <3>1, <3>2
    <3>4. s[p] # t[q]
      BY <1>1, <3>1
    <3>5. PICK e \in Nat : e = Least(s, t, p, q)
      BY <2>1 DEF LeastGoes
    <3>6. e = ((p - 1) + q) + 1 \/ e = (p + (q - 1)) + 1
      BY <2>1, <2>3, <3>3, <3>4, <3>5 DEF LeastGoes
    <3> QED BY <1>2, <3>5, <3>6
  <2> QED BY <2>2, <2>3
<1>4. \A p \in 0..m, q \in 0..n : <<p, q>> \in T
  BY <1>3, GridInduction
<1>5. Least(s, t, m, n) = m + n
  <2>1. m \in 0..m /\ n \in 0..n
    OBVIOUS
  <2> QED BY <1>2, <1>4, <2>1
<1> QED BY <1>1, <1>5 DEF Least, LeastEdits

\* There is a number of them.
LEMMA LeastIsNumber ==
  ASSUME NEW s, NEW t, Len(s) \in Nat, Len(t) \in Nat
  PROVE  LeastEdits(s, t) \in Nat /\ LeastEdits(s, t) = Least(s, t, Len(s), Len(t))
<1>1. Len(s) \in 0..Len(s) /\ Len(t) \in 0..Len(t)
  OBVIOUS
<1>2. LeastRecurs(s, t, Len(s), Len(t))
  BY <1>1, LeastIs
<1>3. LeastEdits(s, t) = Least(s, t, Len(s), Len(t))
  BY DEF LeastEdits, Least
<1> QED BY <1>2, <1>3 DEF LeastRecurs

\* A number less, and what is added to it.
LEMMA OneLess ==
  ASSUME NEW m \in Nat, NEW p \in 0..m, p # 0, NEW g \in Nat
  PROVE  p - 1 \in 0..p /\ p - 1 \in 0..m /\ g + p # 0 /\ (g + p) - 1 = g + (p - 1)
OBVIOUS

\* What a part of both sequences takes, after what the part before it takes, is enough.
LEMMA LeastJoins ==
  ASSUME NEW s, NEW t, NEW u, NEW v, Len(s) \in Nat, Len(t) \in Nat, Len(u) \in Nat, Len(v) \in Nat,
         NEW g \in Nat, NEW h \in Nat, g + Len(u) <= Len(s), h + Len(v) <= Len(t),
         \A x \in 1..Len(u) : u[x] = s[g + x], \A y \in 1..Len(v) : v[y] = t[h + y]
  PROVE  Least(s, t, g + Len(u), h + Len(v)) <= Least(s, t, g, h) + LeastEdits(u, v)
<1>1. PICK m \in Nat, n \in Nat : m = Len(u) /\ n = Len(v)
  OBVIOUS
<1>2. PICK l \in Nat : l = Least(s, t, g, h)
  <2>1. g \in 0..Len(s) /\ h \in 0..Len(t)
    OBVIOUS
  <2>2. LeastRecurs(s, t, g, h)
    BY <2>1, LeastIs
  <2> QED BY <2>2 DEF LeastRecurs
<1> DEFINE T == {c \in Grid(m, n) : Least(s, t, g + c[1], h + c[2]) <= l + Least(u, v, c[1], c[2])}
<1>3. \A p \in 0..m, q \in 0..n :
        <<p, q>> \in T <=> Least(s, t, g + p, h + q) <= l + Least(u, v, p, q)
  BY DEF Grid
<1> HIDE DEF T
<1>4. ASSUME NEW p \in 0..m, NEW q \in 0..n,
             \A x \in 0..p, y \in 0..q : x + y < p + q => <<x, y>> \in T
      PROVE  <<p, q>> \in T
  <2>1. LeastGoes(u, v, p, q)
    BY <1>1, LeastSteps
  <2>2. LeastGoes(s, t, g + p, h + q)
    <3>1. g + p \in 0..Len(s) /\ h + q \in 0..Len(t)
      BY <1>1
    <3> QED BY <3>1, LeastSteps
  <2>3. PICK x \in Nat, y \in Nat : x = Least(u, v, p, q) /\ y = Least(s, t, g + p, h + q)
    BY <2>1, <2>2 DEF LeastGoes
  <2>4. ASSUME p # 0, x = Least(u, v, p - 1, q) + 1 PROVE <<p, q>> \in T
    <3>1. p - 1 \in 0..p /\ p - 1 \in 0..m /\ q \in 0..q /\ (p - 1) + q < p + q /\ g + p # 0
          /\ (g + p) - 1 = g + (p - 1)
      BY <2>4
    <3>2. <<p - 1, q>> \in T
      BY <1>4, <3>1
    <3>3. PICK x1 \in Nat, y1 \in Nat : /\ x1 = Least(u, v, p - 1, q)
                                        /\ y1 = Least(s, t, g + (p - 1), h + q)
      BY <2>1, <2>2, <2>4, <3>1 DEF LeastGoes
    <3>4. y <= y1 + 1 /\ x = x1 + 1
      BY <2>2, <2>3, <2>4, <3>1, <3>3 DEF LeastGoes
    <3>5. y1 <= l + x1
      BY <1>3, <3>1, <3>2, <3>3
    <3>6. y <= l + x
      BY <3>4, <3>5
    <3> QED BY <1>3, <2>3, <3>6
  <2>5. ASSUME q # 0, x = Least(u, v, p, q - 1) + 1 PROVE <<p, q>> \in T
    <3>1. q - 1 \in 0..q /\ q - 1 \in 0..n /\ p \in 0..p /\ p + (q - 1) < p + q /\ h + q # 0
          /\ (h + q) - 1 = h + (q - 1)
      BY <2>5
    <3>2. <<p, q - 1>> \in T
      BY <1>4, <3>1
    <3>3. PICK x1 \in Nat, y1 \in Nat : /\ x1 = Least(u, v, p, q - 1)
                                        /\ y1 = Least(s, t, g + p, h + (q - 1))
      BY <2>1, <2>2, <2>5, <3>1 DEF LeastGoes
    <3>4. y <= y1 + 1 /\ x = x1 + 1
      BY <2>2, <2>3, <2>5, <3>1, <3>3 DEF LeastGoes
    <3>5. y1 <= l + x1
      BY <1>3, <3>1, <3>2, <3>3
    <3>6. y <= l + x
      BY <3>4, <3>5
    <3> QED BY <1>3, <2>3, <3>6
  <2>6. CASE p = 0 /\ q = 0
    <3>1. g + p = g /\ h + q = h /\ x = 0
      BY <2>1, <2>3, <2>6 DEF LeastGoes
    <3>2. y = l
      BY <1>2, <2>3, <3>1
    <3>3. y <= l + x
      BY <3>1, <3>2
    <3> QED BY <1>3, <2>3, <3>3
  <2>7. CASE p = 0 /\ q # 0
    <3>1. LeastGoes(u, v, p, q - 1)
      BY <1>1, <2>7, LeastSteps
    <3>2. x = q /\ Least(u, v, p, q - 1) = q - 1
      BY <2>1, <2>3, <2>7, <3>1 DEF LeastGoes
    <3>3. x = Least(u, v, p, q - 1) + 1
      BY <3>2
    <3> QED BY <2>5, <2>7, <3>3
  <2>8. CASE p # 0 /\ q = 0
    <3>1. LeastGoes(u, v, p - 1, q)
      BY <1>1, <2>8, LeastSteps
    <3>2. x = p /\ Least(u, v, p - 1, q) = p - 1
      BY <2>1, <2>3, <2>8, <3>1 DEF LeastGoes
    <3>3. x = Least(u, v, p - 1, q) + 1
      BY <3>2
    <3> QED BY <2>4, <2>8, <3>3
  <2>9. CASE p # 0 /\ q # 0 /\ u[p] # v[q]
    <3>1. x = Least(u, v, p - 1, q) + 1 \/ x = Least(u, v, p, q - 1) + 1
      BY <2>1, <2>3, <2>9 DEF LeastGoes
    <3> QED BY <2>4, <2>5, <2>9, <3>1
  <2>10. CASE p # 0 /\ q # 0 /\ u[p] = v[q]
    <3>1. /\ p - 1 \in 0..p /\ p - 1 \in 0..m /\ q - 1 \in 0..q /\ q - 1 \in 0..n
          /\ (p - 1) + (q - 1) < p + q /\ g + p # 0 /\ h + q # 0
          /\ (g + p) - 1 = g + (p - 1) /\ (h + q) - 1 = h + (q - 1)
      <4>1. p # 0 /\ q # 0
        BY <2>10
      <4>2. p - 1 \in 0..p /\ p - 1 \in 0..m /\ g + p # 0 /\ (g + p) - 1 = g + (p - 1)
        BY <4>1, OneLess
      <4>3. q - 1 \in 0..q /\ q - 1 \in 0..n /\ h + q # 0 /\ (h + q) - 1 = h + (q - 1)
        BY <4>1, OneLess
      <4>4. (p - 1) + (q - 1) < p + q
        OBVIOUS
      <4> QED BY <4>2, <4>3, <4>4
    <3>2. s[g + p] = t[h + q]
      <4>1. p \in 1..m /\ q \in 1..n
        BY <2>10
      <4> QED BY <1>1, <2>10, <4>1
    <3>3. <<p - 1, q - 1>> \in T
      BY <1>4, <3>1
    <3>4. x = Least(u, v, p - 1, q - 1) /\ y = Least(s, t, g + (p - 1), h + (q - 1))
      BY <2>1, <2>2, <2>3, <2>10, <3>1, <3>2 DEF LeastGoes
    <3>5. y <= l + x
      BY <1>3, <3>1, <3>3, <3>4
    <3> QED BY <1>3, <2>3, <3>5
  <2> QED BY <2>6, <2>7, <2>8, <2>9, <2>10
<1>5. \A p \in 0..m, q \in 0..n : <<p, q>> \in T
  BY <1>4, GridInduction
<1>6. m \in 0..m /\ n \in 0..n
  OBVIOUS
<1>7. Least(s, t, g + m, h + n) <= l + Least(u, v, m, n)
  BY <1>3, <1>5, <1>6
<1> QED BY <1>1, <1>2, <1>7 DEF Least, LeastEdits

\* z is s, read from its end.
Backwards(s, z) == Len(z) = Len(s) /\ \A x \in 1..Len(s) : z[x] = s[Len(s) - x + 1]

\* Then s is z, read from its end.
LEMMA BackAndForth ==
  ASSUME NEW s, NEW z, Len(s) \in Nat, Backwards(s, z)
  PROVE  Backwards(z, s)
<1>1. PICK m \in Nat : m = Len(s) /\ m = Len(z)
  BY DEF Backwards
<1>2. ASSUME NEW x \in 1..m PROVE s[x] = z[m - x + 1]
  <2>1. m - x + 1 \in 1..m /\ m - (m - x + 1) + 1 = x
    OBVIOUS
  <2>2. z[m - x + 1] = s[m - (m - x + 1) + 1]
    BY <1>1, <2>1 DEF Backwards
  <2> QED BY <2>1, <2>2
<1> QED BY <1>1, <1>2 DEF Backwards

\* The edits that lead to a place, and those that lead there from the end, are as many as
\* lead from the beginning to the end, or more.
LEMMA LeastThrough ==
  ASSUME NEW s, NEW t, NEW u, NEW v, Len(s) \in Nat, Len(t) \in Nat,
         Backwards(s, u), Backwards(t, v)
  PROVE  \A p \in 0..Len(s), q \in 0..Len(t) :
           LeastEdits(s, t) <= Least(u, v, p, q) + Least(s, t, Len(s) - p, Len(t) - q)
<1>0. PICK m \in Nat, n \in Nat : m = Len(s) /\ n = Len(t)
  OBVIOUS
<1>1. PICK l \in Nat : l = LeastEdits(s, t)
  BY LeastIsNumber
<1>2. Len(u) = m /\ Len(v) = n
  BY <1>0 DEF Backwards
<1> DEFINE T == {c \in Grid(m, n) : l <= Least(u, v, c[1], c[2]) + Least(s, t, m - c[1], n - c[2])}
<1>3. \A p \in 0..m, q \in 0..n :
        <<p, q>> \in T <=> l <= Least(u, v, p, q) + Least(s, t, m - p, n - q)
  BY DEF Grid
<1> HIDE DEF T
<1>4. ASSUME NEW p \in 0..m, NEW q \in 0..n,
             \A x \in 0..p, y \in 0..q : x + y < p + q => <<x, y>> \in T
      PROVE  <<p, q>> \in T
  <2>1. LeastGoes(u, v, p, q)
    BY <1>2, LeastSteps
  <2>2. PICK g \in 0..m, h \in 0..n : g = m - p /\ h = n - q
    OBVIOUS
  <2>3. LeastGoes(s, t, g, h)
    BY <1>0, LeastSteps
  <2>4. PICK x \in Nat, y \in Nat : x = Least(u, v, p, q) /\ y = Least(s, t, g, h)
    BY <2>1, <2>3 DEF LeastGoes
  <2>5. ASSUME p # 0, x = Least(u, v, p - 1, q) + 1 PROVE <<p, q>> \in T
    <3>1. p - 1 \in 0..p /\ p - 1 \in 0..m /\ q \in 0..q /\ (p - 1) + q < p + q
          /\ m - (p - 1) = g + 1 /\ g + 1 \in 0..m /\ g + 1 # 0 /\ (g + 1) - 1 = g
      BY <2>2, <2>5
    <3>2. LeastGoes(s, t, g + 1, h)
      BY <1>0, <3>1, LeastSteps
    <3>3. PICK x1 \in Nat, y1 \in Nat : /\ x1 = Least(u, v, p - 1, q)
                                        /\ y1 = Least(s, t, g + 1, h)
      BY <2>1, <2>5, <3>2 DEF LeastGoes
    <3>4. y1 <= y + 1 /\ x = x1 + 1
      BY <2>4, <2>5, <3>1, <3>2, <3>3 DEF LeastGoes
    <3>5. l <= x1 + y1
      <4>1. <<p - 1, q>> \in T
        BY <1>4, <3>1
      <4> QED BY <1>3, <2>2, <3>1, <3>3, <4>1
    <3>6. l <= x + y
      BY <3>4, <3>5
    <3> QED BY <1>3, <2>2, <2>4, <3>6
  <2>6. ASSUME q # 0, x = Least(u, v, p, q - 1) + 1 PROVE <<p, q>> \in T
    <3>1. q - 1 \in 0..q /\ q - 1 \in 0..n /\ p \in 0..p /\ p + (q - 1) < p + q
          /\ n - (q - 1) = h + 1 /\ h + 1 \in 0..n /\ h + 1 # 0 /\ (h + 1) - 1 = h
      BY <2>2, <2>6
    <3>2. LeastGoes(s, t, g, h + 1)
      BY <1>0, <3>1, LeastSteps
    <3>3. PICK x1 \in Nat, y1 \in Nat : /\ x1 = Least(u, v, p, q - 1)
                                        /\ y1 = Least(s, t, g, h + 1)
      BY <2>1, <2>6, <3>2 DEF LeastGoes
    <3>4. y1 <= y + 1 /\ x = x1 + 1
      BY <2>4, <2>6, <3>1, <3>2, <3>3 DEF LeastGoes
    <3>5. l <= x1 + y1
      <4>1. <<p, q - 1>> \in T
        BY <1>4, <3>1
      <4> QED BY <1>3, <2>2, <3>1, <3>3, <4>1
    <3>6. l <= x + y
      BY <3>4, <3>5
    <3> QED BY <1>3, <2>2, <2>4, <3>6
  <2>7. CASE p = 0 /\ q = 0
    <3>1. x = 0 /\ g = m /\ h = n
      BY <2>1, <2>2, <2>4, <2>7 DEF LeastGoes
    <3>2. y = l
      BY <1>0, <1>1, <2>4, <3>1 DEF Least, LeastEdits
    <3>3. l <= x + y
      BY <3>1, <3>2
    <3> QED BY <1>3, <2>2, <2>4, <3>3
  <2>8. CASE p = 0 /\ q # 0
    <3>1. LeastGoes(u, v, p, q - 1)
      BY <1>2, <2>8, LeastSteps
    <3>2. x = q /\ Least(u, v, p, q - 1) = q - 1
      BY <2>1, <2>4, <2>8, <3>1 DEF LeastGoes
    <3>3. x = Least(u, v, p, q - 1) + 1
      BY <3>2
    <3> QED BY <2>6, <2>8, <3>3
  <2>9. CASE p # 0 /\ q = 0
    <3>1. LeastGoes(u, v, p - 1, q)
      BY <1>2, <2>9, LeastSteps
    <3>2. x = p /\ Least(u, v, p - 1, q) = p - 1
      BY <2>1, <2>4, <2>9, <3>1 DEF LeastGoes
    <3>3. x = Least(u, v, p - 1, q) + 1
      BY <3>2
    <3> QED BY <2>5, <2>9, <3>3
  <2>10. CASE p # 0 /\ q # 0 /\ u[p] # v[q]
    <3>1. x = Least(u, v, p - 1, q) + 1 \/ x = Least(u, v, p, q - 1) + 1
      BY <2>1, <2>4, <2>10 DEF LeastGoes
    <3> QED BY <2>5, <2>6, <2>10, <3>1
  <2>11. CASE p # 0 /\ q # 0 /\ u[p] = v[q]
    <3>1. /\ p - 1 \in 0..p /\ p - 1 \in 0..m /\ q - 1 \in 0..q /\ q - 1 \in 0..n
          /\ (p - 1) + (q - 1) < p + q
          /\ m - (p - 1) = g + 1 /\ g + 1 \in 0..m /\ g + 1 # 0 /\ (g + 1) - 1 = g
          /\ n - (q - 1) = h + 1 /\ h + 1 \in 0..n /\ h + 1 # 0 /\ (h + 1) - 1 = h
          /\ p \in 1..m /\ q \in 1..n /\ m - p + 1 = g + 1 /\ n - q + 1 = h + 1
      BY <2>2, <2>11
    <3>2. s[g + 1] = t[h + 1]
      <4>1. u[p] = s[m - p + 1] /\ v[q] = t[n - q + 1]
        BY <1>0, <3>1 DEF Backwards
      <4> QED BY <2>11, <3>1, <4>1
    <3>3. LeastGoes(s, t, g + 1, h + 1)
      BY <1>0, <3>1, LeastSteps
    <3>4. x = Least(u, v, p - 1, q - 1) /\ y = Least(s, t, g + 1, h + 1)
      BY <2>1, <2>4, <2>11, <3>1, <3>2, <3>3 DEF LeastGoes
    <3>5. l <= x + y
      <4>1. <<p - 1, q - 1>> \in T
        BY <1>4, <3>1
      <4> QED BY <1>3, <3>1, <3>4, <4>1
    <3> QED BY <1>3, <2>2, <2>4, <3>5
  <2> QED BY <2>7, <2>8, <2>9, <2>10, <2>11
<1>5. \A p \in 0..m, q \in 0..n : <<p, q>> \in T
  BY <1>4, GridInduction
<1> QED BY <1>0, <1>1, <1>3, <1>5

\* Read from their ends both sequences take as many edits.
LEMMA LeastBackwards ==
  ASSUME NEW s, NEW t, NEW u, NEW v, NEW m \in Nat, NEW n \in Nat, m = Len(s), n = Len(t),
         Backwards(s, u), Backwards(t, v)
  PROVE  LeastEdits(u, v) = LeastEdits(s, t)
<1>1. Len(u) = m /\ Len(v) = n /\ Backwards(u, s) /\ Backwards(v, t)
  <2>1. Len(s) \in Nat /\ Len(t) \in Nat
    OBVIOUS
  <2>2. Backwards(u, s)
    BY <2>1, BackAndForth
  <2>3. Backwards(v, t)
    BY <2>1, BackAndForth
  <2>4. Len(u) = m /\ Len(v) = n
    BY DEF Backwards
  <2> QED BY <2>2, <2>3, <2>4
<1>2. m \in 0..m /\ n \in 0..n /\ m - m = 0 /\ n - n = 0
  OBVIOUS
<1>3. PICK x \in Nat, y \in Nat : x = LeastEdits(s, t) /\ y = LeastEdits(u, v)
  BY <1>1, LeastIsNumber
<1>4. Least(s, t, 0, 0) = 0 /\ Least(u, v, 0, 0) = 0
  <2>1. LeastGoes(s, t, 0, 0) /\ LeastGoes(u, v, 0, 0)
    BY <1>1, LeastSteps
  <2> QED BY <2>1 DEF LeastGoes
<1>5. Least(s, t, m, n) = x /\ Least(u, v, m, n) = y
  BY <1>1, <1>3 DEF Least, LeastEdits
<1>6. x <= y + 0
  <2>1. LeastEdits(s, t) <= Least(u, v, m, n) + Least(s, t, m - m, n - n)
    BY <1>1, <1>2, LeastThrough
  <2> QED BY <1>2, <1>3, <1>4, <1>5, <2>1
<1>7. y <= x + 0
  <2>1. LeastEdits(u, v) <= Least(s, t, m, n) + Least(u, v, m - m, n - n)
    BY <1>1, <1>2, LeastThrough
  <2> QED BY <1>2, <1>3, <1>4, <1>5, <2>1
<1> QED BY <1>3, <1>6, <1>7

\* At some place e edits lead there from the end, and no more than l from the beginning.
Leaves(s, t, u, v, m, n, e, l) ==
  \E p2 \in 0..m, q2 \in 0..n : Least(u, v, p2, q2) = e /\ Least(s, t, m - p2, n - q2) <= l

\* Of the way from the end to (p, q) as many edits as one likes can be left for the way
\* from the beginning.
Passes(s, t, u, v, m, n, p, q) ==
  \A k \in 0..Least(u, v, p, q) :
    Leaves(s, t, u, v, m, n, Least(u, v, p, q) - k, Least(s, t, m - p, n - q) + k)

\* More from the beginning are enough, too.
LEMMA LeavesMore ==
  ASSUME NEW s, NEW t, NEW u, NEW v, Len(s) \in Nat, Len(t) \in Nat, NEW m \in 0..Len(s),
         NEW n \in 0..Len(t), NEW e, NEW l \in Nat, NEW z \in Nat, l <= z,
         Leaves(s, t, u, v, m, n, e, l)
  PROVE  Leaves(s, t, u, v, m, n, e, z)
<1>1. PICK p2 \in 0..m, q2 \in 0..n :
        Least(u, v, p2, q2) = e /\ Least(s, t, m - p2, n - q2) <= l
  BY DEF Leaves
<1>2. PICK g \in 0..Len(s), h \in 0..Len(t) : g = m - p2 /\ h = n - q2
  OBVIOUS
<1>3. PICK x \in Nat : x = Least(s, t, g, h)
  BY LeastIs DEF LeastRecurs
<1>4. x <= z
  BY <1>1, <1>2, <1>3
<1> QED BY <1>1, <1>2, <1>3, <1>4 DEF Leaves

\* It is so everywhere.
LEMMA LeastPasses ==
  ASSUME NEW s, NEW t, NEW u, NEW v, Len(s) \in Nat, Len(t) \in Nat,
         Backwards(s, u), Backwards(t, v)
  PROVE  \A p \in 0..Len(s), q \in 0..Len(t) : Passes(s, t, u, v, Len(s), Len(t), p, q)
<1>0. PICK m \in Nat, n \in Nat : m = Len(s) /\ n = Len(t)
  OBVIOUS
<1>1. Len(u) = m /\ Len(v) = n
  BY <1>0 DEF Backwards
<1> DEFINE T == {c \in Grid(m, n) : Passes(s, t, u, v, m, n, c[1], c[2])}
<1>2. \A p \in 0..m, q \in 0..n : <<p, q>> \in T <=> Passes(s, t, u, v, m, n, p, q)
  BY DEF Grid
<1> HIDE DEF T
<1>3. ASSUME NEW p \in 0..m, NEW q \in 0..n,
             \A x \in 0..p, y \in 0..q : x + y < p + q => <<x, y>> \in T
      PROVE  <<p, q>> \in T
  <2>1. LeastGoes(u, v, p, q)
    BY <1>1, LeastSteps
  <2>2. PICK g \in 0..m, h \in 0..n : g = m - p /\ h = n - q
    OBVIOUS
  <2>3. LeastGoes(s, t, g, h)
    BY <1>0, LeastSteps
  <2>4. PICK x \in Nat, y \in Nat : x = Least(u, v, p, q) /\ y = Least(s, t, g, h)
    BY <2>1, <2>3 DEF LeastGoes
  <2> SUFFICES ASSUME NEW k \in 0..x
               PROVE  Leaves(s, t, u, v, m, n, x - k, y + k)
    BY <1>2, <2>2, <2>4 DEF Passes
  <2>5. ASSUME p # 0, k # 0, x = Least(u, v, p - 1, q) + 1
        PROVE  Leaves(s, t, u, v, m, n, x - k, y + k)
    <3>1. p - 1 \in 0..p /\ p - 1 \in 0..m /\ q \in 0..q /\ (p - 1) + q < p + q
          /\ m - (p - 1) = g + 1 /\ g + 1 \in 0..m /\ g + 1 # 0 /\ (g + 1) - 1 = g
      BY <2>2, <2>5
    <3>2. LeastGoes(s, t, g + 1, h)
      BY <1>0, <3>1, LeastSteps
    <3>3. PICK x1 \in Nat, y1 \in Nat, p1 \in 0..m :
            p1 = p - 1 /\ x1 = Least(u, v, p1, q) /\ y1 = Least(s, t, m - p1, n - q)
      BY <2>1, <2>2, <2>5, <3>1, <3>2 DEF LeastGoes
    <3>4. y1 <= y + 1 /\ x = x1 + 1
      BY <2>2, <2>4, <2>5, <3>1, <3>2, <3>3 DEF LeastGoes
    <3>5. Passes(s, t, u, v, m, n, p1, q)
      BY <1>2, <1>3, <3>1, <3>3
    <3>6. k \in 1..x
      BY <2>5
    <3>7. \A l \in 0..x1 : Leaves(s, t, u, v, m, n, x1 - l, y1 + l)
      BY <3>3, <3>5 DEF Passes
    <3>8. PICK l \in 0..x1, e \in Nat, z \in Nat, z2 \in Nat :
            l = k - 1 /\ e = x1 - l /\ e = x - k /\ z = y1 + l /\ z2 = y + k /\ z <= z2
      BY <3>4, <3>6
    <3>9. Leaves(s, t, u, v, m, n, e, z)
      BY <3>7, <3>8
    <3>10. m \in 0..Len(s) /\ n \in 0..Len(t)
      BY <1>0
    <3>11. Leaves(s, t, u, v, m, n, e, z2)
      BY <3>8, <3>9, <3>10, LeavesMore
    <3> QED BY <3>8, <3>11
  <2>6. ASSUME q # 0, k # 0, x = Least(u, v, p, q - 1) + 1
        PROVE  Leaves(s, t, u, v, m, n, x - k, y + k)
    <3>1. q - 1 \in 0..q /\ q - 1 \in 0..n /\ p \in 0..p /\ p + (q - 1) < p + q
          /\ n - (q - 1) = h + 1 /\ h + 1 \in 0..n /\ h + 1 # 0 /\ (h + 1) - 1 = h
      BY <2>2, <2>6
    <3>2. LeastGoes(s, t, g, h + 1)
      BY <1>0, <3>1, LeastSteps
    <3>3. PICK x1 \in Nat, y1 \in Nat, q1 \in 0..n :
            q1 = q - 1 /\ x1 = Least(u, v, p, q1) /\ y1 = Least(s, t, m - p, n - q1)
      BY <2>1, <2>2, <2>6, <3>1, <3>2 DEF LeastGoes
    <3>4. y1 <= y + 1 /\ x = x1 + 1
      BY <2>2, <2>4, <2>6, <3>1, <3>2, <3>3 DEF LeastGoes
    <3>5. Passes(s, t, u, v, m, n, p, q1)
      BY <1>2, <1>3, <3>1, <3>3
    <3>6. k \in 1..x
      BY <2>6
    <3>7. \A l \in 0..x1 : Leaves(s, t, u, v, m, n, x1 - l, y1 + l)
      BY <3>3, <3>5 DEF Passes
    <3>8. PICK l \in 0..x1, e \in Nat, z \in Nat, z2 \in Nat :
            l = k - 1 /\ e = x1 - l /\ e = x - k /\ z = y1 + l /\ z2 = y + k /\ z <= z2
      BY <3>4, <3>6
    <3>9. Leaves(s, t, u, v, m, n, e, z)
      BY <3>7, <3>8
    <3>10. m \in 0..Len(s) /\ n \in 0..Len(t)
      BY <1>0
    <3>11. Leaves(s, t, u, v, m, n, e, z2)
      BY <3>8, <3>9, <3>10, LeavesMore
    <3> QED BY <3>8, <3>11
  <2>7. CASE k = 0
    <3>1. x = x - k /\ y <= y + k
      BY <2>7
    <3>2. Least(u, v, p, q) = x - k /\ Least(s, t, m - p, n - q) <= y + k
      BY <2>2, <2>4, <3>1
    <3> QED BY <3>2 DEF Leaves
  <2>8. CASE p = 0 /\ q = 0
    <3>1. x = 0
      BY <2>1, <2>4, <2>8 DEF LeastGoes
    <3> QED BY <2>7, <3>1
  <2>9. CASE k # 0 /\ p = 0 /\ q # 0
    <3>1. LeastGoes(u, v, p, q - 1)
      BY <1>1, <2>9, LeastSteps
    <3>2. x = q /\ Least(u, v, p, q - 1) = q - 1
      BY <2>1, <2>4, <2>9, <3>1 DEF LeastGoes
    <3>3. x = Least(u, v, p, q - 1) + 1
      BY <3>2
    <3> QED BY <2>6, <2>9, <3>3
  <2>10. CASE k # 0 /\ p # 0 /\ q = 0
    <3>1. LeastGoes(u, v, p - 1, q)
      BY <1>1, <2>10, LeastSteps
    <3>2. x = p /\ Least(u, v, p - 1, q) = p - 1
      BY <2>1, <2>4, <2>10, <3>1 DEF LeastGoes
    <3>3. x = Least(u, v, p - 1, q) + 1
      BY <3>2
    <3> QED BY <2>5, <2>10, <3>3
  <2>11. CASE k # 0 /\ p # 0 /\ q # 0 /\ u[p] # v[q]
    <3>1. x = Least(u, v, p - 1, q) + 1 \/ x = Least(u, v, p, q - 1) + 1
      BY <2>1, <2>4, <2>11 DEF LeastGoes
    <3> QED BY <2>5, <2>6, <2>11, <3>1
  <2>12. CASE k # 0 /\ p # 0 /\ q # 0 /\ u[p] = v[q]
    <3>1. /\ p - 1 \in 0..p /\ p - 1 \in 0..m /\ q - 1 \in 0..q /\ q - 1 \in 0..n
          /\ (p - 1) + (q - 1) < p + q
          /\ m - (p - 1) = g + 1 /\ g + 1 \in 0..m /\ g + 1 # 0 /\ (g + 1) - 1 = g
          /\ n - (q - 1) = h + 1 /\ h + 1 \in 0..n /\ h + 1 # 0 /\ (h + 1) - 1 = h
          /\ p \in 1..m /\ q \in 1..n /\ m - p + 1 = g + 1 /\ n - q + 1 = h + 1
      BY <2>2, <2>12
    <3>2. s[g + 1] = t[h + 1]
      <4>1. u[p] = s[m - p + 1] /\ v[q] = t[n - q + 1]
        BY <1>0, <3>1 DEF Backwards
      <4> QED BY <2>12, <3>1, <4>1
    <3>3. LeastGoes(s, t, g + 1, h + 1)
      BY <1>0, <3>1, LeastSteps
    <3>4. PICK p1 \in 0..m, q1 \in 0..n :
            /\ p1 = p - 1 /\ q1 = q - 1
            /\ x = Least(u, v, p1, q1) /\ y = Least(s, t, m - p1, n - q1)
      BY <2>1, <2>4, <2>12, <3>1, <3>2, <3>3 DEF LeastGoes
    <3>5. Passes(s, t, u, v, m, n, p1, q1)
      BY <1>2, <1>3, <3>1, <3>4
    <3> QED BY <3>4, <3>5 DEF Passes
  <2> QED BY <2>7, <2>8, <2>9, <2>10, <2>11, <2>12
<1>4. \A p \in 0..m, q \in 0..n : <<p, q>> \in T
  BY <1>3, GridInduction
<1> QED BY <1>0, <1>2, <1>4

\* Edits from the beginning, and edits from the end, that are enough together lead to
\* one place.
LEMMA LeastMeets ==
  ASSUME NEW s, NEW t, NEW u, NEW v, Len(s) \in Nat, Len(t) \in Nat,
         Backwards(s, u), Backwards(t, v), NEW x \in Nat, NEW y \in Nat, LeastEdits(s, t) = x + y
  PROVE  \E p \in 0..Len(s), q \in 0..Len(t) :
           Least(s, t, p, q) <= x /\ Least(u, v, Len(s) - p, Len(t) - q) <= y
<1>1. PICK m \in Nat, n \in Nat : m = Len(s) /\ n = Len(t)
  OBVIOUS
<1>2. PICK r \in Nat : r = x + y
  OBVIOUS
<1>3. Least(u, v, m, n) = r
  <2>1. LeastEdits(u, v) = LeastEdits(s, t)
    BY <1>1, LeastBackwards
  <2>2. Len(u) = m /\ Len(v) = n
    BY <1>1 DEF Backwards
  <2> QED BY <1>2, <2>1, <2>2 DEF Least, LeastEdits
<1>4. m \in 0..m /\ n \in 0..n /\ m - m = 0 /\ n - n = 0 /\ x \in 0..r /\ r - x = y
  BY <1>2
<1>5. Least(s, t, 0, 0) = 0
  <2>1. LeastGoes(s, t, 0, 0)
    BY LeastSteps
  <2> QED BY <2>1 DEF LeastGoes
<1>6. PICK p2 \in 0..m, q2 \in 0..n :
        Least(u, v, p2, q2) = y /\ Least(s, t, m - p2, n - q2) <= 0 + x
  <2>1. Passes(s, t, u, v, m, n, m, n)
    BY <1>1, <1>4, LeastPasses
  <2>2. Leaves(s, t, u, v, m, n, r - x, Least(s, t, m - m, n - n) + x)
    BY <1>3, <1>4, <2>1 DEF Passes
  <2>3. Leaves(s, t, u, v, m, n, y, 0 + x)
    BY <1>4, <1>5, <2>2
  <2> QED BY <2>3 DEF Leaves
<1>7. PICK p \in 0..m, q \in 0..n : p = m - p2 /\ q = n - q2 /\ m - p = p2 /\ n - q = q2
  OBVIOUS
<1>8. Least(s, t, p, q) <= x /\ Least(u, v, m - p, n - q) <= y
  BY <1>6, <1>7
<1> QED BY <1>1, <1>8

\* z is the m entries of s that follow the first g.
Part(z, s, g, m) == Len(z) = m /\ g + m <= Len(s) /\ \A x \in 1..m : z[x] = s[g + x]

\* What is cut out of a sequence is a part of it.
LEMMA SubSeqPart ==
  ASSUME NEW S, NEW s \in Seq(S), NEW g \in Nat, NEW m \in Nat, g + m <= Len(s)
  PROVE  Part(SubSeq(s, g + 1, g + m), s, g, m) /\ SubSeq(s, g + 1, g + m) \in Seq(S)
BY Slice DEF Part

\* The edits of the first entries are those that lead to the last of them.
LEMMA LeastOfFirst ==
  ASSUME NEW s, NEW t, NEW u, NEW v, Len(s) \in Nat, Len(t) \in Nat, NEW p \in Nat, NEW q \in Nat,
         Part(u, s, 0, p), Part(v, t, 0, q)
  PROVE  LeastEdits(u, v) = Least(s, t, p, q)
<1>1. Len(u) = p /\ Len(v) = q /\ p <= Len(s) /\ q <= Len(t) /\ p <= Len(u) /\ q <= Len(v)
  BY DEF Part
<1>2. AlikeUpTo(u, v, s, t, p, q)
  <2>1. \A x \in 1..p : u[x] = s[x]
    BY DEF Part
  <2>2. \A y \in 1..q : v[y] = t[y]
    BY DEF Part
  <2> QED BY <2>1, <2>2 DEF AlikeUpTo
<1>3. Least(u, v, p, q) = Least(s, t, p, q)
  BY <1>1, <1>2, LeastAlike
<1> QED BY <1>1, <1>3 DEF Least, LeastEdits

\* The edits of the last entries are those that lead there from the end.
LEMMA LeastOfLast ==
  ASSUME NEW s, NEW t, NEW su, NEW tu, NEW u, NEW v, Len(s) \in Nat, Len(t) \in Nat,
         Backwards(s, su), Backwards(t, tu), NEW p \in Nat, NEW q \in Nat, NEW x \in Nat, NEW y \in Nat,
         p + x = Len(s), q + y = Len(t), Part(u, s, p, x), Part(v, t, q, y)
  PROVE  LeastEdits(u, v) = Least(su, tu, x, y)
<1>1. PICK z, w : z = [e \in 1..x |-> u[x - e + 1]] /\ w = [e \in 1..y |-> v[y - e + 1]]
  OBVIOUS
<1>2. Len(u) = x /\ Len(v) = y
  BY DEF Part
<1>3. Len(z) = x /\ Len(w) = y
  BY <1>1
<1>4. \A e \in 1..x : z[e] = su[e]
  <2> SUFFICES ASSUME NEW e \in 1..x PROVE z[e] = su[e]
    OBVIOUS
  <2>1. x - e + 1 \in 1..x /\ p + (x - e + 1) = (p + x) - e + 1 /\ e \in 1..(p + x)
    OBVIOUS
  <2>2. z[e] = s[p + (x - e + 1)]
    BY <1>1, <2>1 DEF Part
  <2>3. su[e] = s[(p + x) - e + 1]
    BY <2>1 DEF Backwards
  <2> QED BY <2>1, <2>2, <2>3
<1>5. \A e \in 1..y : w[e] = tu[e]
  <2> SUFFICES ASSUME NEW e \in 1..y PROVE w[e] = tu[e]
    OBVIOUS
  <2>1. y - e + 1 \in 1..y /\ q + (y - e + 1) = (q + y) - e + 1 /\ e \in 1..(q + y)
    OBVIOUS
  <2>2. w[e] = t[q + (y - e + 1)]
    BY <1>1, <2>1 DEF Part
  <2>3. tu[e] = t[(q + y) - e + 1]
    BY <2>1 DEF Backwards
  <2> QED BY <2>1, <2>2, <2>3
<1>6. LeastEdits(z, w) = LeastEdits(u, v)
  <2>1. Backwards(u, z) /\ Backwards(v, w)
    BY <1>1, <1>2, <1>3 DEF Backwards
  <2> QED BY <1>2, <2>1, LeastBackwards
<1>7. LeastEdits(z, w) = Least(su, tu, x, y)
  <2>1. Len(su) = p + x /\ Len(tu) = q + y
    BY DEF Backwards
  <2>2. Part(z, su, 0, x) /\ Part(w, tu, 0, y)
    BY <1>3, <1>4, <1>5, <2>1 DEF Part
  <2>3. Len(su) \in Nat /\ Len(tu) \in Nat
    BY <2>1
  <2> QED BY <2>2, <2>3, LeastOfFirst
<1> QED BY <1>6, <1>7

\* Of nothing and n entries all are said.
LEMMA LeastOfEmpty ==
  ASSUME NEW s, NEW t, Len(s) \in Nat, Len(t) \in Nat, Len(s) = 0 \/ Len(t) = 0
  PROVE  LeastEdits(s, t) = Len(s) + Len(t)
BY LeastOfNothing

\* Of equals nothing is.
LEMMA LeastOfEqual ==
  ASSUME NEW s, NEW t, NEW n \in Nat, Len(s) = n, Len(t) = n, \A x \in 1..n : s[x] = t[x]
  PROVE  LeastEdits(s, t) = 0
<1>1. Matches(s, t, 0, 0, n)
  BY DEF Matches
<1>2. Least(s, t, 0 + n, 0 + n) = Least(s, t, 0, 0)
  BY <1>1, LeastSlides
<1>3. Least(s, t, 0, 0) = 0
  <2>1. LeastGoes(s, t, 0, 0)
    BY LeastSteps
  <2> QED BY <2>1 DEF LeastGoes
<1>4. 0 + n = n
  OBVIOUS
<1> QED BY <1>2, <1>3, <1>4 DEF Least, LeastEdits

\* Two sequences that have their first p and their last e entries in common, with m and n
\* of each between.
Middle(s, t, p, m, n, e, m2, n2) ==
  /\ m2 = p + m /\ n2 = p + n /\ m2 + e = Len(s) /\ n2 + e = Len(t)
  /\ Matches(s, t, 0, 0, p) /\ Matches(s, t, m2, n2, e)

\* u and v are what lies between.
BetweenEnds(s, t, u, v, p, m, n) ==
  /\ Part(u, s, p, m) /\ Part(v, t, p, n)
  /\ \E e \in Nat, m2 \in Nat, n2 \in Nat : Middle(s, t, p, m, n, e, m2, n2)

\* The ends that two sequences have in common cost nothing: what lies between them says
\* all the edits.
LEMMA LeastOfMiddle ==
  ASSUME NEW s, NEW t, Len(s) \in Nat, Len(t) \in Nat, NEW p \in Nat, NEW m \in Nat,
         NEW n \in Nat, NEW u, NEW v, BetweenEnds(s, t, u, v, p, m, n)
  PROVE  LeastEdits(s, t) = LeastEdits(u, v)
<1>a. PICK e \in Nat, m2 \in Nat, n2 \in Nat : Middle(s, t, p, m, n, e, m2, n2)
  BY DEF BetweenEnds
<1>b. Part(u, s, p, m) /\ Part(v, t, p, n)
  BY DEF BetweenEnds
<1>0. /\ m2 = p + m /\ n2 = p + n /\ m2 + e = Len(s) /\ n2 + e = Len(t)
      /\ Matches(s, t, 0, 0, p) /\ Matches(s, t, m2, n2, e)
  BY <1>a DEF Middle
<1>1. PICK s1, t1 : s1 = [k \in 1..m2 |-> s[k]] /\ t1 = [k \in 1..n2 |-> t[k]]
  OBVIOUS
<1>2. Len(s1) = m2 /\ Len(t1) = n2 /\ m2 <= Len(s) /\ n2 <= Len(t)
  BY <1>0, <1>1
<1>3. (\A k \in 1..m2 : s1[k] = s[k]) /\ Part(s1, s, 0, m2)
  BY <1>1, <1>2 DEF Part
<1>4. (\A k \in 1..n2 : t1[k] = t[k]) /\ Part(t1, t, 0, n2)
  BY <1>1, <1>2 DEF Part
<1>5. LeastEdits(s, t) = LeastEdits(s1, t1)
  <2>1. LeastEdits(s1, t1) = Least(s, t, m2, n2)
    BY <1>3, <1>4, LeastOfFirst
  <2>2. Least(s, t, m2 + e, n2 + e) = Least(s, t, m2, n2)
    BY <1>0, <1>2, LeastSlides
  <2>3. LeastEdits(s, t) = Least(s, t, m2 + e, n2 + e)
    BY <1>0 DEF LeastEdits, Least
  <2> QED BY <2>1, <2>2, <2>3
<1>6. PICK z, w : z = [k \in 1..m2 |-> s1[m2 - k + 1]] /\ w = [k \in 1..n2 |-> t1[n2 - k + 1]]
  OBVIOUS
<1>7. Len(z) = m2 /\ Len(w) = n2
  BY <1>6
<1>8. Backwards(s1, z) /\ Backwards(t1, w)
  BY <1>2, <1>6, <1>7 DEF Backwards
<1>9. LeastEdits(z, w) = LeastEdits(s1, t1)
  BY <1>2, <1>8, LeastBackwards
<1>10. Matches(z, w, m, n, p)
  <2>1. m + p <= Len(z) /\ n + p <= Len(w)
    BY <1>0, <1>7
  <2>2. ASSUME NEW k \in 1..p PROVE z[m + k] = w[n + k]
    <3>1. /\ m + k \in 1..m2 /\ n + k \in 1..n2 /\ m2 - (m + k) + 1 = p - k + 1
          /\ n2 - (n + k) + 1 = p - k + 1 /\ p - k + 1 \in 1..p /\ p - k + 1 \in 1..m2
          /\ p - k + 1 \in 1..n2 /\ 0 + (p - k + 1) = p - k + 1
      BY <1>0
    <3>2. z[m + k] = s[p - k + 1] /\ w[n + k] = t[p - k + 1]
      BY <1>3, <1>4, <1>6, <3>1
    <3>3. s[p - k + 1] = t[p - k + 1]
      BY <1>0, <3>1 DEF Matches
    <3> QED BY <3>2, <3>3
  <2> QED BY <2>1, <2>2 DEF Matches
<1>11. Least(z, w, m + p, n + p) = Least(z, w, m, n)
  BY <1>7, <1>10, LeastSlides
<1>12. LeastEdits(z, w) = Least(z, w, m + p, n + p)
  <2>1. m + p = m2 /\ n + p = n2
    BY <1>0
  <2> QED BY <1>7, <2>1 DEF LeastEdits, Least
<1>13. LeastEdits(u, v) = Least(z, w, m, n)
  <2>1. Part(u, s1, p, m)
    <3>1. \A k \in 1..m : p + k \in 1..m2
      BY <1>0
    <3> QED BY <1>b, <1>0, <1>2, <1>3, <3>1 DEF Part
  <2>2. Part(v, t1, p, n)
    <3>1. \A k \in 1..n : p + k \in 1..n2
      BY <1>0
    <3> QED BY <1>b, <1>0, <1>2, <1>4, <3>1 DEF Part
  <2>3. p + m = Len(s1) /\ p + n = Len(t1) /\ Len(s1) \in Nat /\ Len(t1) \in Nat
    BY <1>0, <1>2
  <2> QED BY <1>8, <2>1, <2>2, <2>3, LeastOfLast
<1> QED BY <1>5, <1>9, <1>11, <1>12, <1>13

\* How many edits a piece of each takes at least: m entries of s after the first x, n of t
\* after the first y.
Between(s, t, x, m, y, n) == LeastEdits(SubSeq(s, x + 1, x + m), SubSeq(t, y + 1, y + n))

\* Pieces on the way of as few edits as there can be.
OnWay(s, t, x, m, y, n) ==
  Least(s, t, x + m, y + n) = Least(s, t, x, y) + Between(s, t, x, m, y, n)

\* The way through two pieces is at most as long as the one before and the one through them.
LEMMA BetweenIs ==
  ASSUME NEW S, NEW s \in Seq(S), NEW t \in Seq(S), NEW x \in Nat, NEW m \in Nat, NEW y \in Nat,
         NEW n \in Nat, x + m <= Len(s), y + n <= Len(t)
  PROVE  /\ Between(s, t, x, m, y, n) \in Nat
         /\ Least(s, t, x + m, y + n) <= Least(s, t, x, y) + Between(s, t, x, m, y, n)
<1>1. PICK u, v : u = SubSeq(s, x + 1, x + m) /\ v = SubSeq(t, y + 1, y + n)
  OBVIOUS
<1>2. Part(u, s, x, m) /\ Part(v, t, y, n)
  BY <1>1, SubSeqPart
<1>3. /\ Len(u) = m /\ Len(v) = n /\ x + Len(u) <= Len(s) /\ y + Len(v) <= Len(t)
      /\ Len(s) \in Nat /\ Len(t) \in Nat
  BY <1>2 DEF Part
<1>4. (\A k \in 1..Len(u) : u[k] = s[x + k]) /\ \A k \in 1..Len(v) : v[k] = t[y + k]
  BY <1>2, <1>3 DEF Part
<1>5. Least(s, t, x + Len(u), y + Len(v)) <= Least(s, t, x, y) + LeastEdits(u, v)
  BY <1>3, <1>4, LeastJoins
<1>6. LeastEdits(u, v) \in Nat
  BY <1>3, LeastIsNumber
<1> QED BY <1>1, <1>3, <1>5, <1>6 DEF Between

\* Of nothing and n entries.
LEMMA BetweenNothing ==
  ASSUME NEW S, NEW s \in Seq(S), NEW t \in Seq(S), NEW x \in Nat, NEW m \in Nat, NEW y \in Nat,
         NEW n \in Nat, x + m <= Len(s), y + n <= Len(t), m = 0 \/ n = 0
  PROVE  Between(s, t, x, m, y, n) = m + n
<1>1. PICK u, v : u = SubSeq(s, x + 1, x + m) /\ v = SubSeq(t, y + 1, y + n)
  OBVIOUS
<1>2. Part(u, s, x, m) /\ Part(v, t, y, n)
  BY <1>1, SubSeqPart
<1>3. Len(u) = m /\ Len(v) = n
  BY <1>2 DEF Part
<1>4. LeastEdits(u, v) = Len(u) + Len(v)
  BY <1>3, LeastOfEmpty
<1> QED BY <1>1, <1>3, <1>4 DEF Between

\* Of equals.
LEMMA BetweenEquals ==
  ASSUME NEW S, NEW s \in Seq(S), NEW t \in Seq(S), NEW x \in Nat, NEW y \in Nat, NEW n \in Nat,
         Matches(s, t, x, y, n)
  PROVE  Between(s, t, x, n, y, n) = 0
<1>1. PICK u, v : u = SubSeq(s, x + 1, x + n) /\ v = SubSeq(t, y + 1, y + n)
  OBVIOUS
<1>2. x + n <= Len(s) /\ y + n <= Len(t)
  BY DEF Matches
<1>3. Part(u, s, x, n) /\ Part(v, t, y, n)
  BY <1>1, <1>2, SubSeqPart
<1>4. Len(u) = n /\ Len(v) = n /\ \A k \in 1..n : u[k] = v[k]
  BY <1>3 DEF Part, Matches
<1> QED BY <1>1, <1>4, LeastOfEqual DEF Between

\* z is that part, cut out.
Cut(z, s, x, m) == z = SubSeq(s, x + 1, x + m)

\* It has that length, and its entries are those.
LEMMA CutIs ==
  ASSUME NEW S, NEW s \in Seq(S), NEW x \in Nat, NEW m \in Nat, x + m <= Len(s), NEW u, Cut(u, s, x, m)
  PROVE  u \in Seq(S) /\ Len(u) = m /\ Part(u, s, x, m)
<1>1. Part(SubSeq(s, x + 1, x + m), s, x, m) /\ SubSeq(s, x + 1, x + m) \in Seq(S)
  BY SubSeqPart
<1>2. Part(u, s, x, m) /\ u \in Seq(S)
  BY <1>1, Zenon DEF Cut
<1> QED BY <1>2 DEF Part

\* What is cut out of a sequence within another cut is a part of that one.
LEMMA CutOfCut ==
  ASSUME NEW S, NEW s \in Seq(S), NEW x \in Nat, NEW m \in Nat, x + m <= Len(s), NEW g \in Nat,
         NEW l \in Nat, g + l <= m, NEW z, z = x + g, NEW u, Cut(u, s, x, m), NEW v, Cut(v, s, z, l)
  PROVE  Part(v, u, g, l)
<1>1. z \in Nat /\ z + l <= Len(s)
  <2>1. PICK n \in Nat : n = Len(s)
    OBVIOUS
  <2> QED BY <2>1
<1>2. Part(u, s, x, m)
  BY CutIs
<1>3. Part(v, s, z, l)
  BY <1>1, CutIs
<1>4. ASSUME NEW e \in 1..l PROVE v[e] = u[g + e]
  <2>1. g + e \in 1..m /\ x + (g + e) = z + e
    OBVIOUS
  <2> QED BY <1>2, <1>3, <2>1 DEF Part
<1> QED BY <1>2, <1>3, <1>4 DEF Part

\* The edits between two pieces are those of what is cut out.
LEMMA CutBetween ==
  ASSUME NEW s, NEW t, NEW x, NEW m, NEW y, NEW n, NEW u, Cut(u, s, x, m), NEW v, Cut(v, t, y, n)
  PROVE  Between(s, t, x, m, y, n) = LeastEdits(u, v)
BY Zenon DEF Cut, Between

\* Of the first entries of two pieces.
LEMMA BetweenFirst ==
  ASSUME NEW S, NEW s \in Seq(S), NEW t \in Seq(S), NEW x \in Nat, NEW m \in Nat, NEW y \in Nat,
         NEW n \in Nat, x + m <= Len(s), y + n <= Len(t), NEW u, Cut(u, s, x, m),
         NEW v, Cut(v, t, y, n), NEW p \in 0..m, NEW q \in 0..n
  PROVE  Between(s, t, x, p, y, q) = Least(u, v, p, q)
<1>1. PICK u1, v1 : Cut(u1, s, x, p) /\ Cut(v1, t, y, q)
  BY DEF Cut
<1>2. /\ 0 + p <= m /\ 0 + q <= n /\ p \in Nat /\ q \in Nat /\ 0 \in Nat /\ x = x + 0 /\ y = y + 0
  OBVIOUS
<1>3. Part(u1, u, 0, p) /\ Part(v1, v, 0, q)
  BY <1>1, <1>2, CutOfCut
<1>4. Len(u) \in Nat /\ Len(v) \in Nat
  BY CutIs
<1>5. LeastEdits(u1, v1) = Least(u, v, p, q)
  BY <1>2, <1>3, <1>4, LeastOfFirst
<1> QED BY <1>1, <1>5, CutBetween

\* u and v are two pieces of s and t, cut out.
Pieces(S, s, t, x, m, y, n, u, v) ==
  /\ s \in Seq(S) /\ t \in Seq(S) /\ x \in Nat /\ m \in Nat /\ y \in Nat /\ n \in Nat
  /\ x + m <= Len(s) /\ y + n <= Len(t) /\ Cut(u, s, x, m) /\ Cut(v, t, y, n)

\* The last m2 of m entries from x on, and the last n2 of n from y on.
LastOf(x, m, y, n, m2, n2, x2, y2) ==
  /\ m2 \in 0..m /\ n2 \in 0..n /\ x2 + m2 = x + m /\ y2 + n2 = y + n /\ x2 \in Nat /\ y2 \in Nat

\* Of their last ones.
LEMMA BetweenLast ==
  ASSUME NEW S, NEW s, NEW t, NEW x, NEW m, NEW y, NEW n, NEW u, NEW v,
         Pieces(S, s, t, x, m, y, n, u, v), NEW su, Backwards(u, su), NEW tv, Backwards(v, tv),
         NEW m2, NEW n2, NEW x2, NEW y2, LastOf(x, m, y, n, m2, n2, x2, y2)
  PROVE  Between(s, t, x2, m2, y2, n2) = Least(su, tv, m2, n2)
<1>0. /\ s \in Seq(S) /\ t \in Seq(S) /\ x \in Nat /\ m \in Nat /\ y \in Nat /\ n \in Nat
      /\ x + m <= Len(s) /\ y + n <= Len(t) /\ Cut(u, s, x, m) /\ Cut(v, t, y, n)
  BY DEF Pieces
<1> USE <1>0
<1>a. m2 \in Nat /\ n2 \in Nat
  BY DEF LastOf
<1>b. PICK p \in Nat, q \in Nat : p + m2 = m /\ q + n2 = n /\ x2 = x + p /\ y2 = y + q
  <2>1. m - m2 \in Nat /\ n - n2 \in Nat /\ x2 \in Nat /\ y2 \in Nat
    BY DEF LastOf
  <2>2. /\ (m - m2) + m2 = m /\ (n - n2) + n2 = n /\ x2 = x + (m - m2) /\ y2 = y + (n - n2)
    BY DEF LastOf
  <2> QED BY <2>1, <2>2
<1> USE <1>a, <1>b
<1>1. PICK u1, v1 : Cut(u1, s, x2, m2) /\ Cut(v1, t, y2, n2)
  BY DEF Cut
<1>2. Part(u1, u, p, m2) /\ Part(v1, v, q, n2)
  <2>1. p + m2 <= m /\ q + n2 <= n
    OBVIOUS
  <2> QED BY <1>1, <2>1, CutOfCut
<1>3. Len(u) = m /\ Len(v) = n
  BY CutIs
<1>4. LeastEdits(u1, v1) = Least(su, tv, m2, n2)
  <2>1. Len(u) \in Nat /\ Len(v) \in Nat /\ p + m2 = Len(u) /\ q + n2 = Len(v)
    BY <1>3
  <2> QED BY <1>2, <2>1, LeastOfLast, SMTT(60)
<1> QED BY <1>1, <1>4, CutBetween

\* What lies between the ends that u and v have in common: g entries from x2 on, and h from
\* y2 on.
MiddleOf(u, v, x, y, g, h, x2, y2) ==
  \E p \in Nat, e \in Nat, m2 \in Nat, n2 \in Nat :
    /\ Middle(u, v, p, g, h, e, m2, n2) /\ g \in Nat /\ h \in Nat /\ x2 = x + p /\ y2 = y + p

\* It takes as many edits as both.
LEMMA BetweenMiddle ==
  ASSUME NEW S, NEW s, NEW t, NEW x, NEW m, NEW y, NEW n, NEW u, NEW v,
         Pieces(S, s, t, x, m, y, n, u, v), NEW g, NEW h, NEW x2, NEW y2,
         MiddleOf(u, v, x, y, g, h, x2, y2)
  PROVE  Between(s, t, x, m, y, n) = Between(s, t, x2, g, y2, h)
<1>0. /\ s \in Seq(S) /\ t \in Seq(S) /\ x \in Nat /\ m \in Nat /\ y \in Nat /\ n \in Nat
      /\ x + m <= Len(s) /\ y + n <= Len(t) /\ Cut(u, s, x, m) /\ Cut(v, t, y, n)
  BY DEF Pieces
<1> USE <1>0
<1>a. PICK p \in Nat, e \in Nat, m2 \in Nat, n2 \in Nat :
        /\ Middle(u, v, p, g, h, e, m2, n2) /\ g \in Nat /\ h \in Nat /\ x2 = x + p /\ y2 = y + p
  BY DEF MiddleOf
<1> USE <1>a
<1>1. PICK u1, v1 : Cut(u1, s, x2, g) /\ Cut(v1, t, y2, h)
  BY DEF Cut
<1>3. u \in Seq(S) /\ v \in Seq(S) /\ m = Len(u) /\ n = Len(v)
  BY CutIs
<1>2. Part(u1, u, p, g) /\ Part(v1, v, p, h)
  <2>1. p + g <= m /\ p + h <= n
    BY <1>3, SMTT(60) DEF Middle
  <2> QED BY <1>1, <2>1, CutOfCut
<1>4. LeastEdits(u, v) = LeastEdits(u1, v1)
  <2>1. Len(u) \in Nat /\ Len(v) \in Nat
    BY <1>3
  <2>2. BetweenEnds(u, v, u1, v1, p, g, h)
    BY <1>2 DEF BetweenEnds
  <2> QED BY <2>1, <2>2, LeastOfMiddle, SMTT(60)
<1> QED BY <1>1, <1>4, CutBetween

\* It takes at least as many edits as one of them is longer.
LEMMA BetweenOff ==
  ASSUME NEW S, NEW s \in Seq(S), NEW t \in Seq(S), NEW x \in Nat, NEW m \in Nat, NEW y \in Nat,
         NEW n \in Nat, x + m <= Len(s), y + n <= Len(t)
  PROVE  m - n <= Between(s, t, x, m, y, n) /\ n - m <= Between(s, t, x, m, y, n)
<1>1. PICK u, v : Cut(u, s, x, m) /\ Cut(v, t, y, n)
  BY DEF Cut
<1>2. Len(u) = m /\ Len(v) = n
  BY <1>1, CutIs
<1>3. LeastEdits(u, v) = Least(u, v, m, n)
  <2>1. Len(u) \in Nat /\ Len(v) \in Nat
    BY <1>2
  <2> QED BY <1>2, <2>1, LeastIsNumber
<1>4. m - n <= Least(u, v, m, n) /\ n - m <= Least(u, v, m, n)
  <2>1. Len(u) \in Nat /\ Len(v) \in Nat /\ m \in 0..Len(u) /\ n \in 0..Len(v)
    BY <1>2
  <2> QED BY <2>1, LeastOff
<1>5. Between(s, t, x, m, y, n) = Least(u, v, m, n)
  BY <1>1, <1>3, CutBetween
<1> QED BY <1>4, <1>5

\* Three pieces, one after the other, that take no more edits than all at once.
InThree(s, t, x0, y0, m1, m2, m3, n1, n2, n3, m, n, x1, x2, y1, y2) ==
  /\ x0 \in Nat /\ m1 \in Nat /\ m2 \in Nat /\ m3 \in Nat
  /\ y0 \in Nat /\ n1 \in Nat /\ n2 \in Nat /\ n3 \in Nat
  /\ m = m1 + m2 + m3 /\ n = n1 + n2 + n3
  /\ x1 = x0 + m1 /\ x2 = x1 + m2 /\ y1 = y0 + n1 /\ y2 = y1 + n2
  /\ x0 + m <= Len(s) /\ y0 + n <= Len(t)
  /\ Between(s, t, x0, m1, y0, n1) + Between(s, t, x1, m2, y1, n2)
       + Between(s, t, x2, m3, y2, n3) <= Between(s, t, x0, m, y0, n)

\* If these are on the way, each of them is.
LEMMA ThreeOnWay ==
  ASSUME NEW S, NEW s \in Seq(S), NEW t \in Seq(S), NEW x0, NEW y0, NEW m1, NEW m2, NEW m3,
         NEW n1, NEW n2, NEW n3, NEW m, NEW n, NEW x1, NEW x2, NEW y1, NEW y2,
         OnWay(s, t, x0, m, y0, n), InThree(s, t, x0, y0, m1, m2, m3, n1, n2, n3, m, n, x1, x2, y1, y2)
  PROVE  /\ OnWay(s, t, x0, m1, y0, n1) /\ OnWay(s, t, x1, m2, y1, n2)
         /\ OnWay(s, t, x2, m3, y2, n3)
<1>0. /\ x0 \in Nat /\ m1 \in Nat /\ m2 \in Nat /\ m3 \in Nat
      /\ y0 \in Nat /\ n1 \in Nat /\ n2 \in Nat /\ n3 \in Nat
  BY DEF InThree
<1> USE <1>0
<1> USE DEF InThree
<1>1. PICK c \in Nat, c1 \in Nat, c2 \in Nat, c3 \in Nat :
        /\ c = Between(s, t, x0, m, y0, n) /\ c1 = Between(s, t, x0, m1, y0, n1)
        /\ c2 = Between(s, t, x1, m2, y1, n2) /\ c3 = Between(s, t, x2, m3, y2, n3)
        /\ Least(s, t, x0 + m1, y0 + n1) <= Least(s, t, x0, y0) + c1
        /\ Least(s, t, x1 + m2, y1 + n2) <= Least(s, t, x1, y1) + c2
        /\ Least(s, t, x2 + m3, y2 + n3) <= Least(s, t, x2, y2) + c3
  <2> HIDE DEF InThree
  <2>1. /\ x1 \in Nat /\ x2 \in Nat /\ y1 \in Nat /\ y2 \in Nat /\ m \in Nat /\ n \in Nat
        /\ x0 + m1 <= Len(s) /\ x1 + m2 <= Len(s) /\ x2 + m3 <= Len(s)
        /\ y0 + n1 <= Len(t) /\ y1 + n2 <= Len(t) /\ y2 + n3 <= Len(t)
        /\ x0 + m <= Len(s) /\ y0 + n <= Len(t)
    <3>1. PICK l \in Nat, k \in Nat : l = Len(s) /\ k = Len(t)
      OBVIOUS
    <3> QED BY <3>1 DEF InThree
  <2>2. /\ Between(s, t, x0, m1, y0, n1) \in Nat
        /\ Least(s, t, x0 + m1, y0 + n1) <= Least(s, t, x0, y0) + Between(s, t, x0, m1, y0, n1)
    BY <2>1, BetweenIs, Zenon
  <2>3. /\ Between(s, t, x1, m2, y1, n2) \in Nat
        /\ Least(s, t, x1 + m2, y1 + n2) <= Least(s, t, x1, y1) + Between(s, t, x1, m2, y1, n2)
    BY <2>1, BetweenIs, Zenon
  <2>4. /\ Between(s, t, x2, m3, y2, n3) \in Nat
        /\ Least(s, t, x2 + m3, y2 + n3) <= Least(s, t, x2, y2) + Between(s, t, x2, m3, y2, n3)
    BY <2>1, BetweenIs, Zenon
  <2>5. Between(s, t, x0, m, y0, n) \in Nat
    BY <2>1, BetweenIs, Zenon
  <2> QED BY <2>2, <2>3, <2>4, <2>5 DEF InThree
<1>2. PICK l0 \in Nat, l1 \in Nat, l2 \in Nat, l3 \in Nat :
        /\ l0 = Least(s, t, x0, y0) /\ l1 = Least(s, t, x1, y1) /\ l2 = Least(s, t, x2, y2)
        /\ l3 = Least(s, t, x2 + m3, y2 + n3)
  <2>1. PICK l \in Nat, k \in Nat : l = Len(s) /\ k = Len(t)
    OBVIOUS
  <2>2. /\ x0 \in 0..l /\ x1 \in 0..l /\ x2 \in 0..l /\ x2 + m3 \in 0..l
        /\ y0 \in 0..k /\ y1 \in 0..k /\ y2 \in 0..k /\ y2 + n3 \in 0..k
    BY <2>1
  <2>3. \A p \in 0..Len(s), q \in 0..Len(t) : Least(s, t, p, q) \in Nat
    <3>1. Len(s) \in Nat /\ Len(t) \in Nat
      OBVIOUS
    <3> QED BY <3>1, LeastSteps DEF LeastGoes
  <2> QED BY <2>1, <2>2, <2>3
<1>3. x0 + m = x2 + m3 /\ y0 + n = y2 + n3
  OBVIOUS
<1>4. l3 = l0 + c
  BY <1>1, <1>2, <1>3 DEF OnWay
<1>5. l1 <= l0 + c1 /\ l2 <= l1 + c2 /\ l3 <= l2 + c3 /\ c1 + c2 + c3 <= c
  BY <1>1, <1>2
<1>6. l1 = l0 + c1 /\ l2 = l1 + c2 /\ l3 = l2 + c3
  BY <1>4, <1>5
<1> QED BY <1>1, <1>2, <1>6 DEF OnWay

\* And two.
InTwo(s, t, x0, y0, m1, m2, n1, n2, m, n, x1, y1) ==
  /\ x0 \in Nat /\ m1 \in Nat /\ m2 \in Nat /\ y0 \in Nat /\ n1 \in Nat /\ n2 \in Nat
  /\ m = m1 + m2 /\ n = n1 + n2 /\ x1 = x0 + m1 /\ y1 = y0 + n1
  /\ x0 + m <= Len(s) /\ y0 + n <= Len(t)
  /\ Between(s, t, x0, m1, y0, n1) + Between(s, t, x1, m2, y1, n2) <= Between(s, t, x0, m, y0, n)

\* Then each of the two is on the way.
LEMMA TwoOnWay ==
  ASSUME NEW S, NEW s \in Seq(S), NEW t \in Seq(S), NEW x0, NEW y0, NEW m1, NEW m2, NEW n1, NEW n2,
         NEW m, NEW n, NEW x1, NEW y1, OnWay(s, t, x0, m, y0, n),
         InTwo(s, t, x0, y0, m1, m2, n1, n2, m, n, x1, y1)
  PROVE  OnWay(s, t, x0, m1, y0, n1) /\ OnWay(s, t, x1, m2, y1, n2)
<1>0. x0 \in Nat /\ m1 \in Nat /\ m2 \in Nat /\ y0 \in Nat /\ n1 \in Nat /\ n2 \in Nat
  BY DEF InTwo
<1> USE <1>0
<1>1. PICK z \in Nat, x2 \in Nat, y2 \in Nat : z = 0 /\ x2 = x1 + m2 /\ y2 = y1 + n2
  BY DEF InTwo
<1>2. /\ x2 + z <= Len(s) /\ y2 + z <= Len(t) /\ x0 + m1 <= Len(s) /\ y0 + n1 <= Len(t)
      /\ x1 + m2 <= Len(s) /\ y1 + n2 <= Len(t) /\ x1 \in Nat /\ y1 \in Nat
      /\ m = m1 + m2 + z /\ n = n1 + n2 + z
  <2>1. PICK l \in Nat, k \in Nat : l = Len(s) /\ k = Len(t)
    OBVIOUS
  <2> QED BY <1>1, <2>1 DEF InTwo
<1>3. Between(s, t, x2, z, y2, z) = 0
  <2>1. Between(s, t, x2, z, y2, z) = z + z
    BY <1>1, <1>2, BetweenNothing, SMTT(60)
  <2> QED BY <1>1, <2>1
<1>4. Between(s, t, x0, m1, y0, n1) \in Nat
  BY <1>2, BetweenIs
<1>5. Between(s, t, x1, m2, y1, n2) \in Nat
  BY <1>2, BetweenIs
<1>6. InThree(s, t, x0, y0, m1, m2, z, n1, n2, z, m, n, x1, x2, y1, y2)
  <2>1. PICK c1 \in Nat, c2 \in Nat :
          c1 = Between(s, t, x0, m1, y0, n1) /\ c2 = Between(s, t, x1, m2, y1, n2)
    BY <1>4, <1>5
  <2>2. c1 + c2 <= Between(s, t, x0, m, y0, n) /\ c1 + c2 + 0 = c1 + c2
    BY <2>1 DEF InTwo
  <2> QED BY <1>1, <1>2, <1>3, <2>1, <2>2 DEF InTwo, InThree
<1> QED BY <1>6, ThreeOnWay

\* Where it takes all edits that there can be, one piece is deleted and the other inserted.
LEMMA AllOfBoth ==
  ASSUME NEW S, NEW s \in Seq(S), NEW t \in Seq(S), NEW x \in Nat, NEW m \in Nat, NEW y \in Nat,
         NEW n \in Nat, x + m <= Len(s), y + n <= Len(t), OnWay(s, t, x, m, y, n),
         Between(s, t, x, m, y, n) = m + n, NEW z, z = 0, NEW x1, x1 = x + m
  PROVE  OnWay(s, t, x, m, y, z) /\ OnWay(s, t, x1, z, y, n)
<1>1. /\ z \in Nat /\ x1 \in Nat /\ y + z <= Len(t) /\ x1 + z <= Len(s) /\ y = y + z
      /\ m = m + z /\ n = z + n
  <2>1. PICK c \in Nat : c = Len(t)
    OBVIOUS
  <2> QED BY <2>1
<1>2. Between(s, t, x, m, y, z) = m + z
  BY <1>1, BetweenNothing
<1>3. Between(s, t, x1, z, y, n) = z + n
  BY <1>1, BetweenNothing
<1>4. InTwo(s, t, x, y, m, z, z, n, m, n, x1, y)
  <2>1. (m + z) + (z + n) <= m + n
    OBVIOUS
  <2> QED BY <1>1, <1>2, <1>3, <2>1 DEF InTwo
<1> QED BY <1>4, TwoOnWay

-------------------------------------------------------------------------------
(* How far a number of edits leads. *)

\* On diagonal z, r edits lead to all the places up to x, and to none beyond.
FrontAt(x, z, r, s, t) ==
  \A p \in 0..Len(s), q \in 0..Len(t) : p - q = z => (Least(s, t, p, q) <= r <=> p <= x)

\* On each of the first q diagonals of a row, its edits lead as far as its place.
Fronts(F, r, q, s, t) ==
  \A c \in 0..(q - 1) : FrontAt(F[2 * c - r].x, 2 * c - r, r, s, t)

\* The first run of equals is as far as no edit leads.
LEMMA FrontFirst ==
  ASSUME NEW s, NEW t, Len(s) \in Nat, Len(t) \in Nat
  PROVE  FrontAt(Extent(s, t, 0, 0), 0, 0, s, t)
<1>1. PICK m \in Nat, n \in Nat : m = Len(s) /\ n = Len(t)
  OBVIOUS
<1>2. PICK x \in Nat : x = Extent(s, t, 0, 0)
  BY ExtentAnywhere
<1>3. /\ x # 0 => Matches(s, t, 0, 0, x)
      /\ x < m /\ x < n => s[x + 1] # t[x + 1]
  <2>0. LET e == Extent(s, t, 0, 0)
        IN  /\ e # 0 => Matches(s, t, 0, 0, e)
            /\ 0 + e < Len(s) /\ 0 + e < Len(t) => s[0 + e + 1] # t[0 + e + 1]
    BY ExtentAnywhere
  <2>1. /\ x # 0 => Matches(s, t, 0, 0, x)
        /\ 0 + x < m /\ 0 + x < n => s[0 + x + 1] # t[0 + x + 1]
    BY <1>1, <1>2, <2>0
  <2>2. 0 + x = x
    OBVIOUS
  <2> QED BY <2>1, <2>2
<1>4. ASSUME NEW p \in 0..m, p <= n, p <= x PROVE Least(s, t, p, p) <= 0
  <2>1. Matches(s, t, 0, 0, p)
    <3>1. CASE p = 0
      BY <1>1, <3>1 DEF Matches
    <3>2. CASE p # 0
      <4>1. \A e \in 1..p : e \in 1..x
        BY <1>4
      <4> QED BY <1>1, <1>3, <1>4, <3>2, <4>1 DEF Matches
    <3> QED BY <3>1, <3>2
  <2>2. Least(s, t, 0 + p, 0 + p) = Least(s, t, 0, 0)
    BY <1>1, <2>1, LeastSlides
  <2>3. LeastRecurs(s, t, 0, 0)
    BY <1>1, LeastIs
  <2>4. Least(s, t, 0, 0) = 0 /\ 0 + p = p
    BY <2>3 DEF LeastRecurs
  <2> QED BY <2>2, <2>4
<1> DEFINE S == {p \in 0..m : p <= n /\ x < p /\ Least(s, t, p, p) <= 0}
<1>5. S = {}
  <2> SUFFICES ASSUME S # {} PROVE FALSE
    OBVIOUS
  <2>1. S \in SUBSET Nat
    OBVIOUS
  <2>2. PICK p \in S : \A e \in S : p <= e
    BY <2>1, LeastNatural
  <2>3. p \in 0..m /\ p <= n /\ x < p /\ Least(s, t, p, p) <= 0 /\ p # 0
    OBVIOUS
  <2>4. /\ p - 1 \in 0..m /\ p - 1 \in 0..n /\ p \in 0..n /\ ~(p <= p - 1)
    BY <2>3
  <2>5. LeastRecurs(s, t, p, p) /\ LeastRecurs(s, t, p - 1, p) /\ LeastRecurs(s, t, p, p - 1)
    BY <1>1, <2>3, <2>4, LeastIs
  <2>6. CASE s[p] = t[p]
    <3>1. Least(s, t, p - 1, p - 1) <= 0
      BY <2>3, <2>5, <2>6 DEF LeastRecurs
    <3>2. ~(x < p - 1)
      BY <2>2, <2>3, <2>4, <3>1
    <3>3. p = x + 1 /\ x < m /\ x < n
      BY <2>3, <3>2
    <3> QED BY <1>3, <2>6, <3>3
  <2>7. CASE s[p] # t[p]
    <3>1. PICK e1 \in Nat, e2 \in Nat : e1 = Least(s, t, p - 1, p) /\ e2 = Least(s, t, p, p - 1)
      BY <2>5 DEF LeastRecurs
    <3>2. Least(s, t, p, p) = 1 + Smaller(e1, e2)
      BY <2>3, <2>5, <2>7, <3>1 DEF LeastRecurs
    <3>3. PICK g \in Int : g = 1 + Smaller(e1, e2) /\ g > 0
      BY DEF Smaller
    <3>4. g <= 0
      BY <2>3, <3>2, <3>3
    <3> QED BY <3>3, <3>4
  <2> QED BY <2>6, <2>7
<1>6. ASSUME NEW p \in 0..m, NEW q \in 0..n, p - q = 0 PROVE Least(s, t, p, q) <= 0 <=> p <= x
  <2>1. q = p /\ p <= n
    BY <1>6
  <2>2. Least(s, t, p, p) <= 0 => ~(x < p)
    BY <1>5, <2>1
  <2> QED BY <1>4, <2>1, <2>2
<1> QED BY <1>1, <1>2, <1>6 DEF FrontAt

\* The diagonals of a row are numbers.
LEMMA DiagonalIs ==
  ASSUME NEW r \in Nat, NEW c \in 0..r
  PROVE  \E z \in Int : z = 2 * c - r /\ z <= r /\ -r <= z
<1>1. 2 * c - r \in Int /\ 2 * c - r <= r /\ -r <= 2 * c - r
  OBVIOUS
<1> QED BY <1>1

\* The first place beyond a run, from (u, v) on, of l equals.
LEMMA NextBeyond ==
  ASSUME NEW u \in Int, NEW v \in Int, NEW l \in Int, NEW z \in Int, NEW p \in Int, NEW q \in Int,
         NEW m \in Int, NEW n \in Int, u + l < p, ~(u + l < p - 1), q = p - z, v = u - z,
         p <= m, q <= n
  PROVE  p = u + l + 1 /\ q = v + l + 1 /\ u + l < m /\ v + l < n
OBVIOUS

\* As far as one edit less leads on the diagonals beside it, yl and yr, one edit and a run
\* of equals lead on this one.
LEMMA FrontBetween ==
  ASSUME NEW s, NEW t, Len(s) \in Nat, Len(t) \in Nat, NEW r \in Nat, NEW z \in (-r)..r,
         NEW yl \in Int, NEW yr \in Int, NEW u \in Nat, u - z \in Nat,
         -r < z => FrontAt(yl, z - 1, r - 1, s, t) /\ yl + 1 <= u,
         z < r => FrontAt(yr, z + 1, r - 1, s, t) /\ yr <= u,
         (-r < z /\ u = yl + 1) \/ (z < r /\ u = yr)
  PROVE  FrontAt(u + Extent(s, t, u, u - z), z, r, s, t)
<1>1. PICK m \in Nat, n \in Nat : m = Len(s) /\ n = Len(t)
  OBVIOUS
<1>3. PICK v \in Nat : v = u - z
  OBVIOUS
<1>4. PICK l \in Nat : l = Extent(s, t, u, v)
  BY <1>1, <1>3, ExtentAnywhere
<1> DEFINE x == u + l
<1>5. /\ l # 0 => Matches(s, t, u, v, l)
      /\ u + l < m /\ v + l < n => s[u + l + 1] # t[v + l + 1]
  BY <1>1, <1>4, ExtentAnywhere
<1>6. -r < z => \A p \in 0..m, q \in 0..n :
                  p - q = z - 1 => (Least(s, t, p, q) <= r - 1 <=> p <= yl)
  BY <1>1 DEF FrontAt
<1>7. z < r => \A p \in 0..m, q \in 0..n :
                 p - q = z + 1 => (Least(s, t, p, q) <= r - 1 <=> p <= yr)
  BY <1>1 DEF FrontAt
<1>9. \A p \in 0..m, q \in 0..n : LeastRecurs(s, t, p, q)
  BY <1>1, LeastIs
<1>10. \A p \in 0..m, q \in 0..n :
         /\ p > 0 => Near(Least(s, t, p, q), Least(s, t, p - 1, q))
         /\ q > 0 => Near(Least(s, t, p, q), Least(s, t, p, q - 1))
  BY <1>1, LeastNear
\* What lies before the run is reached by way of the place it begins at.
<1>11. ASSUME NEW p \in 0..m, NEW q \in 0..n, p - q = z, p <= u PROVE Least(s, t, p, q) <= r
  <2>0. PICK e \in Nat : e = Least(s, t, p, q)
    BY <1>9 DEF LeastRecurs
  <2>1. CASE -r < z /\ u = yl + 1
    <3>1. CASE p = 0
      <4>1. Least(s, t, p, q) = q
        BY <1>9, <3>1 DEF LeastRecurs
      <4> QED BY <1>11, <3>1, <4>1
    <3>2. CASE p # 0
      <4>1. p - 1 \in 0..m /\ (p - 1) - q = z - 1 /\ p > 0
        BY <1>11, <3>2
      <4>2. PICK e1 \in Nat : e1 = Least(s, t, p - 1, q)
        BY <1>9, <4>1 DEF LeastRecurs
      <4>3. e1 <= r - 1
        <5>1. Least(s, t, p - 1, q) <= r - 1 <=> p - 1 <= yl
          BY <1>6, <2>1, <4>1
        <5> QED BY <1>11, <2>1, <4>2, <5>1
      <4>4. Near(e, e1)
        BY <1>10, <2>0, <4>1, <4>2
      <4> QED BY <2>0, <4>3, <4>4 DEF Near
    <3> QED BY <3>1, <3>2
  <2>2. CASE z < r /\ u = yr
    <3>1. CASE q = 0
      <4>1. Least(s, t, p, q) = p
        BY <1>9, <3>1 DEF LeastRecurs
      <4> QED BY <1>11, <3>1, <4>1
    <3>2. CASE q # 0
      <4>1. q - 1 \in 0..n /\ p - (q - 1) = z + 1 /\ q > 0
        BY <1>11, <3>2
      <4>2. PICK e1 \in Nat : e1 = Least(s, t, p, q - 1)
        BY <1>9, <4>1 DEF LeastRecurs
      <4>3. e1 <= r - 1
        <5>1. Least(s, t, p, q - 1) <= r - 1 <=> p <= yr
          BY <1>7, <2>2, <4>1
        <5> QED BY <1>11, <2>2, <4>2, <5>1
      <4>4. Near(e, e1)
        BY <1>10, <2>0, <4>1, <4>2
      <4> QED BY <2>0, <4>3, <4>4 DEF Near
    <3> QED BY <3>1, <3>2
  <2> QED BY <2>1, <2>2
\* The run itself takes no edit.
<1>12. ASSUME NEW p \in 0..m, NEW q \in 0..n, p - q = z, p <= x PROVE Least(s, t, p, q) <= r
  <2>1. CASE p <= u
    BY <1>11, <1>12, <2>1
  <2>2. CASE ~(p <= u)
    <3>1. PICK e \in 1..l : p = u + e /\ q = v + e
      <4>1. p - u \in 1..l /\ p = u + (p - u) /\ q = v + (p - u)
        BY <1>3, <1>12, <2>2
      <4> QED BY <4>1
    <3>2. u \in 0..m /\ v \in 0..n /\ u - v = z
      BY <1>3, <3>1
    <3>3. Matches(s, t, u, v, e)
      <4>1. Matches(s, t, u, v, l)
        BY <1>5, <3>1
      <4>2. u + e <= m /\ v + e <= n /\ \A g \in 1..e : g \in 1..l
        BY <3>1
      <4> QED BY <1>1, <4>1, <4>2 DEF Matches
    <3>4. Least(s, t, p, q) = Least(s, t, u, v)
      BY <1>1, <3>1, <3>3, LeastSlides
    <3> QED BY <1>11, <3>2, <3>4
  <2> QED BY <2>1, <2>2
\* The nearest place beyond it that r edits led to would have been led to from beside it.
<1> DEFINE S == {p \in 0..m : p - z \in 0..n /\ x < p /\ Least(s, t, p, p - z) <= r}
<1>13. S = {}
  <2> SUFFICES ASSUME S # {} PROVE FALSE
    OBVIOUS
  <2>1. S \in SUBSET Nat
    OBVIOUS
  <2>2. PICK p \in S : \A e \in S : p <= e
    BY <2>1, LeastNatural
  <2>3. p \in 0..m /\ p - z \in 0..n /\ x < p /\ Least(s, t, p, p - z) <= r /\ p # 0
    <3>1. p \in 0..m /\ p - z \in 0..n /\ u + l < p /\ Least(s, t, p, p - z) <= r
      OBVIOUS
    <3>2. p # 0
      BY <3>1
    <3> QED BY <3>1, <3>2
  <2>4. PICK q \in 0..n : q = p - z
    BY <2>3
  <2> HIDE DEF S
  <2>5. q # 0
    <3>1. /\ p \in 0..m /\ u + l < p /\ ~(p <= u + l) /\ q = p - z /\ v = u - z
      BY <1>3, <2>3, <2>4
    <3>2. v + l < q
      BY <1>3, <1>4, <3>1
    <3> QED BY <1>3, <1>4, <3>2
  <2>6. /\ p - 1 \in 0..m /\ q - 1 \in 0..n /\ ~(p <= p - 1) /\ (p - 1) - z = q - 1
        /\ (p - 1) - q = z - 1 /\ p - (q - 1) = z + 1 /\ p > 0 /\ q > 0
    BY <2>3, <2>4, <2>5
  <2>7. CASE s[p] = t[q]
    <3>1. Least(s, t, p - 1, q - 1) <= r
      BY <1>9, <2>3, <2>4, <2>5, <2>7 DEF LeastRecurs
    <3>2. ~(x < p - 1)
      BY <2>2, <2>6, <3>1 DEF S
    <3>3. /\ p \in 0..m /\ u + l < p /\ ~(u + l < p - 1) /\ q = p - z /\ v = u - z
      BY <1>3, <2>3, <2>4, <3>2
    <3>4. p = u + l + 1 /\ q = v + l + 1 /\ u + l < m /\ v + l < n
      <4>1. p \in Int /\ p <= m /\ q <= n
        BY <3>3
      <4>2. /\ u \in Int /\ v \in Int /\ l \in Int /\ z \in Int /\ q \in Int
            /\ m \in Int /\ n \in Int
        OBVIOUS
      <4>3. u + l < p /\ ~(u + l < p - 1) /\ q = p - z /\ v = u - z
        BY <3>3
      <4> HIDE DEF x
      <4> QED BY <4>1, <4>2, <4>3, NextBeyond
    <3> QED BY <1>5, <2>7, <3>4
  <2>8. CASE s[p] # t[q]
    <3>1. PICK e1 \in Nat, e2 \in Nat : e1 = Least(s, t, p - 1, q) /\ e2 = Least(s, t, p, q - 1)
      BY <1>9, <2>3, <2>6 DEF LeastRecurs
    <3>2. Least(s, t, p, q) = 1 + Smaller(e1, e2)
      BY <1>9, <2>3, <2>5, <2>8, <3>1 DEF LeastRecurs
    <3>3. e1 <= r - 1 \/ e2 <= r - 1
      BY <2>3, <2>4, <3>2 DEF Smaller
    <3>4. CASE e1 <= r - 1
      <4>1. CASE -r < z
        <5>1. Least(s, t, p - 1, q) <= r - 1 <=> p - 1 <= yl
          BY <1>6, <2>6, <4>1
        <5> QED BY <2>3, <3>1, <3>4, <4>1, <5>1
      <4>2. CASE z = -r
        <5>1. q - (p - 1) <= e1
          BY <1>1, <2>6, <3>1, LeastOff
        <5> QED BY <2>6, <3>4, <4>2, <5>1
      <4> QED BY <4>1, <4>2
    <3>5. CASE e2 <= r - 1
      <4>1. CASE z < r
        <5>1. Least(s, t, p, q - 1) <= r - 1 <=> p <= yr
          BY <1>7, <2>3, <2>6, <4>1
        <5> QED BY <2>3, <3>1, <3>5, <4>1, <5>1
      <4>2. CASE z = r
        <5>1. p - (q - 1) <= e2
          BY <1>1, <2>3, <2>6, <3>1, LeastOff
        <5> QED BY <2>6, <3>5, <4>2, <5>1
      <4> QED BY <4>1, <4>2
    <3> QED BY <3>3, <3>4, <3>5
  <2> QED BY <2>7, <2>8
<1>14. ASSUME NEW p \in 0..m, NEW q \in 0..n, p - q = z PROVE Least(s, t, p, q) <= r <=> p <= x
  <2>1. q = p - z
    BY <1>14
  <2>2. Least(s, t, p, q) <= r => ~(x < p)
    BY <1>13, <2>1
  <2> QED BY <1>12, <1>14, <2>2
<1>15. FrontAt(x, z, r, s, t)
  BY <1>1, <1>14 DEF FrontAt
<1> QED BY <1>3, <1>4, <1>15

\* One edit more leads as far as the engines go: to the further of the two places beside
\* it, and along the run of equals there.
LEMMA FrontFurther ==
  ASSUME NEW s, NEW t, Len(s) \in Nat, Len(t) \in Nat, NEW r \in Nat \ {0}, NEW c \in 0..r,
         NEW F, Fronts(F, r - 1, r, s, t),
         c > 0 => F[2 * c - r - 1].x \in Int, c < r => F[2 * c - r + 1].x \in Int,
         NEW u \in Nat, u - (2 * c - r) \in Nat, Chosen(F, r, c, u)
  PROVE  FrontAt(u + Extent(s, t, u, u - (2 * c - r)), 2 * c - r, r, s, t)
<1>1. PICK z \in (-r)..r : z = 2 * c - r
  BY DiagonalIs
<1>2. PICK yl \in Int : c > 0 => yl = F[2 * c - r - 1].x
  OBVIOUS
<1>3. PICK yr \in Int : c < r => yr = F[2 * c - r + 1].x
  OBVIOUS
<1>4. ASSUME c > 0 PROVE FrontAt(yl, z - 1, r - 1, s, t)
  <2>1. c - 1 \in 0..(r - 1)
    BY <1>4
  <2>2. 2 * (c - 1) - (r - 1) = z - 1 /\ 2 * c - r - 1 = z - 1
    BY <1>1
  <2>3. FrontAt(F[z - 1].x, z - 1, r - 1, s, t)
    BY <2>1, <2>2 DEF Fronts
  <2> QED BY <1>2, <1>4, <2>2, <2>3
<1>5. ASSUME c < r PROVE FrontAt(yr, z + 1, r - 1, s, t)
  <2>1. c \in 0..(r - 1)
    BY <1>5
  <2>2. 2 * c - (r - 1) = z + 1 /\ 2 * c - r + 1 = z + 1
    BY <1>1
  <2>3. FrontAt(F[z + 1].x, z + 1, r - 1, s, t)
    BY <2>1, <2>2 DEF Fronts
  <2> QED BY <1>3, <1>5, <2>2, <2>3
<1>6. \/ (c = 0 \/ (c < r /\ yl < yr)) /\ c < r /\ u = yr
      \/ c > 0 /\ (c < r => yr <= yl) /\ u = yl + 1
  BY <1>2, <1>3 DEF Chosen
<1>7. (-r < z <=> c > 0) /\ (z < r <=> c < r)
  BY <1>1
<1>8. /\ -r < z => FrontAt(yl, z - 1, r - 1, s, t) /\ yl + 1 <= u
      /\ z < r => FrontAt(yr, z + 1, r - 1, s, t) /\ yr <= u
      /\ (-r < z /\ u = yl + 1) \/ (z < r /\ u = yr)
  <2>1. CASE (c = 0 \/ (c < r /\ yl < yr)) /\ c < r /\ u = yr
    BY <1>4, <1>5, <1>7, <2>1
  <2>2. CASE c > 0 /\ (c < r => yr <= yl) /\ u = yl + 1
    BY <1>4, <1>5, <1>7, <2>2
  <2> QED BY <1>6, <2>1, <2>2
<1>9. FrontAt(u + Extent(s, t, u, u - z), z, r, s, t)
  BY <1>1, <1>8, FrontBetween
<1> QED BY <1>1, <1>9

-------------------------------------------------------------------------------
(* How many edits a list of opcodes says. *)

\* How many one of them says.
EditsIn(op) == IF op.tag = "equal" THEN 0 ELSE op.i2 - op.i1 + op.j2 - op.j1

\* Sums of the same numbers are the same.
LEMMA SumsAgree ==
  ASSUME NEW m \in Nat, NEW n \in Nat, m <= n, NEW x, NEW c1, NEW c2, NEW f, NEW g,
         Sums(f, x, c1, m), Sums(g, x, c2, n), \A e \in 1..m : c1[e] = c2[e]
  PROVE  f[m] = g[m]
<1> DEFINE R == {e \in 0..m : f[e] = g[e]}
<1>1. 0 \in R
  BY SumStep
<1>2. ASSUME NEW e \in 0..(m - 1), e \in R PROVE e + 1 \in R
  <2>1. e \in 0..(n - 1) /\ e + 1 \in 1..m /\ e + 1 \in 0..m
    OBVIOUS
  <2>2. f[e + 1] = f[e] + c1[e + 1]
    BY SumStep
  <2>3. g[e + 1] = g[e] + c2[e + 1]
    BY <2>1, SumStep
  <2> QED BY <1>2, <2>1, <2>2, <2>3
<1> HIDE DEF R
<1>3. m \in R
  <2>1. \A e \in 0..(m - 1) : e \in R => e + 1 \in R
    BY <1>2
  <2>2. \A e \in 0..m : e \in R
    BY <1>1, <2>1, InductionUpTo
  <2> QED BY <2>2
<1> QED BY <1>3 DEF R

\* The numbers of edits, opcode by opcode.
Costs(said) == [e \in 1..Len(said) |-> EditsIn(said[e])]

\* What EditsOf sums up.
LEMMA EditsAreSums ==
  ASSUME NEW said \in Seq(OpcodeSet)
  PROVE  \E f : Sums(f, 0, Costs(said), Len(said)) /\ EditsOf(said) = f[Len(said)]
<1>1. PICK n \in Nat : n = Len(said)
  OBVIOUS
<1>2. \A op \in OpcodeSet : EditsIn(op) \in Int
  BY DEF EditsIn, OpcodeSet
<1>3. Costs(said) \in [1..n -> Int] /\ \A e \in 1..n : Costs(said)[e] = EditsIn(said[e])
  <2>1. \A e \in 1..n : said[e] \in OpcodeSet
    BY <1>1, ElementOfSeq
  <2> QED BY <1>1, <1>2, <2>1 DEF Costs
<1> DEFINE By(f) == [e \in 0..n |-> IF e = 0 THEN 0 ELSE f[e - 1] + EditsIn(said[e])]
           upTo == CHOOSE f : f = By(f)
<1>4. EditsOf(said) = upTo[n]
  BY <1>1 DEF EditsOf, EditsIn
<1>5. \E f : f = By(f)
  <2>1. PICK f : Sums(f, 0, Costs(said), n)
    BY <1>3, RunningSum
  <2>2. /\ f \in [0..n -> Int] /\ f[0] = 0
        /\ \A e \in 1..n : f[e] = f[e - 1] + Costs(said)[e]
    BY <2>1 DEF Sums
  <2>3. \A e \in 0..n : f[e] = IF e = 0 THEN 0 ELSE f[e - 1] + EditsIn(said[e])
    BY <1>3, <2>2
  <2> QED BY <2>2, <2>3
<1>6. upTo = By(upTo)
  BY <1>5
<1> HIDE DEF upTo
<1>7. upTo[0] = 0 /\ \A e \in 1..n : upTo[e] = upTo[e - 1] + EditsIn(said[e])
  <2>1. \A e \in 0..n : upTo[e] = IF e = 0 THEN 0 ELSE upTo[e - 1] + EditsIn(said[e])
    BY <1>6
  <2> QED BY <2>1
<1> DEFINE R == {e \in 0..n : upTo[e] \in Int}
<1>8. 0 \in R
  BY <1>7
<1>9. ASSUME NEW e \in 0..(n - 1), e \in R PROVE e + 1 \in R
  <2>1. e + 1 \in 1..n /\ e + 1 \in 0..n /\ (e + 1) - 1 = e
    OBVIOUS
  <2>2. upTo[e + 1] = upTo[e] + EditsIn(said[e + 1])
    BY <1>7, <2>1
  <2>3. EditsIn(said[e + 1]) \in Int /\ upTo[e] \in Int
    BY <1>1, <1>2, <1>9, <2>1, ElementOfSeq
  <2> QED BY <2>1, <2>2, <2>3
<1>10. \A e \in 0..n : upTo[e] \in Int
  <2> HIDE DEF R
  <2>1. \A e \in 0..(n - 1) : e \in R => e + 1 \in R
    BY <1>9
  <2>2. \A e \in 0..n : e \in R
    BY <1>8, <2>1, InductionUpTo
  <2> QED BY <2>2 DEF R
<1>11. upTo \in [0..n -> Int]
  <2>1. upTo = [e \in 0..n |-> upTo[e]]
    BY <1>6
  <2> QED BY <1>10, <2>1
<1>12. Sums(upTo, 0, Costs(said), n)
  BY <1>3, <1>7, <1>11 DEF Sums
<1> QED BY <1>1, <1>4, <1>12

\* They are a number.
LEMMA EditsAreNumber ==
  ASSUME NEW said \in Seq(OpcodeSet)
  PROVE  EditsOf(said) \in Int
<1>1. PICK f : Sums(f, 0, Costs(said), Len(said)) /\ EditsOf(said) = f[Len(said)]
  BY EditsAreSums
<1>2. Len(said) \in Nat
  OBVIOUS
<1>3. \A e \in 0..Len(said) : f[e] \in Int
  BY <1>1, <1>2, SumStep
<1> QED BY <1>1, <1>2, <1>3

\* Nothing said is no edit.
LEMMA NoEdits == EditsOf(<<>>) = 0
<1>1. <<>> \in Seq(OpcodeSet) /\ Len(<<>>) = 0
  OBVIOUS
<1>2. PICK f : Sums(f, 0, Costs(<<>>), 0) /\ EditsOf(<<>>) = f[0]
  BY <1>1, EditsAreSums
<1> QED BY <1>2, SumStep

\* One opcode more says its edits more.
LEMMA EditsOfMore ==
  ASSUME NEW said \in Seq(OpcodeSet), NEW op \in OpcodeSet
  PROVE  EditsOf(said \o <<op>>) = EditsOf(said) + EditsIn(op)
<1> DEFINE more == said \o <<op>>
<1>1. PICK n \in Nat : n = Len(said)
  OBVIOUS
<1>2. /\ more \in Seq(OpcodeSet) /\ Len(more) = n + 1 /\ more[n + 1] = op
      /\ \A e \in 1..n : more[e] = said[e]
  BY <1>1
<1> HIDE DEF more
<1>3. PICK f : Sums(f, 0, Costs(said), n) /\ EditsOf(said) = f[n]
  BY <1>1, EditsAreSums
<1>4. PICK g : Sums(g, 0, Costs(more), n + 1) /\ EditsOf(more) = g[n + 1]
  BY <1>2, EditsAreSums
<1>5. /\ \A e \in 1..n : Costs(said)[e] = Costs(more)[e]
      /\ Costs(more)[n + 1] = EditsIn(op)
  BY <1>1, <1>2 DEF Costs
<1>6. f[n] = g[n]
  <2>1. PICK l \in Nat : l = n + 1 /\ n <= l
    OBVIOUS
  <2>2. Sums(g, 0, Costs(more), l)
    BY <1>4, <2>1
  <2> QED BY <1>3, <1>5, <2>1, <2>2, SumsAgree
<1>7. g[n + 1] = g[n] + Costs(more)[n + 1]
  <2>1. PICK l \in Nat : l = n + 1 /\ n \in 0..(l - 1)
    OBVIOUS
  <2>2. Sums(g, 0, Costs(more), l)
    BY <1>4, <2>1
  <2> QED BY <2>1, <2>2, SumStep
<1> QED BY <1>3, <1>4, <1>5, <1>6, <1>7 DEF more

\* The first opcode says its edits, the others the rest.
LEMMA EditsOfRest ==
  ASSUME NEW said \in Seq(OpcodeSet), said # <<>>
  PROVE  EditsOf(said) = EditsIn(Head(said)) + EditsOf(Tail(said))
<1>1. PICK n \in Nat : n + 1 = Len(said)
  <2>1. PICK m \in Nat \ {0} : m = Len(said)
    BY LenProperties, EmptySeq
  <2>2. m - 1 \in Nat /\ (m - 1) + 1 = m
    OBVIOUS
  <2> QED BY <2>1, <2>2
<1>2. PICK r \in Seq(OpcodeSet) : r = Tail(said)
  BY HeadTailProperties
<1>3. Len(r) = n /\ Head(said) = said[1] /\ \A k \in 1..n : r[k] = said[k + 1]
  BY <1>1, <1>2, HeadTailProperties
<1>4. PICK f : Sums(f, 0, Costs(said), n + 1) /\ EditsOf(said) = f[n + 1]
  BY <1>1, EditsAreSums
<1>5. PICK g : Sums(g, 0, Costs(r), n) /\ EditsOf(r) = g[n]
  BY <1>3, EditsAreSums
<1>6. /\ f[0] = 0 /\ \A k \in 0..(n + 1) : f[k] \in Int
      /\ \A k \in 0..n : f[k + 1] = f[k] + Costs(said)[k + 1]
  <2>1. n + 1 \in Nat /\ (n + 1) - 1 = n
    OBVIOUS
  <2> QED BY <1>4, <2>1, SumStep
<1>7. \A k \in 0..n : k + 1 \in 0..(n + 1) /\ k + 1 \in 1..(n + 1)
  OBVIOUS
<1>8. PICK c \in Int : c = f[1]
  BY <1>6, <1>7
<1>9. c = EditsIn(Head(said))
  <2>1. 0 \in 0..n /\ 0 + 1 = 1 /\ 1 \in 1..(n + 1)
    OBVIOUS
  <2>2. f[1] = f[0] + Costs(said)[1]
    BY <1>6, <2>1
  <2>3. Costs(said)[1] = EditsIn(Head(said))
    BY <1>1, <1>3, <2>1 DEF Costs
  <2>4. EditsIn(Head(said)) \in Int
    <3>1. Head(said) \in OpcodeSet
      BY HeadTailProperties
    <3> QED BY <3>1 DEF EditsIn, OpcodeSet
  <2> QED BY <1>6, <1>8, <2>2, <2>3, <2>4
<1>10. PICK h : h = [k \in 0..n |-> f[k + 1] - c]
  OBVIOUS
<1>11. Sums(h, 0, Costs(r), n)
  <2>1. h \in [0..n -> Int] /\ h[0] = 0
    BY <1>6, <1>7, <1>8, <1>10
  <2>2. ASSUME NEW k \in 0..(n - 1) PROVE h[k + 1] = h[k] + Costs(r)[k + 1]
    <3>1. k \in 0..n /\ k + 1 \in 0..n /\ k + 1 \in 1..n /\ (k + 1) + 1 \in 1..(n + 1)
      OBVIOUS
    <3>2. f[(k + 1) + 1] = f[k + 1] + Costs(said)[(k + 1) + 1]
      BY <1>6, <3>1
    <3>3. Costs(said)[(k + 1) + 1] = EditsIn(said[(k + 1) + 1])
      BY <1>1, <3>1 DEF Costs
    <3>4. Costs(r)[k + 1] = EditsIn(said[(k + 1) + 1])
      BY <1>3, <3>1 DEF Costs
    <3>5. EditsIn(said[(k + 1) + 1]) \in Int
      <4>1. said[(k + 1) + 1] \in OpcodeSet
        BY <1>1, <3>1, ElementOfSeq
      <4> QED BY <4>1, SMTT(60) DEF EditsIn, OpcodeSet
    <3>6. f[k + 1] \in Int
      BY <1>6, <1>7, <3>1
    <3>7. PICK v \in Int, w \in Int : v = f[k + 1] /\ w = EditsIn(said[(k + 1) + 1])
      BY <3>5, <3>6
    <3>8. h[k + 1] = (v + w) - c /\ h[k] = v - c
      BY <1>10, <3>1, <3>2, <3>3, <3>7
    <3> QED BY <3>4, <3>7, <3>8
  <2> QED BY <2>1, <2>2, SumsAre
<1>12. h[n] = g[n]
  <2>1. n <= n
    OBVIOUS
  <2> QED BY <1>5, <1>11, <2>1, SumsAgree
<1>13. f[n + 1] \in Int /\ h[n] = f[n + 1] - c
  BY <1>6, <1>7, <1>10
<1>14. f[n + 1] = c + h[n]
  BY <1>13
<1> QED BY <1>2, <1>4, <1>5, <1>9, <1>12, <1>14

\* What is said of two ranges says as many edits as they have elements.
LEMMA EditsOfChange ==
  ASSUME NEW said \in Seq(OpcodeSet), NEW x \in Nat, NEW x2 \in Nat, NEW y \in Nat,
         NEW y2 \in Nat, x <= x2, y <= y2
  PROVE  EditsOf(said \o Change(x, x2, y, y2)) = EditsOf(said) + (x2 - x) + (y2 - y)
<1>1. PICK e \in Int : e = EditsOf(said)
  BY EditsAreNumber
<1>2. \A tag \in Tags \ {"equal"} :
        /\ Opcode(tag, x, x2, y, y2) \in OpcodeSet
        /\ EditsIn(Opcode(tag, x, x2, y, y2)) = (x2 - x) + (y2 - y)
  BY DEF Opcode, OpcodeSet, EditsIn, Tags
<1>3. \A tag \in Tags \ {"equal"} :
        EditsOf(said \o <<Opcode(tag, x, x2, y, y2)>>) = e + (x2 - x) + (y2 - y)
  <2> SUFFICES ASSUME NEW tag \in Tags \ {"equal"}
               PROVE  EditsOf(said \o <<Opcode(tag, x, x2, y, y2)>>) = e + (x2 - x) + (y2 - y)
    OBVIOUS
  <2>1. PICK op \in OpcodeSet : op = Opcode(tag, x, x2, y, y2)
    BY <1>2
  <2>2. EditsOf(said \o <<op>>) = e + EditsIn(op)
    BY <1>1, EditsOfMore
  <2>3. EditsIn(op) = (x2 - x) + (y2 - y)
    BY <1>2, <2>1
  <2>4. e + ((x2 - x) + (y2 - y)) = e + (x2 - x) + (y2 - y)
    OBVIOUS
  <2> QED BY <2>1, <2>2, <2>3, <2>4
<1>4. CASE x < x2 \/ y < y2
  <2>1. \E tag \in Tags \ {"equal"} : Change(x, x2, y, y2) = <<Opcode(tag, x, x2, y, y2)>>
    BY <1>4 DEF Change, Tags
  <2> QED BY <1>1, <1>3, <2>1
<1>5. CASE ~(x < x2 \/ y < y2)
  <2>1. Change(x, x2, y, y2) = <<>> /\ x = x2 /\ y = y2
    BY <1>5 DEF Change
  <2>2. said \o <<>> = said
    OBVIOUS
  <2>3. e = e + (x2 - x) + (y2 - y)
    BY <2>1
  <2> QED BY <1>1, <2>1, <2>2, <2>3
<1> QED BY <1>4, <1>5

\* What names two ranges of the texts is an opcode.
LEMMA OpcodeTyped ==
  ASSUME NEW tag \in Tags, NEW x \in Nat, NEW x2 \in Nat, NEW y \in Nat, NEW y2 \in Nat
  PROVE  Opcode(tag, x, x2, y, y2) \in OpcodeSet
BY DEF Opcode, OpcodeSet, Tags

\* A run of equals after it says none.
LEMMA EditsOfMatch ==
  ASSUME NEW said \in Seq(OpcodeSet), NEW x \in Nat, NEW x2 \in Nat, NEW y \in Nat,
         NEW y2 \in Nat, x <= x2, y <= y2, NEW op \in OpcodeSet, op.tag = "equal",
         NEW g \in Int, g = EditsOf(said) + (x2 - x) + (y2 - y)
  PROVE  EditsOf(said \o Change(x, x2, y, y2) \o <<op>>) = g
<1>1. PICK more : more = said \o Change(x, x2, y, y2)
  OBVIOUS
<1>2. more \in Seq(OpcodeSet)
  BY <1>1, ChangeIsOpcodes, ConcatProperties
<1>3. EditsIn(op) = 0
  BY DEF EditsIn
<1>4. EditsOf(more) = g
  BY <1>1, EditsOfChange
<1>5. EditsOf(more \o <<op>>) = g + 0
  BY <1>2, <1>3, <1>4, EditsOfMore
<1> QED BY <1>1, <1>5

-------------------------------------------------------------------------------
(* How far a search has come, and how much a replay has left. *)

\* The first q places of a row are as far as its edits lead, and their histories hold so
\* many edits.
Furthermost(F, r, q, s, t) ==
  Fronts(F, r, q, s, t) /\ \A c \in 0..(q - 1) : Len(F[2 * c - r].history) = r

\* One place more.
LEMMA FurthermostGrows ==
  ASSUME NEW s, NEW t, NEW r \in Nat \ {0}, NEW q \in 0..r, NEW P, NEW E, NEW Z,
         NEW F \in [Z -> P], \A c \in 0..r : 2 * c - r \in Z,
         \A c \in 0..(r - 1) : 2 * c - (r - 1) \in Z,
         Furthermost(F, r - 1, r, s, t), Furthermost(F, r, q, s, t),
         NEW G, G = [F EXCEPT ![2 * q - r] = E],
         FrontAt(E.x, 2 * q - r, r, s, t), Len(E.history) = r
  PROVE  Furthermost(G, r - 1, r, s, t) /\ Furthermost(G, r, q + 1, s, t)
<1>1. G[2 * q - r] = E
  BY PlacesStay
<1>2. \A c \in 0..(q - 1) : G[2 * c - r] = F[2 * c - r]
  BY PlacesStay
<1>3. \A c \in 0..(r - 1) : G[2 * c - (r - 1)] = F[2 * c - (r - 1)]
  BY PlacesStay
<1>4. Furthermost(G, r - 1, r, s, t)
  <2> SUFFICES ASSUME NEW c \in 0..(r - 1)
               PROVE  /\ FrontAt(G[2 * c - (r - 1)].x, 2 * c - (r - 1), r - 1, s, t)
                      /\ Len(G[2 * c - (r - 1)].history) = r - 1
    BY DEF Furthermost, Fronts
  <2> QED BY <1>3 DEF Furthermost, Fronts
<1>5. Furthermost(G, r, q + 1, s, t)
  <2> SUFFICES ASSUME NEW c \in 0..((q + 1) - 1)
               PROVE  /\ FrontAt(G[2 * c - r].x, 2 * c - r, r, s, t)
                      /\ Len(G[2 * c - r].history) = r
    BY DEF Furthermost, Fronts
  <2>1. CASE c = q
    BY <1>1, <2>1
  <2>2. CASE c # q
    <3>1. c \in 0..(q - 1)
      BY <2>2
    <3> QED BY <1>2, <3>1 DEF Furthermost, Fronts
  <2> QED BY <2>1, <2>2
<1> QED BY <1>4, <1>5

\* If a whole row is short of the end of both sequences, its edits are too few.
LEMMA RowTooShort ==
  ASSUME NEW s, NEW t, Len(s) \in Nat, Len(t) \in Nat, NEW r \in Nat, NEW F,
         \A c \in 0..r : F[2 * c - r].x \in Int, Short(F, r, r + 1, s, t),
         Fronts(F, r, r + 1, s, t)
  PROVE  LeastEdits(s, t) # r
<1> SUFFICES ASSUME LeastEdits(s, t) = r PROVE FALSE
  OBVIOUS
<1>1. PICK m \in Nat, n \in Nat : m = Len(s) /\ n = Len(t)
  OBVIOUS
<1>2. Least(s, t, m, n) = r
  BY <1>1 DEF Least, LeastEdits
<1>3. PICK c \in 0..r : m - n = 2 * c - r
  <2>1. Deleting(r, m, n)
    BY <1>1, <1>2, LeastDeletes
  <2> QED BY <2>1 DEF Deleting
<1>4. c \in 0..((r + 1) - 1)
  OBVIOUS
<1>5. PICK x \in Int : x = F[2 * c - r].x
  OBVIOUS
<1>6. FrontAt(x, 2 * c - r, r, s, t)
  BY <1>4, <1>5 DEF Fronts
<1>7. m <= x
  <2>1. Least(s, t, m, n) <= r
    BY <1>2
  <2>2. \A p \in 0..m, q \in 0..n :
          p - q = 2 * c - r => (Least(s, t, p, q) <= r <=> p <= x)
    BY <1>1, <1>6 DEF FrontAt
  <2>3. m \in 0..m /\ n \in 0..n
    OBVIOUS
  <2> QED BY <1>3, <2>1, <2>2, <2>3
<1>8. x < m \/ x - (2 * c - r) < n
  BY <1>1, <1>4, <1>5 DEF Short
<1> QED BY <1>3, <1>7, <1>8

\* One edit goes one element on.
LEMMA EditsGoOn ==
  ASSUME NEW w \in Edits
  PROVE  InFirst(w) \in 0..1 /\ InSecond(w) \in 0..1 /\ InFirst(w) + InSecond(w) = 1
BY DEF Edits, InFirst, InSecond

\* Edits that lead to where a run of equals leads are none.
LEMMA NoEditsLeft ==
  ASSUME NEW s, NEW t, Len(s) \in Nat, Len(t) \in Nat, NEW x \in Nat, NEW y \in Nat, NEW h,
         NEW p \in Nat, NEW q \in Nat, LedTo(h, s, t, x, y, p, q),
         p <= x + Extent(s, t, x, y), q <= y + Extent(s, t, x, y)
  PROVE  h = <<>>
<1> SUFFICES ASSUME h # <<>> PROVE FALSE
  OBVIOUS
<1>1. PICK n \in Nat : n = Extent(s, t, x, y)
  BY ExtentAnywhere
<1>2. PICK w \in Edits : w = Head(h)
  <2>1. h \in Seq(Edits)
    BY DEF LedTo
  <2> QED BY <2>1, HeadTailProperties
<1>3. LedTo(Tail(h), s, t, x + n + InFirst(w), y + n + InSecond(w), p, q)
  BY <1>1, <1>2, LedRest
<1>4. PICK u \in Nat, v \in Nat :
        /\ u = x + n + InFirst(w) /\ v = y + n + InSecond(w)
        /\ u + v = x + n + y + n + 1
  <2>1. PICK e1 \in 0..1, e2 \in 0..1 : e1 = InFirst(w) /\ e2 = InSecond(w) /\ e1 + e2 = 1
    BY EditsGoOn
  <2>2. x + n + e1 \in Nat /\ y + n + e2 \in Nat
        /\ (x + n + e1) + (y + n + e2) = x + n + y + n + 1
    BY <2>1
  <2> QED BY <2>1, <2>2
<1>5. LedTo(Tail(h), s, t, u, v, p, q)
  BY <1>3, <1>4
<1>6. PICK l \in Nat : l = Extent(s, t, u, v)
  BY ExtentAnywhere
<1>7. u + l <= p /\ v + l <= q
  BY <1>5, <1>6, LedForward
<1>8. p <= x + n /\ q <= y + n
  BY <1>1
<1>9. u <= p /\ v <= q
  BY <1>7
<1>10. u + v <= x + n + y + n
  BY <1>8, <1>9
<1> QED BY <1>4, <1>10

-------------------------------------------------------------------------------
(* Two searches towards one another: places that have not met. *)

\* The first q places of a row, as far as a search needs to know them that is not the
\* first: c deletions lead there.
Deep(F, r, q) ==
  \A c \in 0..(q - 1) : F[2 * c - r].x \in Nat /\ c <= F[2 * c - r].x

\* On diagonals that face each other, the first p places of a row of one search and the
\* first q of a row of the other leave something of n between them.
Apart(F, r, p, G, o, q, e, n) ==
  \A c \in 0..(p - 1), z \in 0..(q - 1) :
    (2 * c - r) + (2 * z - o) = e => F[2 * c - r].x + G[2 * z - o].x < n

\* Nothing has come beyond row r, but for the entry that the first place is taken from.
Blank(F, h, r) ==
  \A z \in (-h)..(h - 1) : (z < -r \/ r < z) /\ z # 1 => F[z].x = -1

\* The diagonals of a search, none of them unknown.
Spot == [x : Int]

DiagonalSet(h) == [(-h)..(h - 1) -> Spot]

\* What both searches know while the one that begins at the front makes row r.
Ahead(F, G, r, q, h, e, s, t) ==
  /\ F \in DiagonalSet(h) /\ G \in DiagonalSet(h)
  /\ r = 0 => F[1].x = 0 \/ q = 1
  /\ r = 0 => G[1].x = 0
  /\ RowSoFar(F, r, q, s, t) /\ (r > 0 => Row(F, r - 1, s, t))
  /\ Deep(G, r - 1, r) /\ Deep(G, r - 2, r - 1)
  /\ Blank(F, h, r) /\ Blank(G, h, r - 1)
  /\ Apart(F, r - 1, r, G, r - 1, r, e, Len(s))
  /\ Apart(F, r - 1, r, G, r - 2, r - 1, e, Len(s))
  /\ Apart(F, r, q, G, r - 1, r, e, Len(s))

\* And while the one that begins at the end does.
Behind(F, G, r, q, h, e, s, t) ==
  /\ F \in DiagonalSet(h) /\ G \in DiagonalSet(h)
  /\ r = 0 => G[1].x = 0 \/ q = 1
  /\ RowSoFar(F, r, r + 1, s, t) /\ (r > 0 => Row(F, r - 1, s, t))
  /\ Deep(G, r - 1, r) /\ Deep(G, r, q)
  /\ Blank(F, h, r) /\ Blank(G, h, r)
  /\ Apart(F, r - 1, r, G, r - 1, r, e, Len(s))
  /\ Apart(F, r, r + 1, G, r - 1, r, e, Len(s))
  /\ Apart(F, r, r + 1, G, r, q, e, Len(s))

\* The diagonals of a row are there.
LEMMA OnDiagonals ==
  ASSUME NEW h \in Nat, NEW r \in Nat, r < h
  PROVE  /\ \A c \in 0..r : 2 * c - r \in (-h)..(h - 1)
         /\ \A c \in 0..(r - 1) : 2 * c - (r - 1) \in (-h)..(h - 1)
OBVIOUS

\* Place q of row r becomes E.
Placed(F, G, r, q, E) == G = [F EXCEPT ![2 * q - r] = E]

\* The others stay, those of the row before, too.
Alone(F, G, r, q, E, h) ==
  /\ G \in DiagonalSet(h)
  /\ G[2 * q - r] = E
  /\ \A c \in 0..r : c # q => G[2 * c - r] = F[2 * c - r]
  /\ \A c \in 0..(r - 1) : G[2 * c - (r - 1)] = F[2 * c - (r - 1)]
  /\ \A z \in (-h)..(h - 1) : z < -r \/ r < z => G[z] = F[z]

\* A place changes alone.
LEMMA PlaceAlone ==
  ASSUME NEW h \in Nat, NEW r \in Nat, r < h, NEW q \in 0..r, NEW E \in Spot,
         NEW F \in DiagonalSet(h), NEW G, Placed(F, G, r, q, E)
  PROVE  Alone(F, G, r, q, E, h)
<1> DEFINE l == 2 * q - r
<1>1. l \in (-h)..(h - 1) /\ l \in (-r)..r
  OBVIOUS
<1>2. G \in DiagonalSet(h) /\ G[l] = E /\ \A z \in (-h)..(h - 1) : z # l => G[z] = F[z]
  <2>1. G = [F EXCEPT ![l] = E]
    BY DEF Placed
  <2> HIDE DEF l
  <2> QED BY <1>1, <2>1 DEF DiagonalSet
<1>3. \A c \in 0..r : c # q => 2 * c - r # l
  OBVIOUS
<1>4. \A c \in 0..(r - 1) : 2 * c - (r - 1) # l
  OBVIOUS
<1>5. \A z \in (-h)..(h - 1) : z < -r \/ r < z => z # l
  BY <1>1
<1> HIDE DEF l
<1>6. \A c \in 0..r : c # q => G[2 * c - r] = F[2 * c - r]
  BY <1>2, <1>3, OnDiagonals
<1>7. \A c \in 0..(r - 1) : G[2 * c - (r - 1)] = F[2 * c - (r - 1)]
  BY <1>2, <1>4, OnDiagonals
<1>8. \A z \in (-h)..(h - 1) : z < -r \/ r < z => G[z] = F[z]
  BY <1>2, <1>5
<1> QED BY <1>2, <1>6, <1>7, <1>8 DEF l, Alone

\* Of searches that have not met, the first has not come to the end.
LEMMA NotAtEnd ==
  ASSUME NEW s, NEW t, Len(s) \in Nat, Len(t) \in Nat, NEW r \in Nat \ {0}, NEW F, NEW G,
         Row(F, r - 1, s, t), Deep(G, r - 1, r), Deep(G, r - 2, r - 1),
         Apart(F, r - 1, r, G, r - 1, r, Len(s) - Len(t), Len(s)),
         Apart(F, r - 1, r, G, r - 2, r - 1, Len(s) - Len(t), Len(s))
  PROVE  Short(F, r - 1, r, s, t)
<1> SUFFICES ASSUME NEW c \in 0..(r - 1),
                    ~(F[2 * c - (r - 1)].x < Len(s)
                        \/ F[2 * c - (r - 1)].x - (2 * c - (r - 1)) < Len(t))
             PROVE  FALSE
  BY DEF Short
<1>1. PICK x \in Nat : x = F[2 * c - (r - 1)].x
  BY DEF Row, Reached
<1>2. x = Len(s) /\ x - (2 * c - (r - 1)) = Len(t)
  <2>1. Reached(F, r - 1, c, s, t)
    BY DEF Row
  <2>2. x >= Len(s) /\ x - (2 * c - (r - 1)) >= Len(t)
    BY <1>1
  <2> QED BY <1>1, <2>1, <2>2 DEF Reached
<1>3. ASSUME NEW o \in {r - 1, r - 2}, NEW z \in 0..o, 2 * z = o,
             Deep(G, o, o + 1), Apart(F, r - 1, r, G, o, o + 1, Len(s) - Len(t), Len(s))
      PROVE  FALSE
  <2>1. (2 * c - (r - 1)) + (2 * z - o) = Len(s) - Len(t)
    BY <1>2, <1>3
  <2>2. z \in 0..((o + 1) - 1)
    BY <1>3
  <2>3. PICK y \in Nat : y = G[2 * z - o].x
    BY <1>3, <2>2 DEF Deep
  <2>4. F[2 * c - (r - 1)].x + G[2 * z - o].x < Len(s)
    BY <1>3, <2>1, <2>2 DEF Apart
  <2> QED BY <1>1, <1>2, <2>3, <2>4
<1>4. (r - 1) + 1 = r /\ (r - 2) + 1 = r - 1
  OBVIOUS
<1>5. CASE \E z \in 0..(r - 1) : 2 * z = r - 1
  BY <1>3, <1>4, <1>5
<1>6. CASE \E z \in 0..(r - 2) : 2 * z = r - 2
  BY <1>3, <1>4, <1>6
<1>7. (\E z \in 0..(r - 1) : 2 * z = r - 1) \/ (\E z \in 0..(r - 2) : 2 * z = r - 2)
  <2>1. (r - 1) % 2 = 0 \/ (r - 1) % 2 = 1
    OBVIOUS
  <2>2. CASE (r - 1) % 2 = 0
    <3>1. (r - 1) \div 2 \in 0..(r - 1) /\ 2 * ((r - 1) \div 2) = r - 1
      BY <2>2
    <3> QED BY <3>1
  <2>3. CASE (r - 1) % 2 = 1
    <3>1. (r - 2) \div 2 \in 0..(r - 2) /\ 2 * ((r - 2) \div 2) = r - 2
      BY <2>3
    <3> QED BY <3>1
  <2> QED BY <2>1, <2>2, <2>3
<1> QED BY <1>5, <1>6, <1>7

\* Diagonal z of the other search is the one that faces c deletions in row r.
Facing(c, r, z, w) == (2 * c - r) + z = w

\* Past the end of both sequences there is only the end of both.
Stops(c, r, x, n, m) == x >= n /\ x - (2 * c - r) >= m => x = n /\ x - (2 * c - r) = m

\* Within both sequences.
Inside(x, y, n, m) == x \in 0..n /\ y \in 0..m

\* An odd number.
LEMMA OddIs ==
  ASSUME NEW w \in Int, w % 2 # 0
  PROVE  \E l \in Int : w = 2 * l + 1
<1>1. PICK q \in Int : w = (2 * q) + (w % 2)
  BY RemainderIs
<1>2. (w % 2) \in 0..1
  OBVIOUS
<1>3. PICK r \in Int : r = w % 2
  BY <1>2
<1>4. r = 1
  BY <1>2, <1>3
<1>5. w = (2 * q) + 1
  BY <1>1, <1>3, <1>4
<1> QED BY <1>5

\* Where the first search meets the other one is within both sequences: past the end of
\* one of them, the place it came from would have met the other search a row ago.
LEMMA AheadInside ==
  ASSUME NEW s, NEW t, NEW n \in Nat, NEW m \in Nat, n = Len(s), m = Len(t),
         NEW r \in Nat, NEW c \in 0..r, NEW h, NEW F, NEW G, NEW w, w = n - m,
         Ahead(F, G, r, c, h, w, s, t), w % 2 # 0,
         NEW z \in (-h)..(h - 1), Facing(c, r, z, w), G[z].x # -1,
         NEW x \in Nat, Stops(c, r, x, n, m), Beside(F, r, c, x, s, t)
  PROVE  x <= n /\ x - (2 * c - r) <= m
<1> USE DEF Facing, Stops
<1>1. -(r - 1) <= z /\ (z <= r - 1 \/ z = 1)
  <2>1. z # 1 => ~(z < -(r - 1) \/ r - 1 < z)
    BY DEF Ahead, Blank
  <2>2. z = 1 => -(r - 1) <= z
    OBVIOUS
  <2> QED BY <2>1, <2>2
<1>2. PICK l \in Int : w = 2 * l + 1
  <2>1. w \in Int
    OBVIOUS
  <2> QED BY <2>1, OddIs, Zenon
<1>3. x <= n
  <2> SUFFICES ASSUME n < x PROVE FALSE
    OBVIOUS
  <2>1. c > 0 /\ x <= F[2 * c - r - 1].x + 1
    BY DEF Beside
  <2>2. x - (2 * c - r) < m
    OBVIOUS
  <2>3. z < 0
    BY <2>2
  <2>4. r >= 2
    BY <1>1, <2>3
  <2>5. PICK g \in 0..((r - 1) - 1) : 2 * g - (r - 2) = z + 1
    <3>1. PICK g \in Int : g = l - c + r
      OBVIOUS
    <3>2. (2 * c - r) + z = 2 * l + 1
      BY <1>2
    <3>3. 2 * g = z + r - 1
      BY <3>1, <3>2
    <3>4. g \in 0..((r - 1) - 1)
      BY <1>1, <2>3, <2>4, <3>3
    <3> QED BY <3>3, <3>4
  <2>10. /\ c - 1 \in 0..(r - 1) /\ 2 * (c - 1) - (r - 1) = 2 * c - r - 1
         /\ (2 * (c - 1) - (r - 1)) + (2 * g - (r - 2)) = w
    <3>1. 2 * (c - 1) - (r - 1) = 2 * c - r - 1
      OBVIOUS
    <3> QED BY <2>1, <2>5, <3>1, SMTT(60)
  <2>6. PICK y \in Nat : y = G[2 * g - (r - 2)].x
    BY <2>5, <2>10 DEF Ahead, Deep
  <2>7. PICK v \in Nat : v = F[2 * (c - 1) - (r - 1)].x
    <3>1. Row(F, r - 1, s, t)
      BY <2>4 DEF Ahead
    <3> QED BY <2>5, <2>10, <3>1 DEF Row, Reached
  <2>8. v + y < n
    <3>1. Apart(F, r - 1, r, G, r - 2, r - 1, w, n)
      BY DEF Ahead
    <3> QED BY <2>5, <2>6, <2>7, <2>10, <3>1 DEF Apart
  <2>9. x <= v + 1
    BY <2>1, <2>5, <2>7, <2>10
  <2> QED BY <2>8, <2>9
<1>4. x - (2 * c - r) <= m
  <2> SUFFICES ASSUME m < x - (2 * c - r) PROVE FALSE
    OBVIOUS
  <2>1. c < r /\ x <= F[2 * c - r + 1].x
    BY DEF Beside
  <2>2. x < n
    OBVIOUS
  <2>3. z > 0
    BY <2>2
  <2>4. r >= 2 /\ z <= r - 1
    BY <1>1, <1>2, <2>1, <2>3
  <2>5. PICK g \in 0..((r - 1) - 1) : 2 * g - (r - 2) = z - 1
    <3>1. PICK g \in Int : g = (l - c + r) - 1
      OBVIOUS
    <3>2. (2 * c - r) + z = 2 * l + 1
      BY <1>2
    <3>3. 2 * g = z + r - 3
      BY <3>1, <3>2
    <3>4. g \in 0..((r - 1) - 1)
      BY <1>1, <2>3, <2>4, <3>3
    <3> QED BY <3>3, <3>4, SMTT(30)
  <2>11. /\ c \in 0..(r - 1) /\ 2 * c - (r - 1) = 2 * c - r + 1
         /\ (2 * c - (r - 1)) + (2 * g - (r - 2)) = w
    <3>1. 2 * c - (r - 1) = 2 * c - r + 1
      OBVIOUS
    <3> QED BY <2>1, <2>5, <3>1, SMTT(30)
  <2>6. PICK y \in Nat : y = G[2 * g - (r - 2)].x /\ g <= y
    BY <2>5, <2>11 DEF Ahead, Deep
  <2>7. PICK v \in Nat : v = F[2 * c - (r - 1)].x
    <3>1. Row(F, r - 1, s, t)
      BY <2>4 DEF Ahead
    <3> QED BY <2>5, <2>11, <3>1 DEF Row, Reached
  <2>8. v + y < n
    <3>1. Apart(F, r - 1, r, G, r - 2, r - 1, w, n)
      BY DEF Ahead
    <3> QED BY <2>5, <2>6, <2>7, <2>11, <3>1 DEF Apart
  <2>9. x <= v
    BY <2>1, <2>5, <2>7, <2>11
  <2>10. y >= z - 1
    BY <2>5, <2>6, SMTT(30)
  <2> QED BY <2>8, <2>9, <2>10
<1> QED BY <1>3, <1>4

\* So is where the other one meets the first.
LEMMA BehindInside ==
  ASSUME NEW s, NEW t, NEW n \in Nat, NEW m \in Nat, n = Len(s), m = Len(t),
         NEW r \in Nat, NEW c \in 0..r, NEW h, NEW F, NEW G, NEW w, w = n - m,
         Behind(F, G, r, c, h, w, s, t), w % 2 = 0,
         NEW z \in (-h)..(h - 1), Facing(c, r, z, w), NEW e, e = F[z].x, e # -1
  PROVE  Inside(e, e - z, n, m)
<1> USE DEF Facing
<1>1. PICK l \in Int : w = 2 * l
  <2>1. w = 2 * (w \div 2) /\ w \div 2 \in Int
    OBVIOUS
  <2> QED BY <2>1
<1>2. z \in (-r)..r
  <2>1. z # 1 => ~(z < -r \/ r < z)
    BY DEF Behind, Blank
  <2>2. z = 1 /\ r = 0 => FALSE
    BY <1>1
  <2> QED BY <2>1, <2>2
<1> DEFINE g == l - c + r
<1>3. g \in 0..r /\ 2 * g - r = z /\ g \in 0..((r + 1) - 1)
  BY <1>1, <1>2
<1> HIDE DEF g
<1>4. Reached(F, r, g, s, t) /\ Beside(F, r, g, F[2 * g - r].x, s, t)
  BY <1>3 DEF Behind, RowSoFar
<1>5. PICK x \in Nat : x = F[2 * g - r].x /\ g <= x
  BY <1>4 DEF Reached
<1>6. x - z \in Nat
  BY <1>3, <1>5
<1>7. x >= n /\ x - z >= m => x = n /\ x - z = m
  BY <1>3, <1>4, <1>5 DEF Reached
<1>8. x <= n
  <2> SUFFICES ASSUME n < x PROVE FALSE
    OBVIOUS
  <2>1. g > 0 /\ x <= F[2 * g - r - 1].x + 1
    BY <1>4, <1>5 DEF Beside
  <2>2. x - z < m
    BY <1>7
  <2>3. 2 * c - r < 0
    BY <2>2
  <2>4. /\ c \in 0..(r - 1) /\ g - 1 \in 0..(r - 1) /\ r > 0
        /\ 2 * (g - 1) - (r - 1) = 2 * g - r - 1
        /\ (2 * (g - 1) - (r - 1)) + (2 * c - (r - 1)) = w
    BY <1>3, <2>1, <2>3, SMTT(30)
  <2>5. PICK y \in Nat : y = G[2 * c - (r - 1)].x
    BY <2>4 DEF Behind, Deep
  <2>6. PICK v \in Nat : v = F[2 * (g - 1) - (r - 1)].x
    BY <2>4 DEF Behind, Row, Reached
  <2>7. v + y < n
    <3>1. Apart(F, r - 1, r, G, r - 1, r, w, n)
      BY DEF Behind
    <3> QED BY <2>4, <2>5, <2>6, <3>1 DEF Apart
  <2>8. x <= v + 1
    BY <2>1, <2>4, <2>6
  <2> QED BY <2>7, <2>8
<1>9. x - z <= m
  <2> SUFFICES ASSUME m < x - z PROVE FALSE
    OBVIOUS
  <2>1. g < r /\ x <= F[2 * g - r + 1].x
    BY <1>3, <1>4, <1>5 DEF Beside
  <2>2. x < n
    BY <1>7
  <2>3. 2 * c - r > 0
    BY <2>2
  <2>4. /\ c - 1 \in 0..(r - 1) /\ g \in 0..(r - 1) /\ r > 0
        /\ 2 * g - (r - 1) = 2 * g - r + 1
        /\ (2 * g - (r - 1)) + (2 * (c - 1) - (r - 1)) = w
    BY <1>3, <2>1, <2>3, SMTT(60)
  <2>5. PICK y \in Nat : y = G[2 * (c - 1) - (r - 1)].x /\ c - 1 <= y
    BY <2>4 DEF Behind, Deep
  <2>6. PICK v \in Nat : v = F[2 * g - (r - 1)].x
    BY <2>4 DEF Behind, Row, Reached
  <2>7. v + y < n
    <3>1. Apart(F, r - 1, r, G, r - 1, r, w, n)
      BY DEF Behind
    <3> QED BY <2>4, <2>5, <2>6, <3>1 DEF Apart
  <2>8. x <= v
    BY <2>1, <2>4, <2>6
  <2>9. y >= (2 * c - r) - 1
    BY <2>5
  <2> QED BY <1>3, <2>7, <2>8, <2>9
<1>10. e = x
  BY <1>3, <1>5
<1>11. x \in 0..n /\ x - z \in 0..m
  BY <1>6, <1>8, <1>9
<1> QED BY <1>10, <1>11 DEF Inside

\* At x, with c deletions in row r, a search leaves something of n before the places of
\* the other that it faces: those of the row before, or of its row.
AheadFree(G, r, c, x, w, n) ==
  \A l \in 0..(r - 1) : (2 * c - r) + (2 * l - (r - 1)) = w => x + G[2 * l - (r - 1)].x < n

BehindFree(F, r, c, x, w, n) ==
  \A l \in 0..r : (2 * l - r) + (2 * c - r) = w => F[2 * l - r].x + x < n

\* One more place of the first search, if it does not meet the other.
LEMMA AheadGrows ==
  ASSUME NEW s, NEW t, Len(s) \in Nat, Len(t) \in Nat, NEW h \in Nat, NEW r \in Nat, r < h,
         NEW c \in 0..r, NEW F, NEW G, NEW w, w = Len(s) - Len(t),
         Ahead(F, G, r, c, h, w, s, t), NEW E \in Spot, NEW H, Placed(F, H, r, c, E),
         E.x \in Nat, E.x - (2 * c - r) \in Nat, c <= E.x,
         E.x >= Len(s) /\ E.x - (2 * c - r) >= Len(t) =>
           E.x = Len(s) /\ E.x - (2 * c - r) = Len(t),
         Beside(F, r, c, E.x, s, t),
         AheadFree(G, r, c, E.x, w, Len(s))
  PROVE  Ahead(H, G, r, c + 1, h, w, s, t)
<1>0. F \in DiagonalSet(h) /\ G \in DiagonalSet(h)
  BY DEF Ahead
<1>1. /\ H \in DiagonalSet(h)
      /\ H[2 * c - r] = E
      /\ \A g \in 0..r : g # c => H[2 * g - r] = F[2 * g - r]
      /\ \A g \in 0..(r - 1) : H[2 * g - (r - 1)] = F[2 * g - (r - 1)]
      /\ \A g \in (-h)..(h - 1) : g < -r \/ r < g => H[g] = F[g]
  <2>1. Alone(F, H, r, c, E, h)
    BY <1>0, PlaceAlone
  <2> QED BY <2>1 DEF Alone
<1>2. Blank(H, h, r)
  BY <1>1 DEF Ahead, Blank
<1>3. (r > 0 => Row(H, r - 1, s, t)) /\ RowSoFar(H, r, c + 1, s, t)
  <2>1. Reached(H, r, c, s, t)
    BY <1>1 DEF Reached
  <2>2. CASE r = 0
    <3>1. c = 0 /\ H[2 * 0 - 0] = E /\ Reached(H, 0, 0, s, t) /\ Beside(F, 0, 0, E.x, s, t)
      BY <1>1, <2>1, <2>2
    <3>2. Beside(H, 0, 0, E.x, s, t)
      BY <3>1 DEF Beside
    <3>3. \A g \in 0..((0 + 1) - 1) : g = 0
      OBVIOUS
    <3>4. RowSoFar(H, 0, 0 + 1, s, t)
      BY <3>1, <3>2, <3>3 DEF RowSoFar
    <3> QED BY <2>2, <3>1, <3>4
  <2>3. CASE r # 0
    <3> DEFINE Z == (-h)..(h - 1)
    <3>1. r \in Nat \ {0} /\ F \in [Z -> Spot]
      BY <1>0, <2>3 DEF DiagonalSet
    <3>2. (\A g \in 0..r : 2 * g - r \in Z) /\ (\A g \in 0..(r - 1) : 2 * g - (r - 1) \in Z)
      BY OnDiagonals
    <3>3. Row(F, r - 1, s, t) /\ RowSoFar(F, r, c, s, t)
      BY <2>3 DEF Ahead
    <3> HIDE DEF Z
    <3>4. Row(H, r - 1, s, t) /\ RowSoFar(H, r, c + 1, s, t)
      BY <2>1, <3>1, <3>2, <3>3, RowGrows DEF Placed
    <3> QED BY <3>4
  <2> QED BY <2>2, <2>3
<1>4. /\ Apart(H, r - 1, r, G, r - 1, r, w, Len(s))
      /\ Apart(H, r - 1, r, G, r - 2, r - 1, w, Len(s))
  BY <1>1 DEF Ahead, Apart
<1>5. Apart(H, r, c + 1, G, r - 1, r, w, Len(s))
  <2> SUFFICES ASSUME NEW g \in 0..((c + 1) - 1), NEW l \in 0..(r - 1),
                      (2 * g - r) + (2 * l - (r - 1)) = w
               PROVE  H[2 * g - r].x + G[2 * l - (r - 1)].x < Len(s)
    BY DEF Apart
  <2>1. CASE g # c
    <3>1. g \in 0..(c - 1) /\ g \in 0..r
      BY <2>1
    <3>2. F[2 * g - r].x + G[2 * l - (r - 1)].x < Len(s)
      BY <3>1 DEF Ahead, Apart
    <3> QED BY <1>1, <2>1, <3>1, <3>2
  <2>2. CASE g = c
    <3>1. E.x + G[2 * l - (r - 1)].x < Len(s)
      BY <2>2 DEF AheadFree
    <3> QED BY <1>1, <2>2, <3>1
  <2> QED BY <2>1, <2>2
<1>6. r = 0 => G[1].x = 0 /\ c + 1 = 1
  BY DEF Ahead
<1> QED BY <1>0, <1>1, <1>2, <1>3, <1>4, <1>5, <1>6 DEF Ahead

\* One more place of the other one.
LEMMA BehindGrows ==
  ASSUME NEW s, NEW t, Len(s) \in Nat, Len(t) \in Nat, NEW h \in Nat, NEW r \in Nat, r < h,
         NEW c \in 0..r, NEW F, NEW G, NEW w, w = Len(s) - Len(t),
         Behind(F, G, r, c, h, w, s, t), NEW E \in Spot, NEW H, Placed(G, H, r, c, E),
         E.x \in Nat, c <= E.x,
         BehindFree(F, r, c, E.x, w, Len(s))
  PROVE  Behind(F, H, r, c + 1, h, w, s, t)
<1>0. F \in DiagonalSet(h) /\ G \in DiagonalSet(h)
  BY DEF Behind
<1>1. /\ H \in DiagonalSet(h)
      /\ H[2 * c - r] = E
      /\ \A g \in 0..r : g # c => H[2 * g - r] = G[2 * g - r]
      /\ \A g \in 0..(r - 1) : H[2 * g - (r - 1)] = G[2 * g - (r - 1)]
      /\ \A g \in (-h)..(h - 1) : g < -r \/ r < g => H[g] = G[g]
  <2>1. Alone(G, H, r, c, E, h)
    BY <1>0, PlaceAlone
  <2> QED BY <2>1 DEF Alone
<1>2. Blank(H, h, r)
  BY <1>1 DEF Behind, Blank
<1>3. Deep(H, r - 1, r) /\ Deep(H, r, c + 1)
  <2>1. Deep(H, r - 1, r)
    BY <1>1 DEF Behind, Deep
  <2>2. ASSUME NEW g \in 0..((c + 1) - 1)
        PROVE  H[2 * g - r].x \in Nat /\ g <= H[2 * g - r].x
    <3>1. CASE g = c
      BY <1>1, <3>1
    <3>2. CASE g # c
      <4>1. g \in 0..(c - 1) /\ g \in 0..r
        BY <3>2
      <4>2. G[2 * g - r].x \in Nat /\ g <= G[2 * g - r].x
        BY <4>1 DEF Behind, Deep
      <4> QED BY <1>1, <3>2, <4>1, <4>2
    <3> QED BY <3>1, <3>2
  <2>3. Deep(H, r, c + 1)
    BY <2>2 DEF Deep
  <2> QED BY <2>1, <2>3
<1>4. /\ Apart(F, r - 1, r, H, r - 1, r, w, Len(s))
      /\ Apart(F, r, r + 1, H, r - 1, r, w, Len(s))
  BY <1>1 DEF Behind, Apart
<1>5. Apart(F, r, r + 1, H, r, c + 1, w, Len(s))
  <2> SUFFICES ASSUME NEW l \in 0..((r + 1) - 1), NEW g \in 0..((c + 1) - 1),
                      (2 * l - r) + (2 * g - r) = w
               PROVE  F[2 * l - r].x + H[2 * g - r].x < Len(s)
    BY DEF Apart
  <2>1. CASE g # c
    <3>1. g \in 0..(c - 1) /\ g \in 0..r
      BY <2>1
    <3>2. F[2 * l - r].x + G[2 * g - r].x < Len(s)
      BY <3>1 DEF Behind, Apart
    <3> QED BY <1>1, <2>1, <3>1, <3>2
  <2>2. CASE g = c
    <3>1. F[2 * l - r].x + E.x < Len(s)
      BY <2>2 DEF BehindFree
    <3> QED BY <1>1, <2>2, <3>1
  <2> QED BY <2>1, <2>2
<1>6. r = 0 => c + 1 = 1
  OBVIOUS
<1> QED BY <1>0, <1>1, <1>2, <1>3, <1>4, <1>5, <1>6 DEF Behind

\* After a row of the first search, the other one makes its own.
LEMMA AheadToBehind ==
  ASSUME NEW s, NEW t, NEW h \in Nat, NEW r \in Nat, NEW F, NEW G, NEW w,
         Ahead(F, G, r, r + 1, h, w, s, t)
  PROVE  Behind(F, G, r, 0, h, w, s, t)
<1>1. Blank(G, h, r)
  <2>1. \A z \in (-h)..(h - 1) : z < -r \/ r < z => z < -(r - 1) \/ r - 1 < z
    OBVIOUS
  <2> QED BY <2>1 DEF Ahead, Blank
<1>2. Deep(G, r, 0)
  BY DEF Deep
<1>3. Apart(F, r, r + 1, G, r, 0, w, Len(s))
  BY DEF Apart
<1> QED BY <1>1, <1>2, <1>3 DEF Ahead, Behind

\* Then both begin the next.
LEMMA BehindToAhead ==
  ASSUME NEW s, NEW t, Len(s) \in Nat, Len(t) \in Nat, NEW h \in Nat, NEW r \in Nat, NEW F, NEW G,
         NEW w, Behind(F, G, r, r + 1, h, w, s, t)
  PROVE  Ahead(F, G, r + 1, 0, h, w, s, t)
<1>0. (r + 1) - 1 = r /\ (r + 1) - 2 = r - 1 /\ r + 1 # 0
  OBVIOUS
<1>1. Row(F, r, s, t)
  <2>1. RowSoFar(F, r, r + 1, s, t)
    BY DEF Behind
  <2>2. CASE r # 0
    <3>1. Row(F, r - 1, s, t)
      BY <2>2 DEF Behind
    <3> QED BY <2>1, <2>2, <3>1, RowEnds
  <2>3. CASE r = 0
    <3>1. Reached(F, 0, 0, s, t) /\ Beside(F, 0, 0, F[2 * 0 - 0].x, s, t)
      BY <2>1, <2>3 DEF RowSoFar
    <3>2. \A c \in 0..0 : c = 0
      OBVIOUS
    <3>3. Row(F, 0, s, t)
      BY <3>1, <3>2 DEF Row, Beside
    <3> QED BY <2>3, <3>3
  <2> QED BY <2>2, <2>3
<1>2. RowSoFar(F, r + 1, 0, s, t)
  BY DEF RowSoFar
<1>3. Blank(F, h, r + 1)
  <2>1. \A z \in (-h)..(h - 1) : z < -(r + 1) \/ r + 1 < z => z < -r \/ r < z
    OBVIOUS
  <2> QED BY <2>1 DEF Behind, Blank
<1>4. Apart(F, r + 1, 0, G, r, r + 1, w, Len(s))
  BY DEF Apart
<1> QED BY <1>0, <1>1, <1>2, <1>3, <1>4 DEF Behind, Ahead

ArraySet(h) == [0..(2 * h - 1) -> Int]

\* The diagonals that an array of the engine holds.
Places(v, h) == [z \in (-h)..(h - 1) |-> [x |-> v[h + z]]]

\* They are diagonals, each as far as its element.
LEMMA PlacesAre ==
  ASSUME NEW h \in Nat, NEW v \in ArraySet(h)
  PROVE  /\ Places(v, h) \in DiagonalSet(h)
         /\ \A z \in (-h)..(h - 1) : Places(v, h)[z].x = v[h + z] /\ v[h + z] \in Int
<1>1. \A z \in (-h)..(h - 1) : h + z \in 0..(2 * h - 1)
  OBVIOUS
<1>2. \A z \in (-h)..(h - 1) : v[h + z] \in Int
  BY <1>1 DEF ArraySet
<1>3. \A z \in (-h)..(h - 1) : [x |-> v[h + z]] \in Spot
  BY <1>2 DEF Spot
<1>4. \A z \in (-h)..(h - 1) : Places(v, h)[z] = [x |-> v[h + z]]
  BY DEF Places
<1>5. Places(v, h) \in DiagonalSet(h)
  BY <1>3 DEF Places, DiagonalSet
<1>6. \A z \in (-h)..(h - 1) : Places(v, h)[z].x = v[h + z]
  <2> SUFFICES ASSUME NEW z \in (-h)..(h - 1) PROVE Places(v, h)[z].x = v[h + z]
    OBVIOUS
  <2>1. PICK y : y = v[h + z]
    OBVIOUS
  <2>2. Places(v, h)[z] = [x |-> y]
    BY <1>4, <2>1
  <2> QED BY <2>1, <2>2
<1> QED BY <1>2, <1>5, <1>6

\* What is put into the array is put there.
Put(v, w, h, z, x) == w = [v EXCEPT ![h + z] = x]

\* Diagonal z is the one of c deletions in row r.
OnRow(z, c, r) == z = 2 * c - r

\* It is placed on its diagonal, and the others stay.
LEMMA PlacePut ==
  ASSUME NEW h \in Nat, NEW v \in ArraySet(h), NEW r \in Nat, r < h, NEW q \in 0..r, NEW x \in Int,
         NEW l, OnRow(l, q, r), NEW w, Put(v, w, h, l, x), NEW E, E = [x |-> x]
  PROVE  /\ w \in ArraySet(h) /\ E \in Spot /\ E.x = x
         /\ Placed(Places(v, h), Places(w, h), r, q, E)
<1>0. l = 2 * q - r
  BY DEF OnRow
<1>1. l \in (-h)..(h - 1) /\ h + l \in 0..(2 * h - 1)
  BY <1>0
<1>2. w = [v EXCEPT ![h + l] = x]
  BY DEF Put
<1>3. w \in ArraySet(h) /\ w[h + l] = x /\ \A z \in 0..(2 * h - 1) : z # h + l => w[z] = v[z]
  BY <1>1, <1>2 DEF ArraySet
<1>4. E \in Spot /\ E.x = x
  BY DEF Spot
<1> DEFINE F == Places(v, h)
           G == Places(w, h)
<1>5. DOMAIN F = (-h)..(h - 1) /\ F \in DiagonalSet(h) /\ G \in DiagonalSet(h)
  BY <1>3, PlacesAre DEF Places
<1>6. G[l] = E
  BY <1>1, <1>3 DEF Places
<1>7. \A z \in (-h)..(h - 1) : z # l => G[z] = F[z]
  <2> SUFFICES ASSUME NEW z \in (-h)..(h - 1), z # l PROVE G[z] = F[z]
    OBVIOUS
  <2>1. h + z \in 0..(2 * h - 1) /\ h + z # h + l
    BY <1>1
  <2>2. w[h + z] = v[h + z]
    BY <1>3, <2>1
  <2> QED BY <2>2 DEF Places
<1> HIDE DEF F, G
<1>8. G = [F EXCEPT ![l] = E]
  BY <1>1, <1>5, <1>6, <1>7 DEF DiagonalSet
<1> QED BY <1>0, <1>3, <1>4, <1>8 DEF Placed, F, G

\* An edit from the row before leads to x, with the run of equals after it.
EditOn(F, r, c, k1, x, s, t) ==
  \E u \in Int : Chosen(F, r, c, u) /\ x = u + Extent(s, t, u, u - k1)

\* On the diagonal in the middle.
LEMMA AtZero ==
  ASSUME NEW h \in Nat, NEW z \in Int, z = 0
  PROVE  z = -z /\ h + z + 1 = h + 1 /\ 0 - z = 0
<1>1. \A r \in Int, l \in Int : l + r = 0 => l = -r
  OBVIOUS
<1>2. z + z = 0 /\ h + z + 1 = h + 1 /\ 0 - z = 0
  OBVIOUS
<1>3. z = -z
  BY <1>1, <1>2, Zenon
<1> QED BY <1>2, <1>3

\* On the diagonal that faces this one the other search has come so far that nothing of n
\* lies between them.
Meet(v, o, x, n) == o \in DOMAIN v /\ v[o] # -1 /\ x >= n - v[o]

\* Unless the engine finds so, the first search leaves something before each place of the
\* other that it faces.
LEMMA AheadApart ==
  ASSUME NEW h \in Nat, NEW r \in Nat, r < h, NEW c \in 0..r, NEW w \in Int, NEW n \in Nat,
         NEW x \in Nat, NEW v \in ArraySet(h), Deep(Places(v, h), r - 1, r),
         NEW o, o = h + w - (2 * c - r), ~(w % 2 # 0 /\ Meet(v, o, x, n))
  PROVE  AheadFree(Places(v, h), r, c, x, w, n)
<1> SUFFICES ASSUME NEW l \in 0..(r - 1), (2 * c - r) + (2 * l - (r - 1)) = w
             PROVE  x + Places(v, h)[2 * l - (r - 1)].x < n
  BY DEF AheadFree
<1>1. PICK z \in (-h)..(h - 1) : z = 2 * l - (r - 1)
  <2>1. 2 * l - (r - 1) \in (-h)..(h - 1)
    BY OnDiagonals
  <2> QED BY <2>1
<1>2. Places(v, h)[z].x = v[h + z] /\ v[h + z] \in Nat
  <2>1. Places(v, h)[2 * l - (r - 1)].x \in Nat
    BY DEF Deep
  <2>2. Places(v, h)[z].x = v[h + z]
    BY PlacesAre
  <2> QED BY <1>1, <2>1, <2>2
<1>3. w = 2 * (c + l - r) + 1 /\ o = h + z
  BY <1>1
<1>4. w % 2 # 0
  <2>1. PICK m \in Int : m = c + l - r
    <3>1. c + l - r \in Int
      OBVIOUS
    <3> QED BY <3>1
  <2>2. w = 2 * m + 1
    BY <1>3, <2>1
  <2> QED BY <2>2
<1>5. ~Meet(v, h + z, x, n)
  BY <1>3, <1>4
<1>6. h + z \in DOMAIN v
  BY DEF ArraySet
<1>7. PICK y \in Nat : y = v[h + z]
  BY <1>2
<1>8. ~(x >= n - y)
  BY <1>5, <1>6, <1>7 DEF Meet
<1>9. x + y < n
  BY <1>8
<1> QED BY <1>1, <1>2, <1>7, <1>9

\* Nor does the other one come to a place of the first.
LEMMA BehindApart ==
  ASSUME NEW h \in Nat, NEW r \in Nat, r < h, NEW c \in 0..r, NEW w \in Int, NEW n \in Nat,
         NEW x \in Nat, NEW v \in ArraySet(h),
         NEW s, NEW t, RowSoFar(Places(v, h), r, r + 1, s, t),
         NEW o, o = h + w - (2 * c - r), ~(w % 2 = 0 /\ Meet(v, o, x, n))
  PROVE  BehindFree(Places(v, h), r, c, x, w, n)
<1> SUFFICES ASSUME NEW l \in 0..r, (2 * l - r) + (2 * c - r) = w
             PROVE  Places(v, h)[2 * l - r].x + x < n
  BY DEF BehindFree
<1>1. PICK z \in (-h)..(h - 1) : z = 2 * l - r
  <2>1. 2 * l - r \in (-h)..(h - 1)
    BY OnDiagonals
  <2> QED BY <2>1
<1>2. Places(v, h)[z].x = v[h + z] /\ v[h + z] \in Nat
  <2>1. Places(v, h)[2 * l - r].x \in Nat
    <3>1. l \in 0..((r + 1) - 1)
      OBVIOUS
    <3> QED BY <3>1 DEF RowSoFar, Reached
  <2>2. Places(v, h)[z].x = v[h + z]
    BY PlacesAre
  <2> QED BY <1>1, <2>1, <2>2
<1>3. w = 2 * (c + l - r) /\ o = h + z
  BY <1>1
<1>4. w % 2 = 0
  <2>1. PICK m \in Int : m = c + l - r
    <3>1. c + l - r \in Int
      OBVIOUS
    <3> QED BY <3>1
  <2>2. w = 2 * m
    BY <1>3, <2>1
  <2> QED BY <2>2
<1>5. ~Meet(v, h + z, x, n)
  BY <1>3, <1>4
<1>6. h + z \in DOMAIN v
  BY DEF ArraySet
<1>7. PICK y \in Nat : y = v[h + z]
  BY <1>2
<1>8. ~(x >= n - y)
  BY <1>5, <1>6, <1>7 DEF Meet
<1>9. y + x < n
  BY <1>8
<1> QED BY <1>1, <1>2, <1>7, <1>9

\* What a turn that comes to x leads to: the meeting is within both sequences, or the
\* search has one place more.
AheadTurn(p, q, h, r, c, w, x, s, t) ==
  LET met == w % 2 # 0 /\ Meet(q, h + w - (2 * c - r), x, Len(s)) IN
  /\ met => x \in 0..Len(s) /\ x - (2 * c - r) \in 0..Len(t)
  /\ ~met => \A v : v = [p EXCEPT ![h + (2 * c - r)] = x] =>
       v \in ArraySet(h) /\ Ahead(Places(v, h), Places(q, h), r, c + 1, h, w, s, t)

BehindTurn(p, q, h, r, c, w, x, s, t) ==
  LET o   == h + w - (2 * c - r)
      met == w % 2 = 0 /\ Meet(p, o, x, Len(s))
  IN
  /\ met => p[o] \in 0..Len(s) /\ h + p[o] - o \in 0..Len(t)
  /\ ~met => \A y : y = [q EXCEPT ![h + (2 * c - r)] = x] =>
       y \in ArraySet(h) /\ Behind(Places(p, h), Places(y, h), r, c + 1, h, w, s, t)

-------------------------------------------------------------------------------
(* Searches that know how far so many edits lead: the first place where they meet is    *)
(* halfway on the way of as few as there can be.                                        *)

\* A place counted from the other end.
LEMMA FromTheEnd ==
  ASSUME NEW n \in Nat, NEW p \in 0..n
  PROVE  n - p \in 0..n /\ n - (n - p) = p
OBVIOUS

\* The places of a row lie between those of the row before.
LEMMA RowBefore ==
  ASSUME NEW r \in Nat, NEW c \in 0..r, NEW k1, k1 = 2 * c - r
  PROVE  /\ c > 0 => 2 * (c - 1) - (r - 1) = 2 * c - r - 1 /\ c - 1 \in 0..(r - 1)
         /\ c < r => 2 * c - (r - 1) = 2 * c - r + 1 /\ c \in 0..(r - 1)
OBVIOUS

\* Two searches that have gone as far as r and as o edits lead have not met: then the way
\* from end to end takes other than r + o of them.
LEMMA NotMeeting ==
  ASSUME NEW s, NEW t, NEW u, NEW v, NEW n \in Nat, n = Len(s), NEW m \in Nat, m = Len(t),
         Backwards(s, u), Backwards(t, v), NEW h \in Nat, NEW r \in Nat, r < h, NEW o \in Nat,
         o < h, NEW F \in DiagonalSet(h), NEW G \in DiagonalSet(h), Fronts(F, r, r + 1, s, t),
         Fronts(G, o, o + 1, u, v), NEW w, w = n - m, Apart(F, r, r + 1, G, o, o + 1, w, n)
  PROVE  LeastEdits(s, t) # r + o
<1> SUFFICES ASSUME LeastEdits(s, t) = r + o PROVE FALSE
  OBVIOUS
<1>1. Len(s) \in Nat /\ Len(t) \in Nat /\ Len(u) = n /\ Len(v) = m
  BY DEF Backwards
<1>2. PICK p \in 0..n, q \in 0..m : Least(s, t, p, q) <= r /\ Least(u, v, n - p, m - q) <= o
  BY <1>1, LeastMeets
<1>3. PICK p2 \in 0..n, q2 \in 0..m : p2 = n - p /\ q2 = m - q /\ n - p2 = p /\ m - q2 = q
  <2>1. n - p \in 0..n /\ m - q \in 0..m /\ n - (n - p) = p /\ m - (m - q) = q
    BY FromTheEnd
  <2> QED BY <2>1
<1>4. PICK e1 \in Nat, e2 \in Nat : e1 = Least(s, t, p, q) /\ e2 = Least(u, v, p2, q2)
  <2>1. Least(s, t, p, q) \in Nat
    BY <1>1, LeastSteps DEF LeastGoes
  <2>2. Len(u) \in Nat /\ Len(v) \in Nat
    BY <1>1
  <2>3. Least(u, v, p2, q2) \in Nat
    BY <1>1, <2>2, LeastSteps DEF LeastGoes
  <2> QED BY <2>1, <2>3
<1>5. e1 = r /\ e2 = o
  <2>1. LeastEdits(s, t) <= Least(u, v, p2, q2) + Least(s, t, n - p2, m - q2)
    BY <1>1, LeastThrough
  <2>2. r + o <= e2 + e1 /\ e1 <= r /\ e2 <= o
    BY <1>2, <1>3, <1>4, <2>1
  <2> QED BY <2>2
<1>6. PICK c \in 0..r : p - q = 2 * c - r
  <2>1. Deleting(Least(s, t, p, q), p, q)
    BY <1>1, LeastDeletes
  <2> QED BY <1>4, <1>5, <2>1 DEF Deleting
<1>7. PICK l \in 0..o : p2 - q2 = 2 * l - o
  <2>1. Len(u) \in Nat /\ Len(v) \in Nat
    BY <1>1
  <2>2. Deleting(Least(u, v, p2, q2), p2, q2)
    BY <1>1, <2>1, LeastDeletes
  <2> QED BY <1>4, <1>5, <2>2 DEF Deleting
<1>8. PICK x \in Int, y \in Int : x = F[2 * c - r].x /\ y = G[2 * l - o].x
  <2>1. 2 * c - r \in (-h)..(h - 1) /\ 2 * l - o \in (-h)..(h - 1)
    BY OnDiagonals
  <2>2. F[2 * c - r] \in Spot /\ G[2 * l - o] \in Spot
    BY <2>1 DEF DiagonalSet
  <2> QED BY <2>2 DEF Spot
<1>9. p <= x
  <2>1. c \in 0..((r + 1) - 1)
    OBVIOUS
  <2>2. FrontAt(x, 2 * c - r, r, s, t)
    BY <1>8, <2>1 DEF Fronts
  <2> QED BY <1>1, <1>2, <1>6, <2>2 DEF FrontAt
<1>10. p2 <= y
  <2>1. l \in 0..((o + 1) - 1)
    OBVIOUS
  <2>2. FrontAt(y, 2 * l - o, o, u, v)
    BY <1>8, <2>1 DEF Fronts
  <2> QED BY <1>1, <1>2, <1>3, <1>7, <2>2 DEF FrontAt
<1>11. x + y < n
  <2>1. c \in 0..((r + 1) - 1) /\ l \in 0..((o + 1) - 1)
    OBVIOUS
  <2>2. (2 * c - r) + (2 * l - o) = w
    BY <1>3, <1>6, <1>7
  <2> QED BY <1>8, <2>1, <2>2 DEF Apart
<1> QED BY <1>3, <1>9, <1>10, <1>11

\* What the search that begins at the front knows of edits while it makes row r, and of the
\* other one; u and v are the sequences read from their ends.
AheadLeast(F, G, r, q, s, t, u, v) ==
  /\ Fronts(F, r - 1, r, s, t) /\ Fronts(F, r, q, s, t)
  /\ Fronts(G, r - 1, r, u, v)
  /\ 2 * r - 1 <= LeastEdits(s, t)

\* And the one that begins at the end.
BehindLeast(F, G, r, q, s, t, u, v) ==
  /\ Fronts(F, r, r + 1, s, t)
  /\ Fronts(G, r - 1, r, u, v) /\ Fronts(G, r, q, u, v)
  /\ 2 * r <= LeastEdits(s, t)

\* A place that becomes as far as the edits of its row lead.
LEMMA FrontsPlaced ==
  ASSUME NEW s, NEW t, NEW h \in Nat, NEW r \in Nat, r < h, NEW c \in 0..r,
         NEW F \in DiagonalSet(h), NEW E \in Spot, NEW H, Placed(F, H, r, c, E),
         Fronts(F, r - 1, r, s, t), Fronts(F, r, c, s, t), FrontAt(E.x, 2 * c - r, r, s, t)
  PROVE  Fronts(H, r - 1, r, s, t) /\ Fronts(H, r, c + 1, s, t)
<1>1. /\ H[2 * c - r] = E
      /\ \A g \in 0..r : g # c => H[2 * g - r] = F[2 * g - r]
      /\ \A g \in 0..(r - 1) : H[2 * g - (r - 1)] = F[2 * g - (r - 1)]
  <2>1. Alone(F, H, r, c, E, h)
    BY PlaceAlone
  <2> QED BY <2>1 DEF Alone
<1>2. Fronts(H, r - 1, r, s, t)
  BY <1>1 DEF Fronts
<1>3. ASSUME NEW g \in 0..((c + 1) - 1) PROVE FrontAt(H[2 * g - r].x, 2 * g - r, r, s, t)
  <2>1. CASE g = c
    BY <1>1, <2>1
  <2>2. CASE g # c
    <3>1. g \in 0..(c - 1) /\ g \in 0..r
      BY <2>2
    <3>2. FrontAt(F[2 * g - r].x, 2 * g - r, r, s, t)
      BY <3>1 DEF Fronts
    <3>3. H[2 * g - r] = F[2 * g - r]
      BY <1>1, <2>2, <3>1
    <3> QED BY <3>2, <3>3
  <2> QED BY <2>1, <2>2
<1> QED BY <1>2, <1>3 DEF Fronts

\* Of two searches that have not met after the first one's row, the other makes its own.
LEMMA AheadLeastEnds ==
  ASSUME NEW s, NEW t, NEW u, NEW v, NEW n \in Nat, n = Len(s), NEW m \in Nat, m = Len(t),
         Backwards(s, u), Backwards(t, v), NEW h \in Nat, NEW r \in Nat, r < h, NEW F, NEW G,
         NEW w, w = n - m,
         Ahead(F, G, r, r + 1, h, w, s, t), AheadLeast(F, G, r, r + 1, s, t, u, v)
  PROVE  BehindLeast(F, G, r, 0, s, t, u, v)
<1>1. Fronts(F, r, r + 1, s, t) /\ Fronts(G, r - 1, r, u, v) /\ Fronts(G, r, 0, u, v)
  BY DEF AheadLeast, Fronts
<1>2. PICK e \in Nat : e = LeastEdits(s, t) /\ 2 * r - 1 <= e
  BY LeastIsNumber DEF AheadLeast
<1>3. r > 0 => e # 2 * r - 1
  <2> SUFFICES ASSUME r > 0 PROVE e # 2 * r - 1
    OBVIOUS
  <2>1. PICK o \in Nat : o = r - 1 /\ o < h /\ o + 1 = r /\ r + o = 2 * r - 1
    OBVIOUS
  <2>2. /\ F \in DiagonalSet(h) /\ G \in DiagonalSet(h) /\ Fronts(G, o, o + 1, u, v)
        /\ Apart(F, r, r + 1, G, o, o + 1, w, n)
    BY <1>1, <2>1 DEF Ahead
  <2>3. LeastEdits(s, t) # r + o
    BY <1>1, <2>1, <2>2, NotMeeting
  <2> QED BY <1>2, <2>1, <2>3
<1>4. 2 * r <= e
  BY <1>2, <1>3
<1> QED BY <1>1, <1>2, <1>4 DEF BehindLeast

\* After the other one's, too, both begin the next.
LEMMA BehindLeastEnds ==
  ASSUME NEW s, NEW t, NEW u, NEW v, NEW n \in Nat, n = Len(s), NEW m \in Nat, m = Len(t),
         Backwards(s, u), Backwards(t, v), NEW h \in Nat, NEW r \in Nat, r < h, NEW F, NEW G,
         NEW w, w = n - m,
         Behind(F, G, r, r + 1, h, w, s, t), BehindLeast(F, G, r, r + 1, s, t, u, v)
  PROVE  AheadLeast(F, G, r + 1, 0, s, t, u, v)
<1>1. Fronts(F, r, r + 1, s, t) /\ Fronts(G, r, r + 1, u, v) /\ Fronts(F, r + 1, 0, s, t)
  BY DEF BehindLeast, Fronts
<1>2. PICK e \in Nat : e = LeastEdits(s, t) /\ 2 * r <= e
  BY LeastIsNumber DEF BehindLeast
<1>3. e # r + r
  <2>1. /\ F \in DiagonalSet(h) /\ G \in DiagonalSet(h)
        /\ Apart(F, r, r + 1, G, r, r + 1, w, n)
    BY DEF Behind
  <2> QED BY <1>1, <1>2, <2>1, NotMeeting
<1>4. 2 * (r + 1) - 1 <= e /\ (r + 1) - 1 = r
  BY <1>2, <1>3
<1> QED BY <1>1, <1>2, <1>4 DEF AheadLeast

\* An edit count leads to every place of its diagonal up to its front.
LEMMA UpToFront ==
  ASSUME NEW s, NEW t, NEW x, NEW z, NEW r, FrontAt(x, z, r, s, t), NEW p \in 0..Len(s),
         NEW q \in 0..Len(t), p - q = z, p <= x
  PROVE  Least(s, t, p, q) <= r
BY DEF FrontAt

\* At diagonal k1, the one of c deletions in row r, w entries more being deleted in all, the
\* other search has o for the diagonal that faces it.
AtTurn(h, r, c, k1, w, o, n, m) ==
  k1 = 2 * c - r /\ w = n - m /\ o = h + w - k1

\* That diagonal.
Opposite(z, w, k1) == z = w - k1

\* Place x of diagonal k1.
OnDiagonal(x, y, k1) == x - y = k1

\* The diagonal that faces this one, in the array of the other search.
LEMMA FacingPlace ==
  ASSUME NEW h \in Nat, NEW v \in ArraySet(h), NEW r \in Nat, NEW c \in 0..r, NEW k1, NEW w, NEW o,
         NEW n \in Nat, NEW m \in Nat, AtTurn(h, r, c, k1, w, o, n, m), o \in DOMAIN v
  PROVE  /\ w \in Int /\ k1 \in Int
         /\ \E z \in (-h)..(h - 1) :
              Opposite(z, w, k1) /\ h + z = o /\ Places(v, h)[z].x = v[o] /\ v[o] \in Int
<1>1. o \in 0..(2 * h - 1) /\ w \in Int /\ k1 \in Int
  BY DEF ArraySet, AtTurn
<1>2. PICK z \in (-h)..(h - 1) : z = w - k1 /\ h + z = o
  <2>1. w - k1 \in (-h)..(h - 1) /\ h + (w - k1) = o
    BY <1>1 DEF AtTurn
  <2> QED BY <2>1
<1>3. Places(v, h)[z].x = v[h + z] /\ v[h + z] \in Int
  BY PlacesAre
<1> QED BY <1>1, <1>2, <1>3 DEF Opposite

\* A diagonal that row l of a search may have.
NearRow(z, l) == z # 1 => ~(z < -l \/ l < z)

\* And one that it has.
InRow(z, l) == \E g \in 0..l : 2 * g - l = z

\* What faces a turn of row r, w being odd, or even; l edits are those of the other search.
OddFacing(z, r, l, c, k1, w) ==
  k1 = 2 * c - r /\ w % 2 # 0 /\ r # 0 /\ l = r - 1 /\ Opposite(z, w, k1) /\ NearRow(z, l)

EvenFacing(z, r, c, k1, w) ==
  k1 = 2 * c - r /\ w % 2 = 0 /\ Opposite(z, w, k1) /\ NearRow(z, r)

\* If as many more entries are deleted in all as is odd, the diagonal that faces one of row r
\* is one of the row before.
LEMMA OddTurn ==
  ASSUME NEW r \in Nat, NEW c \in 0..r, NEW k1, NEW w \in Int, NEW z \in Int, NEW l,
         OddFacing(z, r, l, c, k1, w)
  PROVE  InRow(z, l)
<1>0. /\ k1 = 2 * c - r /\ z = w - k1 /\ r # 0 /\ l = r - 1 /\ w % 2 # 0
      /\ z # 1 => ~(z < -(r - 1) \/ r - 1 < z)
  BY DEF OddFacing, Opposite, NearRow
<1>1. PICK j1 \in Int : w = 2 * j1 + 1
  BY <1>0, OddIs, Zenon
<1>2. PICK g \in Int : g = j1 - c + r
  OBVIOUS
<1>3. 2 * g = z + r - 1
  BY <1>0, <1>1, <1>2
<1>4. g \in 0..l /\ 2 * g - l = z
  BY <1>0, <1>3
<1> QED BY <1>4 DEF InRow

\* If it is even, it is one of row r.
LEMMA EvenTurn ==
  ASSUME NEW r \in Nat, NEW c \in 0..r, NEW k1, NEW w \in Int, NEW z \in Int,
         EvenFacing(z, r, c, k1, w)
  PROVE  InRow(z, r)
<1>0. /\ k1 = 2 * c - r /\ z = w - k1 /\ w % 2 = 0
      /\ z # 1 => ~(z < -r \/ r < z)
  BY DEF EvenFacing, Opposite, NearRow
<1>1. PICK l \in Int : w = 2 * l
  <2>1. w = 2 * (w \div 2) /\ w \div 2 \in Int
    BY <1>0
  <2> QED BY <2>1
<1>2. PICK g \in Int : g = l - c + r
  OBVIOUS
<1>3. 2 * g = z + r
  BY <1>0, <1>1, <1>2
<1>4. g \in 0..r /\ 2 * g - r = z
  <2>1. r = 0 => z # 1
    BY <1>3
  <2> QED BY <1>0, <1>3, <2>1
<1> QED BY <1>4 DEF InRow

\* A place of one search, on diagonal z, that reaches the facing place of the other.
Covering(x, y, z, k1, e, n, m) == OnDiagonal(x, y, z) /\ k1 + z = n - m /\ x >= n - e

\* What is left of both after a place lies on diagonal k1, no further than e.
LeavesOver(n, m, x, y, k1, e) ==
  \E p \in 0..n, q \in 0..m : p = n - x /\ q = m - y /\ p - q = k1 /\ p <= e

\* As many edits as two searches have made, all of which are needed.
Needed(s, t, r, o) == r + o <= LeastEdits(s, t)

\* A place on the way of as few edits as there can be.
Halfway(s, t, u, v, n, m, x, y) ==
  Least(s, t, x, y) + Least(u, v, n - x, m - y) <= LeastEdits(s, t)

\* What is left of both after a place, and on which diagonal.
LEMMA LeftOver ==
  ASSUME NEW n \in Nat, NEW m \in Nat, NEW x \in 0..n, NEW y \in 0..m, NEW z \in Int,
         NEW k1 \in Int, NEW e \in Int, Covering(x, y, z, k1, e, n, m)
  PROVE  LeavesOver(n, m, x, y, k1, e)
<1>1. n - x \in 0..n /\ m - y \in 0..m /\ (n - x) - (m - y) = k1 /\ n - x <= e
  BY DEF Covering, OnDiagonal
<1> QED BY <1>1 DEF LeavesOver

\* Two ways that are no longer than so many edits each, all of which are needed.
LEMMA TwoHalves ==
  ASSUME NEW s, NEW t, NEW u, NEW v, Len(s) \in Nat, Len(t) \in Nat, Len(u) \in Nat, Len(v) \in Nat,
         NEW x \in 0..Len(s), NEW y \in 0..Len(t), NEW p \in 0..Len(u), NEW q \in 0..Len(v),
         NEW r \in Int, NEW o \in Int, Least(s, t, x, y) <= r, Least(u, v, p, q) <= o,
         r + o <= LeastEdits(s, t)
  PROVE  Least(s, t, x, y) + Least(u, v, p, q) <= LeastEdits(s, t)
<1>1. PICK e1 \in Nat, e2 \in Nat, e3 \in Nat :
        e1 = Least(s, t, x, y) /\ e2 = Least(u, v, p, q) /\ e3 = LeastEdits(s, t)
  <2>1. LeastGoes(s, t, x, y)
    BY LeastSteps
  <2>2. LeastGoes(u, v, p, q)
    BY LeastSteps
  <2>3. LeastEdits(s, t) \in Nat
    BY LeastIsNumber
  <2> QED BY <2>1, <2>2, <2>3 DEF LeastGoes
<1>2. e1 + e2 <= e3
  <2>1. e1 <= r /\ e2 <= o /\ r + o <= e3
    BY <1>1
  <2> QED BY <2>1
<1> QED BY <1>1, <1>2

\* A way to (x, y) and one from the ends to where it comes, on facing diagonals within the
\* fronts of so many edits, are a shortest way if that many are needed.
LEMMA FrontsMeet ==
  ASSUME NEW s, NEW t, NEW u, NEW v, NEW n \in Nat, n = Len(s), NEW m \in Nat, m = Len(t),
         Backwards(s, u), Backwards(t, v), NEW x \in 0..n, NEW y \in 0..m, NEW z \in Int,
         NEW k1 \in Int, NEW e \in Int, Covering(x, y, z, k1, e, n, m),
         NEW r \in Int, NEW o \in Int, FrontAt(x, z, r, s, t), FrontAt(e, k1, o, u, v),
         Needed(s, t, r, o)
  PROVE  Halfway(s, t, u, v, n, m, x, y)
<1>1. PICK p \in 0..n, q \in 0..m : p = n - x /\ q = m - y /\ p - q = k1 /\ p <= e
  <2>1. LeavesOver(n, m, x, y, k1, e)
    BY LeftOver
  <2> QED BY <2>1 DEF LeavesOver
<1>2. n = Len(u) /\ m = Len(v)
  BY DEF Backwards
<1>3. Least(u, v, p, q) <= o
  BY <1>1, <1>2 DEF FrontAt
<1>4. Least(s, t, x, y) <= r
  <2>1. x - y = z /\ x <= x
    BY DEF Covering, OnDiagonal
  <2> QED BY <2>1 DEF FrontAt
<1>5. Least(s, t, x, y) + Least(u, v, p, q) <= LeastEdits(s, t)
  <2>1. Len(s) \in Nat /\ Len(t) \in Nat /\ Len(u) \in Nat /\ Len(v) \in Nat
    BY <1>2
  <2>2. x \in 0..Len(s) /\ y \in 0..Len(t) /\ p \in 0..Len(u) /\ q \in 0..Len(v)
    BY <1>2
  <2>3. r + o <= LeastEdits(s, t)
    BY DEF Needed
  <2> QED BY <1>3, <1>4, <2>1, <2>2, <2>3, TwoHalves
<1> QED BY <1>1, <1>5 DEF Halfway

\* Where the first search meets the other one is halfway on the shortest way.
LEMMA AheadMeets ==
  ASSUME NEW s, NEW t, NEW u, NEW v, NEW n \in Nat, n = Len(s), NEW m \in Nat, m = Len(t),
         Backwards(s, u), Backwards(t, v), NEW h \in Nat, NEW r \in Nat, NEW c \in 0..r,
         NEW k1, NEW w, NEW o, AtTurn(h, r, c, k1, w, o, n, m), w % 2 # 0,
         NEW F, NEW y \in ArraySet(h), Ahead(F, Places(y, h), r, c, h, w, s, t),
         AheadLeast(F, Places(y, h), r, c, s, t, u, v),
         NEW x \in 0..n, NEW x2 \in 0..m, OnDiagonal(x, x2, k1),
         Meet(y, o, x, n), FrontAt(x, k1, r, s, t)
  PROVE  Halfway(s, t, u, v, n, m, x, x2)
<1>1. w \in Int /\ k1 \in Int /\ k1 = 2 * c - r /\ w = n - m
  BY DEF AtTurn
<1>2. PICK z \in (-h)..(h - 1), e \in Int :
        Opposite(z, w, k1) /\ Places(y, h)[z].x = e /\ e # -1 /\ x >= n - e
  <2>1. o \in DOMAIN y /\ y[o] # -1 /\ x >= n - y[o]
    BY DEF Meet
  <2>2. \E z \in (-h)..(h - 1) :
          Opposite(z, w, k1) /\ h + z = o /\ Places(y, h)[z].x = y[o] /\ y[o] \in Int
    BY <2>1, FacingPlace
  <2> QED BY <2>1, <2>2
<1> DEFINE G == Places(y, h)
<1>3. G[z].x = e /\ Blank(G, h, r - 1) /\ (r = 0 => G[1].x = 0) /\ Fronts(G, r - 1, r, u, v)
  BY <1>2 DEF Ahead, AheadLeast
<1> HIDE DEF G
<1>4. PICK l \in Int : l = r - 1 /\ r + l = 2 * r - 1 /\ NearRow(z, l)
  <2>1. z # 1 => ~(z < -(r - 1) \/ r - 1 < z)
    BY <1>2, <1>3 DEF Blank
  <2>2. r - 1 \in Int /\ r + (r - 1) = 2 * r - 1
    OBVIOUS
  <2> QED BY <2>1, <2>2 DEF NearRow
<1>5. k1 + z = n - m /\ z \in Int
  BY <1>1, <1>2 DEF Opposite
<1>6. r # 0
  <2> SUFFICES ASSUME r = 0 PROVE FALSE
    OBVIOUS
  <2>1. z = 1
    BY <1>4 DEF NearRow
  <2>2. e = 0
    BY <1>3, <2>1
  <2>3. c = 0 /\ k1 = 0
    BY <1>1
  <2> QED BY <1>2, <1>5, <2>1, <2>2, <2>3 DEF OnDiagonal
<1>7. PICK g \in 0..l : 2 * g - l = z
  <2>1. OddFacing(z, r, l, c, k1, w)
    BY <1>1, <1>2, <1>4, <1>6 DEF OddFacing
  <2>2. InRow(z, l)
    BY <1>1, <1>5, <2>1, OddTurn
  <2> QED BY <2>2 DEF InRow
<1>8. FrontAt(e, z, l, u, v)
  <2>1. Fronts(G, l, l + 1, u, v)
    <3>1. l + 1 = r
      BY <1>4
    <3> QED BY <1>3, <1>4, <3>1
  <2>2. g \in 0..((l + 1) - 1)
    BY <1>4
  <2>3. FrontAt(G[2 * g - l].x, 2 * g - l, l, u, v)
    BY <2>1, <2>2 DEF Fronts
  <2> QED BY <1>3, <1>7, <2>3
<1>9. Needed(s, t, r, l)
  BY <1>4 DEF AheadLeast, Needed
<1>10. Covering(x, x2, k1, z, e, n, m)
  <2>1. z + k1 = n - m
    BY <1>1, <1>5
  <2> QED BY <1>2, <2>1 DEF Covering
<1>11. r \in Int /\ l \in Int /\ k1 \in Int /\ z \in Int /\ e \in Int
  BY <1>1
<1> QED BY <1>8, <1>9, <1>10, <1>11, FrontsMeet

\* And where the other one meets the first.
LEMMA BehindMeets ==
  ASSUME NEW s, NEW t, NEW u, NEW v, NEW n \in Nat, n = Len(s), NEW m \in Nat, m = Len(t),
         Backwards(s, u), Backwards(t, v), NEW h \in Nat, NEW r \in Nat, NEW c \in 0..r,
         NEW k1, NEW w, NEW o, AtTurn(h, r, c, k1, w, o, n, m), w % 2 = 0,
         NEW y \in ArraySet(h), NEW G, Behind(Places(y, h), G, r, c, h, w, s, t),
         BehindLeast(Places(y, h), G, r, c, s, t, u, v),
         NEW x \in Nat, Meet(y, o, x, n),
         NEW x1 \in 0..n, x1 = y[o], NEW x2 \in 0..m, x2 = h + x1 - o,
         FrontAt(x, k1, r, u, v)
  PROVE  Halfway(s, t, u, v, n, m, x1, x2)
<1>1. w \in Int /\ k1 \in Int /\ k1 = 2 * c - r /\ w = n - m
  BY DEF AtTurn
<1>2. PICK z \in (-h)..(h - 1) :
        Opposite(z, w, k1) /\ h + z = o /\ Places(y, h)[z].x = x1 /\ x1 # -1 /\ x >= n - x1
  <2>1. o \in DOMAIN y /\ y[o] # -1 /\ x >= n - y[o]
    BY DEF Meet
  <2>2. \E z \in (-h)..(h - 1) :
          Opposite(z, w, k1) /\ h + z = o /\ Places(y, h)[z].x = y[o] /\ y[o] \in Int
    BY <2>1, FacingPlace
  <2> QED BY <2>1, <2>2
<1> DEFINE F == Places(y, h)
<1>3. F[z].x = x1 /\ Blank(F, h, r) /\ Fronts(F, r, r + 1, s, t)
  BY <1>2 DEF Behind, BehindLeast
<1> HIDE DEF F
<1>4. NearRow(z, r)
  <2>1. z # 1 => ~(z < -r \/ r < z)
    BY <1>2, <1>3 DEF Blank
  <2> QED BY <2>1 DEF NearRow
<1>5. k1 + z = n - m /\ z \in Int /\ OnDiagonal(x1, x2, z)
  <2>1. k1 + z = n - m /\ z \in Int
    BY <1>1, <1>2 DEF Opposite
  <2>2. x1 - x2 = z
    BY <1>2, <2>1, SMTT(60)
  <2> QED BY <2>1, <2>2 DEF OnDiagonal
<1>6. PICK g \in 0..r : 2 * g - r = z
  <2>1. EvenFacing(z, r, c, k1, w)
    BY <1>1, <1>2, <1>4 DEF EvenFacing
  <2>2. InRow(z, r)
    BY <1>1, <1>5, <2>1, EvenTurn
  <2> QED BY <2>2 DEF InRow
<1>7. FrontAt(x1, z, r, s, t)
  <2>1. g \in 0..((r + 1) - 1)
    OBVIOUS
  <2>2. FrontAt(F[2 * g - r].x, 2 * g - r, r, s, t)
    BY <1>3, <2>1 DEF Fronts
  <2> QED BY <1>3, <1>6, <2>2
<1>8. Needed(s, t, r, r) /\ r \in Int
  <2>1. r + r = 2 * r
    OBVIOUS
  <2> QED BY <2>1 DEF BehindLeast, Needed
<1>9. Covering(x1, x2, z, k1, x, n, m) /\ x \in Int
  <2>1. x1 >= n - x /\ x \in Int
    BY <1>2
  <2> QED BY <1>5, <2>1 DEF Covering
<1> QED BY <1>1, <1>5, <1>7, <1>8, <1>9, FrontsMeet

\* What a search knows of edits at the diagonal that it is at.
BisectsLeast(e, h, s, t, u, v) ==
  \E c \in 0..e.d :
    /\ e.k = 2 * c - e.d
    /\ e.forward => AheadLeast(Places(e.v1, h), Places(e.v2, h), e.d, c, s, t, u, v)
    /\ ~e.forward => BehindLeast(Places(e.v1, h), Places(e.v2, h), e.d, c, s, t, u, v)

\* Where neither search has met the other in half of the length of both, all of both is said:
\* as many edits as that are needed, and one fewer cannot be.
LEMMA AllNeeded ==
  ASSUME NEW s, NEW t, NEW n \in Nat, n = Len(s), NEW m \in Nat, m = Len(t), NEW h \in Nat,
         n + m <= 2 * h, 2 * h - 1 <= LeastEdits(s, t)
  PROVE  LeastEdits(s, t) = n + m
<1>1. PICK e \in Nat : e = LeastEdits(s, t) /\ e = Least(s, t, n, m)
  BY LeastIsNumber
<1>2. e <= n + m /\ n + m - 1 <= e
  <2>1. n \in 0..Len(s) /\ m \in 0..Len(t)
    OBVIOUS
  <2>2. Least(s, t, n, m) <= n + m
    BY <2>1, LeastAtMost
  <2> QED BY <1>1, <2>2
<1>3. PICK c \in 0..e : n - m = 2 * c - e
  <2>1. n \in 0..Len(s) /\ m \in 0..Len(t)
    OBVIOUS
  <2>2. Deleting(Least(s, t, n, m), n, m)
    BY <2>1, LeastDeletes
  <2> QED BY <1>1, <2>2 DEF Deleting
<1>4. e = n + m
  BY <1>2, <1>3
<1> QED BY <1>1, <1>4

\* What a turn of the first search does: where it meets the other one is halfway, and where
\* it does not, it has come as far as its edits lead at one place more.
AheadTurnLeast(p, q, h, r, c, w, x, s, t, u, v) ==
  LET met == w % 2 # 0 /\ Meet(q, h + w - (2 * c - r), x, Len(s)) IN
  /\ met => Halfway(s, t, u, v, Len(s), Len(t), x, x - (2 * c - r))
  /\ ~met => \A p2 : p2 = [p EXCEPT ![h + (2 * c - r)] = x] =>
       AheadLeast(Places(p2, h), Places(q, h), r, c + 1, s, t, u, v)

BehindTurnLeast(p, q, h, r, c, w, x, s, t, u, v) ==
  LET o   == h + w - (2 * c - r)
      met == w % 2 = 0 /\ Meet(p, o, x, Len(s))
  IN
  /\ met => Halfway(s, t, u, v, Len(s), Len(t), p[o], h + p[o] - o)
  /\ ~met => \A q2 : q2 = [q EXCEPT ![h + (2 * c - r)] = x] =>
       BehindLeast(Places(p, h), Places(q2, h), r, c + 1, s, t, u, v)

===============================================================================
