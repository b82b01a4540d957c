--------------------------- MODULE BinaryDeltaProofs ----------------------------
(***************************************************************************)
(* Matchers of bytes and the binary delta, for every two files.  The       *)
(* rolling matcher: its window is that of the bytes under it, and what it  *)
(* copies is true.  The chunk matcher: what it says is true, in order, and *)
(* accounts for both.  The delta, from either: a patch that diff() writes, *)
(* optimises and encodes makes the new file of the old one, byte for byte. *)
(***************************************************************************)
EXTENDS DiffEngines, OpcodesProofs

-------------------------------------------------------------------------------
(* The rolling matcher: what it copies. *)

\* It speaks of the same opcodes as the composition, too.
LEMMA RollingWords ==
  /\ \A p, q, r, s, t : Rolling!Opcode(p, q, r, s, t) = Opcode(p, q, r, s, t)
  /\ \A p, q, r, s, t : Rolling!Matches(p, q, r, s, t) = Matches(p, q, r, s, t)
  /\ \A p, q, r, s : Rolling!Extent(p, q, r, s) = Extent(p, q, r, s)
  /\ \A p, q : Rolling!Smaller(p, q) = Smaller(p, q)
<1>1. \A p, q, r, s, t : Rolling!Opcode(p, q, r, s, t) = Opcode(p, q, r, s, t)
  BY DEF Rolling!Opcode, Opcode
<1>2. \A p, q, r, s, t : Rolling!Matches(p, q, r, s, t) = Matches(p, q, r, s, t)
  BY DEF Rolling!Matches, Matches
<1>3. \A p, q : Rolling!Smaller(p, q) = Smaller(p, q)
  BY DEF Rolling!Smaller, Smaller
<1>4. \A p, q, r, s : Rolling!Extent(p, q, r, s) = Extent(p, q, r, s)
  BY DEF Rolling!Extent, Extent, Rolling!MatchesExactly, MatchesExactly, Rolling!Matches, Matches,
         Rolling!Smaller, Smaller
<1> QED BY <1>1, <1>2, <1>3, <1>4

\* What is copied begins where it was led, as the matcher's own recursion has it.
LEMMA LandsRight ==
  ASSUME NEW x, NEW y, JumpedTo(ops, a, b, x, y)
  PROVE  Rolling!CopiesLandRight
<1> DEFINE n == Len(ops)
           led[l \in 0..n] == IF l = 0 THEN 0 ELSE led[l - 1] + ops[l].i2 - ops[l].i1
<1>1. PICK f : /\ LeadsTo(f, ops) /\ f[n] = x
               /\ \A l \in 1..n : JumpTrue(f, ops, l, a, b)
  BY DEF JumpedTo
<1>2. n \in Nat
  BY LenProperties DEF JumpedTo
<1>3. /\ f \in [0..n -> Int] /\ f[0] = 0
      /\ \A l \in 1..n : f[l] = f[l - 1] + (ops[l].i2 - ops[l].i1)
  BY <1>1 DEF LeadsTo
<1>4. led = [l \in 0..n |-> IF l = 0 THEN 0 ELSE led[l - 1] + ops[l].i2 - ops[l].i1]
  <2>1. f = [l \in 0..n |-> IF l = 0 THEN 0 ELSE f[l - 1] + ops[l].i2 - ops[l].i1]
    <3>1. \A l \in 0..n : f[l] = IF l = 0 THEN 0 ELSE f[l - 1] + ops[l].i2 - ops[l].i1
      BY <1>2, <1>3
    <3> HIDE DEF n
    <3> QED BY <1>3, <3>1
  <2> QED BY <2>1
<1> HIDE DEF led
<1>5. \A l \in 0..n : led[l] = IF l = 0 THEN 0 ELSE led[l - 1] + ops[l].i2 - ops[l].i1
  BY <1>4
<1> DEFINE S == {l \in 0..n : led[l] = f[l]}
<1>6. \A l \in 0..n : l \in S
  <2>1. 0 \in S
    BY <1>2, <1>3, <1>5
  <2>2. \A l \in 0..(n - 1) : l \in S => l + 1 \in S
    <3> SUFFICES ASSUME NEW l \in 0..(n - 1), led[l] = f[l] PROVE led[l + 1] = f[l + 1]
      BY <1>2
    <3>1. l + 1 \in 0..n /\ l + 1 \in 1..n /\ l + 1 - 1 = l /\ l + 1 # 0
      BY <1>2
    <3> QED BY <1>3, <1>5, <3>1
  <2> HIDE DEF S
  <2> QED BY <1>2, <2>1, <2>2, InductionUpTo
<1>7. \A l \in 1..n :
        /\ ops[l].j1 = IF l = 1 THEN 0 ELSE ops[l - 1].j2
        /\ ops[l].tag = "equal" =>
             ops[l].i1 = led[l - 1]
               /\ Rolling!Matches(a, b, ops[l].i1, ops[l].j1, ops[l].i2 - ops[l].i1)
  <2> SUFFICES ASSUME NEW l \in 1..n
               PROVE  /\ ops[l].j1 = IF l = 1 THEN 0 ELSE ops[l - 1].j2
                      /\ ops[l].tag = "equal" =>
                           ops[l].i1 = led[l - 1]
                             /\ Rolling!Matches(a, b, ops[l].i1, ops[l].j1, ops[l].i2 - ops[l].i1)
    OBVIOUS
  <2>1. JumpTrue(f, ops, l, a, b)
    BY <1>1
  <2>2. l - 1 \in 0..n
    BY <1>2
  <2>3. led[l - 1] = f[l - 1]
    BY <1>6, <2>2
  <2> QED BY <2>1, <2>3, RollingWords DEF JumpTrue, JumpSays
<1> QED BY <1>7 DEF Rolling!CopiesLandRight, led

\* What stood before a copy is inserted, if anything did.
LEMMA SayInsert ==
  ASSUME NEW s, NEW x \in Nat, NEW y \in Nat, NEW z \in Nat, y <= z,
         x <= Len(a), z <= Len(b), JumpedTo(s, a, b, x, y)
  PROVE  JumpedTo(s \o Rolling!Insert(y, z), a, b, x, z)
<1> DEFINE op == Opcode("insert", 0, 0, y, z)
<1>1. CASE y < z
  <2>1. op \in OpcodeSet /\ op.j1 = y /\ op.tag = "insert" /\ op.i1 = 0 /\ op.i2 = 0 /\ op.j2 = z
    BY DEF OpcodeSet, Opcode, Tags
  <2>2. Rolling!Insert(y, z) = <<op>>
    BY <1>1, RollingWords DEF Rolling!Insert
  <2> HIDE DEF op
  <2>3. x = x + (op.i2 - op.i1)
    BY <2>1
  <2>4. JumpSays(op, a, b, x, x)
    BY <2>1 DEF JumpSays
  <2>5. JumpedTo(s \o <<op>>, a, b, x, op.j2)
    BY <2>1, <2>3, <2>4, SayJump
  <2> QED BY <2>1, <2>2, <2>5
<1>2. CASE ~(y < z)
  <2>1. y = z /\ Rolling!Insert(y, z) = <<>>
    BY <1>2 DEF Rolling!Insert
  <2>2. s \o <<>> = s
    BY ConcatEmptySeq DEF JumpedTo
  <2> QED BY <2>1, <2>2
<1> QED BY <1>1, <1>2

\* To the place in a that is copied from the matcher skips, forwards or back.
LEMMA SaySkip ==
  ASSUME NEW s, NEW x \in Nat, x <= Len(a), oldEnd \in Nat, pos \in Nat, pos <= Len(b),
         JumpedTo(s, a, b, oldEnd, pos)
  PROVE  JumpedTo(s \o Rolling!Skip(x), a, b, x, pos)
<1> DEFINE op == Opcode("delete", oldEnd, x, pos, pos)
<1>1. CASE x # oldEnd
  <2>1. op \in OpcodeSet /\ op.j1 = pos /\ op.tag = "delete" /\ op.i1 = oldEnd /\ op.i2 = x
        /\ op.j2 = pos
    BY DEF OpcodeSet, Opcode, Tags
  <2>2. Rolling!Skip(x) = <<op>>
    BY <1>1, RollingWords DEF Rolling!Skip
  <2> HIDE DEF op
  <2>3. x = oldEnd + (op.i2 - op.i1)
    BY <2>1
  <2>4. JumpSays(op, a, b, oldEnd, x)
    BY <2>1 DEF JumpSays
  <2>5. JumpedTo(s \o <<op>>, a, b, x, op.j2)
    BY <2>1, <2>3, <2>4, SayJump
  <2> QED BY <2>1, <2>2, <2>5
<1>2. CASE x = oldEnd
  <2>1. Rolling!Skip(x) = <<>>
    BY <1>2 DEF Rolling!Skip
  <2>2. s \o <<>> = s
    BY ConcatEmptySeq DEF JumpedTo
  <2> QED BY <1>2, <2>1, <2>2
<1> QED BY <1>1, <1>2

\* A chunk that is copied is one of a, and as long as is said the bytes agree.
LEMMA CopyIsTrue ==
  ASSUME a \in Seq(Entries), b \in Seq(Entries), pos \in 0..Len(b),
         NEW x \in Rolling!Candidates, Rolling!MatchLen(x) > 0
  PROVE  /\ x \in Nat /\ Rolling!MatchLen(x) \in Nat
         /\ Matches(a, b, x, pos, Rolling!MatchLen(x))
<1> DEFINE n == Rolling!MatchLen(x)
           e == Extent(a, b, x, pos)
           most == Rolling!Larger(MaxExtend, ChunkSize)
<1>1. ChunkSize \in Nat /\ MaxExtend \in Nat /\ Len(a) \in Nat /\ Len(b) \in Nat
  BY EngineAssumption, LenProperties
<1>2. x \in Nat /\ x < Len(a)
  <2>1. PICK m \in Rolling!WithHash : x = m * ChunkSize
    BY DEF Rolling!Candidates
  <2>2. m \in Nat /\ m * ChunkSize < Len(a)
    BY <2>1, <1>1 DEF Rolling!WithHash
  <2>3. m * ChunkSize \in Nat
    BY <1>1, <2>2
  <2> QED BY <2>1, <2>2, <2>3
<1>3. e \in Nat /\ MatchesExactly(a, b, x, pos, e)
  <2>1. x \in 0..Len(a)
    BY <1>1, <1>2
  <2> QED BY <1>1, <2>1, ExtentMatches
<1>4. n = Smaller(e, most)
  <2>1. Rolling!Matches(a, b, x, pos, ChunkSize)
    BY <1>1 DEF Rolling!MatchLen
  <2> QED BY <2>1, RollingWords DEF Rolling!MatchLen
<1>5. most \in Nat
  BY <1>1 DEF Rolling!Larger
<1>6. n \in Nat /\ n <= e
  <2> HIDE DEF n, e, most
  <2> QED BY <1>3, <1>4, <1>5 DEF Smaller
<1>7. Matches(a, b, x, pos, n)
  <2> HIDE DEF n, e
  <2>1. \A l \in 1..n : l \in 1..e
    BY <1>3, <1>6
  <2>2. Matches(a, b, x, pos, e)
    BY <1>3 DEF MatchesExactly
  <2>3. x + n <= Len(a) /\ pos + n <= Len(b)
    <3>1. x + e <= Len(a) /\ pos + e <= Len(b)
      BY <2>2 DEF Matches
    <3> QED BY <1>1, <1>2, <1>3, <1>6, <3>1
  <2>4. \A l \in 1..n : a[x + l] = b[pos + l]
    BY <2>1, <2>2 DEF Matches
  <2> QED BY <2>3, <2>4 DEF Matches
<1> QED BY <1>2, <1>6, <1>7

-------------------------------------------------------------------------------
(* The rolling matcher: its window. *)

\* Where in the circular buffer the n-th byte of the window is when the oldest is at h.
Turned(h, n) == ((h + n - 2) % ChunkSize) + 1

\* From the oldest byte on, and from the beginning of the buffer after its end.
LEMMA TurnedIs ==
  ASSUME NEW h \in 1..ChunkSize, NEW n \in 1..ChunkSize
  PROVE  /\ h + n <= ChunkSize + 1 => Turned(h, n) = (h + n) - 1
         /\ h + n > ChunkSize + 1 => Turned(h, n) = ((h + n) - 1) - ChunkSize
<1>1. ChunkSize \in Nat \ {0} /\ h + n - 2 = (h + n) - 2
  BY EngineAssumption
<1>2. PICK x \in Int : x = (h + n) - 2
  BY <1>1
<1>3. CASE h + n <= ChunkSize + 1
  <2>1. x \in 0..(ChunkSize - 1)
    BY <1>1, <1>2, <1>3
  <2>2. x % ChunkSize = x
    BY <1>1, <2>1, RemainderOnce
  <2> QED BY <1>1, <1>2, <1>3, <2>2 DEF Turned
<1>4. CASE h + n > ChunkSize + 1
  <2>1. PICK y \in 0..(ChunkSize - 1) : y = x - ChunkSize
    BY <1>1, <1>2, <1>4
  <2>2. (y + ChunkSize) % ChunkSize = y /\ y + ChunkSize = x
    BY <1>1, <1>2, <2>1, RemainderOnce
  <2>3. x % ChunkSize = y
    BY <2>2
  <2> QED BY <1>1, <1>2, <1>4, <2>1, <2>3 DEF Turned
<1> QED BY <1>1, <1>3, <1>4

\* The two components of a checksum with one more byte.
AdlerNext(prev, byte) ==
  LET s1 == (prev[1] + byte) % Base IN <<s1, (prev[2] + s1) % Base>>

\* The checksum of bytes from the sums of them and of those sums.
LEMMA AdlerIs ==
  ASSUME NEW n \in Nat \ {0}, NEW s \in [1..n -> Int],
         NEW A, Sums(A, 1, s, n), NEW B, Sums(B, 0, A, n)
  PROVE  Rolling!Adler(s) = <<A[n] % Base, B[n] % Base>>
<1> DEFINE g == [l \in 0..n |-> IF l = 0 THEN <<1, 0>> ELSE <<A[l] % Base, B[l] % Base>>]
           upTo[l \in 0..n] == IF l = 0 THEN <<1, 0>> ELSE AdlerNext(upTo[l - 1], s[l])
<1>1. Base \in Nat \ {0} /\ Len(s) = n
  BY EngineAssumption
<1>2. g[0] = <<1, 0>> /\ \A l \in 1..n : g[l] = <<A[l] % Base, B[l] % Base>>
  OBVIOUS
<1>3. g = [l \in 0..n |-> g[l]]
  OBVIOUS
<1> HIDE DEF g
<1>4. ASSUME NEW l \in 1..n
      PROVE  g[l] = AdlerNext(g[l - 1], s[l])
  <2>1. PICK c \in Int, d1 \in Int, e \in Int, v \in Int, w \in Int :
          c = A[l - 1] /\ d1 = B[l - 1] /\ e = s[l] /\ v = A[l] /\ w = B[l]
    <3>1. l - 1 \in 0..n /\ l \in 0..n
      OBVIOUS
    <3>2. A \in [0..n -> Int] /\ B \in [0..n -> Int]
      BY DEF Sums
    <3>3. A[l - 1] \in Int /\ B[l - 1] \in Int /\ s[l] \in Int /\ A[l] \in Int /\ B[l] \in Int
      BY <3>1, <3>2
    <3> QED BY <3>3
  <2>2. v = c + e /\ w = d1 + v
    <3>1. A[l] = A[l - 1] + s[l] /\ B[l] = B[l - 1] + A[l]
      BY DEF Sums
    <3> QED BY <2>1, <3>1
  <2>3. PICK q \in 0..(Base - 1) : q = v % Base
    BY <1>1, RemainderIs
  <2>4. CASE l = 1
    <3>1. g[l - 1] = <<1, 0>> /\ c = 1 /\ d1 = 0
      <4>1. l - 1 = 0 /\ A[0] = 1 /\ B[0] = 0
        BY <2>4 DEF Sums
      <4> QED BY <1>2, <2>1, <4>1
    <3>2. AdlerNext(g[l - 1], s[l]) = <<(1 + e) % Base, (0 + ((1 + e) % Base)) % Base>>
      BY <2>1, <3>1 DEF AdlerNext
    <3>3. 1 + e = v /\ w = v
      BY <2>2, <3>1
    <3>4. (0 + q) % Base = q
      <4>1. 0 + q = q
        OBVIOUS
      <4> QED BY <1>1, <4>1, RemainderOnce
    <3>5. AdlerNext(g[l - 1], s[l]) = <<v % Base, w % Base>>
      BY <2>3, <3>2, <3>3, <3>4
    <3> QED BY <1>2, <2>1, <3>5
  <2>5. CASE l # 1
    <3>1. g[l - 1] = <<c % Base, d1 % Base>>
      <4>1. l - 1 \in 1..n
        BY <2>5
      <4> QED BY <1>2, <2>1, <4>1
    <3>2. AdlerNext(g[l - 1], s[l]) =
            <<((c % Base) + e) % Base, ((d1 % Base) + (((c % Base) + e) % Base)) % Base>>
      BY <2>1, <3>1 DEF AdlerNext
    <3>3. ((c % Base) + e) % Base = v % Base
      BY <1>1, <2>2, RemainderOfSum
    <3>4. ((d1 % Base) + q) % Base = w % Base
      <4>0. q \in Int
        BY <1>1
      <4>1. ((d1 % Base) + q) % Base = (d1 + q) % Base
        BY <1>1, <4>0, RemainderOfSum
      <4>2. ((v % Base) + d1) % Base = (v + d1) % Base
        BY <1>1, RemainderOfSum
      <4>3. d1 + q = q + d1 /\ v + d1 = w
        BY <2>2
      <4> QED BY <2>3, <4>1, <4>2, <4>3
    <3>5. AdlerNext(g[l - 1], s[l]) = <<v % Base, w % Base>>
      BY <2>3, <3>2, <3>3, <3>4
    <3> QED BY <1>2, <2>1, <3>5
  <2> QED BY <2>4, <2>5
<1>5. \A l \in 0..n : g[l] = IF l = 0 THEN <<1, 0>> ELSE AdlerNext(g[l - 1], s[l])
  <2>1. \A l \in 0..n : l # 0 => l \in 1..n
    OBVIOUS
  <2> QED BY <1>2, <1>4, <2>1
<1>6. upTo = [l \in 0..n |-> IF l = 0 THEN <<1, 0>> ELSE AdlerNext(upTo[l - 1], s[l])]
  <2>1. g = [l \in 0..n |-> IF l = 0 THEN <<1, 0>> ELSE AdlerNext(g[l - 1], s[l])]
    BY <1>3, <1>5
  <2> QED BY <2>1
<1>7. Rolling!Adler(s) = upTo[n]
  BY <1>1 DEF Rolling!Adler, AdlerNext
<1> HIDE DEF upTo
<1>8. \A l \in 0..n : upTo[l] = IF l = 0 THEN <<1, 0>> ELSE AdlerNext(upTo[l - 1], s[l])
  BY <1>6
<1> DEFINE S == {l \in 0..n : upTo[l] = g[l]}
<1>9. \A l \in 0..n : l \in S
  <2>1. 0 \in S
    BY <1>5, <1>8
  <2>2. ASSUME NEW l \in 0..(n - 1), l \in S PROVE l + 1 \in S
    <3>1. l + 1 \in 0..n /\ l + 1 - 1 = l /\ l + 1 # 0
      OBVIOUS
    <3>2. g[l + 1] = AdlerNext(g[l], s[l + 1]) /\ upTo[l + 1] = AdlerNext(upTo[l], s[l + 1])
      BY <1>5, <1>8, <3>1
    <3> QED BY <2>2, <3>1, <3>2
  <2> HIDE DEF S
  <2>3. \A l \in 0..(n - 1) : l \in S => l + 1 \in S
    BY <2>2
  <2> QED BY <2>1, <2>3, InductionUpTo
<1>10. upTo[n] = g[n]
  BY <1>9
<1>11. g[n] = <<A[n] % Base, B[n] % Base>>
  <2>1. n \in 1..n
    OBVIOUS
  <2> QED BY <1>2, <2>1
<1> QED BY <1>7, <1>10, <1>11

\* The checksum that is rolled along is that of the bytes the window has moved to.
LEMMA AdlerRolls ==
  ASSUME NEW s \in [1..ChunkSize -> Int], NEW t \in [1..ChunkSize -> Int],
         \A l \in 1..(ChunkSize - 1) : t[l] = s[l + 1],
         sums = Rolling!Adler(s)
  PROVE  Rolling!Rolled(s[1], t[ChunkSize]) = Rolling!Adler(t)
<1>1. PICK n \in Nat \ {0} : n = ChunkSize
  BY EngineAssumption
<1>2. Base \in Nat \ {0}
  BY EngineAssumption
<1>3. PICK x \in Int, y \in Int : x = s[1] /\ y = t[n]
  BY <1>1
<1> DEFINE u == [l \in 1..(n + 1) |-> IF l <= n THEN s[l] ELSE y]
<1>4. /\ u \in [1..(n + 1) -> Int] /\ u[n + 1] = y /\ u[1] = x
      /\ \A l \in 1..n : u[l] = s[l]
      /\ \A l \in 1..n : t[l] = u[l + 1]
  BY <1>1, <1>3, SMTT(20)
<1> HIDE DEF u
<1>5. PICK A : Sums(A, 1, u, n + 1)
  BY <1>4, RunningSum
<1>6. /\ A[0] = 1 /\ \A l \in 0..(n + 1) : A[l] \in Int
      /\ \A l \in 0..n : A[l + 1] = A[l] + u[l + 1]
  <2>1. (n + 1) - 1 = n
    OBVIOUS
  <2> QED BY <1>5, <2>1, SumStep
<1>7. PICK B : Sums(B, 0, A, n + 1)
  <2> DEFINE A1 == [l \in 1..(n + 1) |-> A[l]]
  <2>1. A1 \in [1..(n + 1) -> Int]
    BY <1>6
  <2>2. \A l \in 1..(n + 1) : A1[l] = A[l]
    OBVIOUS
  <2> HIDE DEF A1
  <2>3. PICK B : Sums(B, 0, A1, n + 1)
    BY <2>1, RunningSum
  <2> QED BY <2>2, <2>3 DEF Sums
<1>8. /\ B[0] = 0 /\ \A l \in 0..(n + 1) : B[l] \in Int
      /\ \A l \in 0..n : B[l + 1] = B[l] + A[l + 1]
  <2>1. (n + 1) - 1 = n
    OBVIOUS
  <2> QED BY <1>7, <2>1, SumStep
<1> DEFINE As == [l \in 0..n |-> A[l]]
           Bs == [l \in 0..n |-> B[l]]
           At == [l \in 0..n |-> A[l + 1] - x]
           Bt == [l \in 0..n |-> (B[l + 1] - (1 + x)) - (l * x)]
<1>9. /\ As \in [0..n -> Int] /\ \A l \in 0..n : As[l] = A[l]
      /\ Bs \in [0..n -> Int] /\ \A l \in 0..n : Bs[l] = B[l]
      /\ At \in [0..n -> Int] /\ \A l \in 0..n : At[l] = A[l + 1] - x
      /\ Bt \in [0..n -> Int] /\ \A l \in 0..n : Bt[l] = (B[l + 1] - (1 + x)) - (l * x)
  <2>1. \A l \in 0..n : l \in 0..(n + 1) /\ l + 1 \in 0..(n + 1)
    OBVIOUS
  <2>2. \A l \in 0..n : /\ A[l] \in Int /\ A[l + 1] - x \in Int /\ B[l] \in Int
                         /\ (B[l + 1] - (1 + x)) - (l * x) \in Int
    BY <1>6, <1>8, <2>1
  <2> QED BY <2>2
<1> HIDE DEF As, Bs, At, Bt
<1>10. Sums(As, 1, s, n) /\ Sums(Bs, 0, As, n)
  <2>1. \A l \in 0..(n - 1) : l \in 0..n /\ l + 1 \in 1..n /\ l + 1 \in 0..n
    OBVIOUS
  <2>2. As[0] = 1 /\ Bs[0] = 0
    <3>1. A[0] = 1 /\ B[0] = 0
      BY <1>6, <1>8
    <3>2. \A l \in 0..n : As[l] = A[l] /\ Bs[l] = B[l]
      BY <1>9
    <3>3. 0 \in 0..n
      OBVIOUS
    <3> QED BY <3>1, <3>2, <3>3
  <2>3. \A l \in 0..(n - 1) : As[l + 1] = As[l] + s[l + 1] /\ Bs[l + 1] = Bs[l] + As[l + 1]
    BY <1>4, <1>6, <1>8, <1>9, <2>1
  <2> QED BY <1>9, <2>2, <2>3, SumsAre
<1>11. Sums(At, 1, t, n) /\ Sums(Bt, 0, At, n)
  <2>1. At[0] = 1 /\ Bt[0] = 0
    <3>1. 0 + 1 = 1 /\ 0 \in 0..n /\ 1 \in 0..(n + 1)
      OBVIOUS
    <3>2. PICK a1 \in Int, b1 \in Int : a1 = A[1] /\ b1 = B[1]
      BY <1>6, <1>8, <3>1
    <3>3. a1 = 1 + x
      BY <1>4, <1>6, <3>1, <3>2
    <3>4. b1 = 0 + a1
      BY <1>8, <3>1, <3>2
    <3>5. At[0] = a1 - x
      BY <1>9, <3>1, <3>2
    <3>6. PICK p \in Int : p = 0 * x
      OBVIOUS
    <3>7. p = 0
      BY <3>6
    <3>8. Bt[0] = (b1 - (1 + x)) - p
      BY <1>9, <3>1, <3>2, <3>6
    <3> QED BY <3>3, <3>4, <3>5, <3>7, <3>8
  <2>2. ASSUME NEW l \in 0..(n - 1)
        PROVE  At[l + 1] = At[l] + t[l + 1] /\ Bt[l + 1] = Bt[l] + At[l + 1]
    <3>1. PICK m \in 0..n : m = l + 1 /\ m \in 1..n /\ m \in 0..(n + 1)
      OBVIOUS
    <3>2. PICK a1 \in Int, b1 \in Int, v \in Int :
            a1 = A[m] /\ b1 = B[m] /\ v = t[m]
      BY <1>1, <1>6, <1>8, <3>1
    <3>3. A[m + 1] = a1 + v
      BY <1>4, <1>6, <3>1, <3>2
    <3>4. B[m + 1] = b1 + (a1 + v)
      BY <1>8, <3>1, <3>2, <3>3
    <3>5. At[l] = a1 - x /\ At[m] = (a1 + v) - x
      <4>1. l \in 0..n /\ A[l + 1] = a1
        BY <3>1, <3>2
      <4>2. At[l] = a1 - x
        BY <1>9, <4>1
      <4>3. At[m] = (a1 + v) - x
        BY <1>9, <3>1, <3>3
      <4> QED BY <4>2, <4>3
    <3>6. PICK p \in Int : p = l * x
      OBVIOUS
    <3>7. m * x = p + x
      BY <3>1, <3>6
    <3>8. Bt[l] = (b1 - (1 + x)) - p /\ Bt[m] = ((b1 + (a1 + v)) - (1 + x)) - (p + x)
      BY <1>9, <3>1, <3>2, <3>4, <3>6, <3>7
    <3>9. At[m] = At[l] + v /\ Bt[m] = Bt[l] + At[m]
      BY <3>5, <3>8
    <3> QED BY <3>1, <3>2, <3>9
  <2> QED BY <1>9, <2>1, <2>2, SumsAre
<1>12. PICK a0 \in Int, a1 \in Int, b0 \in Int, b1 \in Int, p \in Int :
         /\ a0 = As[n] /\ b0 = Bs[n] /\ a1 = At[n] /\ b1 = Bt[n] /\ p = n * x
         /\ a1 = (a0 + y) - x
         /\ b1 = ((b0 - p) + a1) - 1
  <2>1. n \in 0..n /\ n \in 0..(n + 1) /\ n + 1 \in 0..(n + 1)
    OBVIOUS
  <2>2. PICK a0 \in Int, b0 \in Int, p \in Int : a0 = A[n] /\ b0 = B[n] /\ p = n * x
    BY <1>6, <1>8, <2>1
  <2>3. A[n + 1] = a0 + y
    BY <1>4, <1>6, <2>1, <2>2
  <2>4. B[n + 1] = b0 + (a0 + y)
    BY <1>8, <2>1, <2>2, <2>3
  <2>5. As[n] = a0 /\ Bs[n] = b0 /\ At[n] = (a0 + y) - x
    BY <1>9, <2>1, <2>2, <2>3
  <2>6. Bt[n] = ((b0 + (a0 + y)) - (1 + x)) - p
    BY <1>9, <2>1, <2>2, <2>4
  <2>7. Bt[n] = ((b0 - p) + At[n]) - 1 /\ At[n] \in Int /\ Bt[n] \in Int
    BY <2>5, <2>6
  <2> QED BY <2>2, <2>5, <2>7
<1>13. Rolling!Adler(s) = <<a0 % Base, b0 % Base>> /\ Rolling!Adler(t) = <<a1 % Base, b1 % Base>>
  <2>1. Rolling!Adler(s) = <<As[n] % Base, Bs[n] % Base>>
    BY <1>1, <1>10, AdlerIs
  <2>2. Rolling!Adler(t) = <<At[n] % Base, Bt[n] % Base>>
    BY <1>1, <1>11, AdlerIs
  <2> QED BY <1>12, <2>1, <2>2
<1>14. PICK r0 \in Int, q0 \in Int : r0 = a0 % Base /\ a0 = (Base * q0) + r0
  BY <1>2, RemainderAnd
<1>15. PICK r1 \in Int, q1 \in Int : r1 = a1 % Base /\ a1 = (Base * q1) + r1
  BY <1>2, RemainderAnd
<1>16. PICK s0 \in Int, q2 \in Int : s0 = b0 % Base /\ b0 = (Base * q2) + s0
  BY <1>2, RemainderAnd
<1>17. PICK z \in Int, q3 \in Int : z = p % Base /\ p = (Base * q3) + z
  BY <1>2, RemainderAnd
<1>18. ((r0 - x) + y) % Base = r1
  <2>1. PICK v \in Int : v = (r0 - x) + y
    OBVIOUS
  <2>2. a1 = v + (Base * q0)
    <3>1. PICK c0 \in Int : c0 = Base * q0
      BY <1>2
    <3>2. a0 = c0 + r0 /\ a1 = (a0 + y) - x
      BY <1>12, <1>14, <3>1
    <3>3. a1 = v + c0
      BY <2>1, <3>2
    <3> QED BY <3>1, <3>3
  <2>3. a1 % Base = v % Base
    BY <1>2, <2>2, SameRemainder
  <2> QED BY <1>15, <2>1, <2>3
<1>19. ((s0 - z) + (r1 - 1)) % Base = b1 % Base
  <2>1. PICK v \in Int : v = (s0 - z) + (r1 - 1)
    OBVIOUS
  <2>2. PICK q \in Int : q = (q2 - q3) + q1
    OBVIOUS
  <2>3. Base * q = ((Base * q2) - (Base * q3)) + (Base * q1)
    BY <1>2, <2>2
  <2>4. b1 = v + (Base * q)
    <3>1. PICK c2 \in Int, c3 \in Int, c1 \in Int :
            c2 = Base * q2 /\ c3 = Base * q3 /\ c1 = Base * q1
      BY <1>2
    <3>2. b0 = c2 + s0 /\ p = c3 + z /\ a1 = c1 + r1
      BY <1>15, <1>16, <1>17, <3>1
    <3>3. Base * q = (c2 - c3) + c1
      BY <2>3, <3>1
    <3>4. b1 = ((b0 - p) + a1) - 1
      BY <1>12
    <3>5. b1 = v + ((c2 - c3) + c1)
      BY <2>1, <3>2, <3>4
    <3> QED BY <3>3, <3>5
  <2>5. b1 % Base = v % Base
    BY <1>2, <2>4, SameRemainder
  <2> QED BY <2>1, <2>5
<1>20. sums[1] = r0 /\ sums[2] = s0
  BY <1>13, <1>14, <1>16
<1>21. Rolling!Rolled(x, y) = <<r1, b1 % Base>>
  <2>1. ChunkSize * x = p
    BY <1>1, <1>12
  <2>2. Rolling!Rolled(x, y) =
          <<((sums[1] - x) + y) % Base,
            (sums[2] - ((ChunkSize * x) % Base) + ((((sums[1] - x) + y) % Base) - 1)) % Base>>
    BY DEF Rolling!Rolled
  <2> QED BY <1>17, <1>18, <1>19, <1>20, <2>1, <2>2
<1> QED BY <1>1, <1>3, <1>13, <1>15, <1>21

\* What the window is to be when it stands over the bytes of b after the first p.
WindowIs(p, w, h, g, s) ==
  /\ p \in Nat /\ p + ChunkSize <= Len(b) /\ g = p + ChunkSize
  /\ h \in 1..ChunkSize /\ w \in [1..ChunkSize -> Entries]
  /\ \A n \in 1..ChunkSize : w[Turned(h, n)] = b[p + n]
  /\ s = Rolling!Adler(SubSeq(b, p + 1, p + ChunkSize))

\* The bytes it stands over, and that bytes are numbers.
LEMMA Passage ==
  ASSUME b \in Seq(Entries), NEW p \in Nat, p + ChunkSize <= Len(b)
  PROVE  /\ SubSeq(b, p + 1, p + ChunkSize) \in [1..ChunkSize -> Entries]
         /\ \A n \in 1..ChunkSize : SubSeq(b, p + 1, p + ChunkSize)[n] = b[p + n]
         /\ Entries \subseteq Int
<1>1. ChunkSize \in Nat \ {0} /\ Entries \subseteq Int /\ Len(b) \in Nat
  BY EngineAssumption, LenProperties
<1>2. PICK m \in Nat, n \in Nat : m = p + 1 /\ n = p + ChunkSize
  BY <1>1
<1>3. \A l \in m..n : b[l] \in Entries
  <2>1. \A l \in m..n : l \in 1..Len(b)
    BY <1>1, <1>2
  <2> QED BY <2>1, ElementOfSeq
<1>4. m <= n /\ n - m + 1 = ChunkSize /\ m \in Int /\ n \in Int
  BY <1>1, <1>2
<1>5. /\ SubSeq(b, m, n) \in Seq(Entries) /\ Len(SubSeq(b, m, n)) = ChunkSize
      /\ \A l \in 1..ChunkSize : SubSeq(b, m, n)[l] = b[m + l - 1]
  BY <1>3, <1>4, SubSeqProperties
<1>6. SubSeq(b, m, n) \in [1..ChunkSize -> Entries]
  BY <1>5, LenProperties
<1>7. \A l \in 1..ChunkSize : m + l - 1 = p + l
  BY <1>1, <1>2
<1> QED BY <1>1, <1>2, <1>5, <1>6, <1>7

\* Set anew, the window is the bytes in their order.
LEMMA FreshWindow ==
  ASSUME b \in Seq(Entries), NEW p \in Nat, p + ChunkSize <= Len(b)
  PROVE  LET w == SubSeq(b, p + 1, p + ChunkSize)
         IN  WindowIs(p, w, 1, p + ChunkSize, Rolling!Adler(w))
<1>1. ChunkSize \in Nat \ {0} /\ 1 \in 1..ChunkSize
  BY EngineAssumption
<1>2. ASSUME NEW n \in 1..ChunkSize PROVE Turned(1, n) = n
  <2>1. 1 + n <= ChunkSize + 1 /\ (1 + n) - 1 = n
    BY <1>1
  <2> QED BY <1>1, <2>1, TurnedIs
<1> DEFINE w == SubSeq(b, p + 1, p + ChunkSize)
<1>3. w \in [1..ChunkSize -> Entries] /\ \A n \in 1..ChunkSize : w[n] = b[p + n]
  BY Passage
<1>4. \A n \in 1..ChunkSize : w[Turned(1, n)] = b[p + n]
  BY <1>2, <1>3
<1> QED BY <1>1, <1>3, <1>4 DEF WindowIs

\* Rolled on by one byte, it is the bytes one further on.
LEMMA RolledWindow ==
  ASSUME b \in Seq(Entries), WindowIs(pos, win, head, ahead, sums), ahead < Len(b)
  PROVE  WindowIs(pos + 1, [win EXCEPT ![head] = b[ahead + 1]], (head % ChunkSize) + 1,
                  ahead + 1, Rolling!Rolled(win[head], b[ahead + 1]))
<1>1. PICK n \in Nat \ {0} : n = ChunkSize
  BY EngineAssumption
<1>2. PICK h \in 1..n : h = head
  BY <1>1 DEF WindowIs
<1>3. PICK p \in Nat : p = pos /\ ahead = p + n /\ p + n < Len(b) /\ p + n + 1 <= Len(b)
  <2>1. pos \in Nat /\ ahead = pos + n /\ Len(b) \in Nat
    BY <1>1, LenProperties DEF WindowIs
  <2> QED BY <1>1, <2>1
<1>4. /\ win \in [1..n -> Entries]
      /\ \A l \in 1..n : win[Turned(h, l)] = b[p + l]
      /\ sums = Rolling!Adler(SubSeq(b, p + 1, p + n))
  BY <1>1, <1>2, <1>3 DEF WindowIs
<1>5. PICK h1 : /\ h1 = (head % ChunkSize) + 1 /\ h1 \in 1..n
                /\ h < n => h1 = h + 1
                /\ h = n => h1 = 1
  <2>1. CASE h < n
    <3>1. h \in 0..(n - 1) /\ h + 1 \in 1..n
      BY <2>1
    <3>2. h % n = h
      BY <3>1, RemainderOnce
    <3> QED BY <1>1, <1>2, <2>1, <3>1, <3>2
  <2>2. CASE h = n
    <3>1. 0 \in 0..(n - 1) /\ 0 + n = h
      BY <2>2
    <3>2. (0 + n) % n = 0
      BY <3>1, RemainderOnce
    <3>3. h % n = 0 /\ 0 + 1 = 1 /\ 1 \in 1..n
      BY <3>1, <3>2
    <3> QED BY <1>1, <1>2, <2>2, <3>3
  <2> QED BY <2>1, <2>2
<1>6. Turned(h, 1) = h /\ Turned(h1, n) = h
  <2>1. h \in 1..ChunkSize /\ h1 \in 1..ChunkSize /\ 1 \in 1..ChunkSize /\ n \in 1..ChunkSize
    BY <1>1, <1>5
  <2>2. h + 1 <= ChunkSize + 1 /\ (h + 1) - 1 = h
    BY <1>1
  <2>3. Turned(h, 1) = h
    BY <2>1, <2>2, TurnedIs
  <2>4. CASE h < n
    <3>1. h1 + n > ChunkSize + 1 /\ ((h1 + n) - 1) - ChunkSize = h
      BY <1>1, <1>5, <2>4
    <3>2. Turned(h1, n) = ((h1 + n) - 1) - ChunkSize
      BY <2>1, <3>1, TurnedIs
    <3> QED BY <2>3, <3>1, <3>2
  <2>5. CASE h = n
    <3>1. h1 + n <= ChunkSize + 1 /\ (h1 + n) - 1 = h
      BY <1>1, <1>5, <2>5
    <3>2. Turned(h1, n) = (h1 + n) - 1
      BY <2>1, <3>1, TurnedIs
    <3> QED BY <2>3, <3>1, <3>2
  <2> QED BY <2>4, <2>5
<1>7. ASSUME NEW l \in 1..(n - 1)
      PROVE  Turned(h1, l) = Turned(h, l + 1) /\ Turned(h1, l) # h
  <2>1. /\ h \in 1..ChunkSize /\ h1 \in 1..ChunkSize /\ l \in 1..ChunkSize
        /\ l + 1 \in 1..ChunkSize /\ l \in 1..n
    BY <1>1, <1>5
  <2>2. /\ h1 + l <= n + 1 => Turned(h1, l) = (h1 + l) - 1
        /\ h1 + l > n + 1 => Turned(h1, l) = ((h1 + l) - 1) - n
    BY <1>1, <2>1, TurnedIs
  <2>3. /\ h + (l + 1) <= n + 1 => Turned(h, l + 1) = (h + (l + 1)) - 1
        /\ h + (l + 1) > n + 1 => Turned(h, l + 1) = ((h + (l + 1)) - 1) - n
    BY <1>1, <2>1, TurnedIs
  <2>4. CASE h < n
    <3>1. h1 = h + 1
      BY <1>5, <2>4
    <3> QED BY <2>2, <2>3, <3>1
  <2>5. CASE h = n
    <3>1. h1 = 1
      BY <1>5, <2>5
    <3> QED BY <2>2, <2>3, <2>5, <3>1
  <2> QED BY <2>4, <2>5
<1> DEFINE new == b[ahead + 1]
           s == SubSeq(b, p + 1, p + n)
           t == SubSeq(b, (p + 1) + 1, (p + 1) + n)
<1>8. /\ s \in [1..n -> Entries] /\ Entries \subseteq Int
      /\ \A l \in 1..n : s[l] = b[p + l]
  <2>1. p + ChunkSize <= Len(b)
    BY <1>1, <1>3, LenProperties
  <2> QED BY <1>1, <2>1, Passage
<1>9. /\ t \in [1..n -> Entries]
      /\ \A l \in 1..n : t[l] = b[(p + 1) + l]
  <2>1. (p + 1) + ChunkSize <= Len(b) /\ p + 1 \in Nat
    BY <1>1, <1>3, LenProperties
  <2> QED BY <1>1, <2>1, Passage
<1> HIDE DEF s, t
<1>10. new \in Entries /\ t[n] = new /\ s[1] = win[h]
  <2>1. ahead + 1 = (p + 1) + n /\ n \in 1..n /\ 1 \in 1..n
    BY <1>3
  <2>2. t[n] = new
    BY <1>9, <2>1
  <2>3. t[n] \in Entries
    BY <1>9, <2>1
  <2>4. win[h] = b[p + 1]
    BY <1>4, <1>6, <2>1
  <2>5. s[1] = b[p + 1]
    BY <1>8, <2>1
  <2> QED BY <2>2, <2>3, <2>4, <2>5
<1>11. Rolling!Rolled(win[head], new) = Rolling!Adler(t)
  <2>1. s \in [1..ChunkSize -> Int] /\ t \in [1..ChunkSize -> Int]
    BY <1>1, <1>8, <1>9
  <2>2. \A l \in 1..(ChunkSize - 1) : t[l] = s[l + 1]
    <3>1. \A l \in 1..(n - 1) : /\ l \in 1..n /\ l + 1 \in 1..n /\ (p + 1) + l = p + (l + 1)
      BY <1>1
    <3> QED BY <1>1, <1>8, <1>9, <3>1
  <2>3. sums = Rolling!Adler(s)
    BY <1>4 DEF s
  <2>4. Rolling!Rolled(s[1], t[ChunkSize]) = Rolling!Adler(t)
    BY <2>1, <2>2, <2>3, AdlerRolls
  <2> QED BY <1>1, <1>2, <1>10, <2>4
<1> DEFINE w == [win EXCEPT ![head] = new]
<1>12. w \in [1..n -> Entries] /\ w[h] = new /\ \A l \in 1..n : l # h => w[l] = win[l]
  BY <1>2, <1>4, <1>10
<1> HIDE DEF w
<1>13. ASSUME NEW l \in 1..n PROVE w[Turned(h1, l)] = b[(p + 1) + l]
  <2>1. CASE l = n
    <3>1. w[h] = b[(p + 1) + n]
      <4>1. ahead + 1 = (p + 1) + n
        BY <1>3
      <4> QED BY <1>12, <4>1
    <3> QED BY <1>6, <2>1, <3>1
  <2>2. CASE l # n
    <3>1. l \in 1..(n - 1) /\ l + 1 \in 1..n /\ (p + 1) + l = p + (l + 1)
      BY <2>2
    <3>2. Turned(h, l + 1) \in 1..n
      <4>1. h \in 1..ChunkSize /\ l + 1 \in 1..ChunkSize
        BY <1>1, <3>1
      <4>2. /\ h + (l + 1) <= n + 1 => Turned(h, l + 1) = (h + (l + 1)) - 1
            /\ h + (l + 1) > n + 1 => Turned(h, l + 1) = ((h + (l + 1)) - 1) - n
        BY <1>1, <4>1, TurnedIs
      <4>3. \/ Turned(h, l + 1) = (h + (l + 1)) - 1 /\ h + (l + 1) <= n + 1
            \/ Turned(h, l + 1) = ((h + (l + 1)) - 1) - n /\ h + (l + 1) > n + 1
        BY <3>1, <4>2
      <4> QED BY <3>1, <4>3
    <3>3. w[Turned(h1, l)] = win[Turned(h, l + 1)]
      BY <1>7, <1>12, <3>1, <3>2
    <3>4. win[Turned(h, l + 1)] = b[p + (l + 1)]
      BY <1>4, <3>1
    <3> QED BY <3>1, <3>3, <3>4
  <2> QED BY <2>1, <2>2
<1>14. p + 1 \in Nat /\ (p + 1) + n <= Len(b) /\ ahead + 1 = (p + 1) + n
  BY <1>3, LenProperties
<1>15. WindowIs(p + 1, w, h1, ahead + 1, Rolling!Adler(t))
  BY <1>1, <1>5, <1>12, <1>13, <1>14 DEF WindowIs, t
<1> QED BY <1>3, <1>5, <1>11, <1>15 DEF w

\* The window of the matcher as it stands.
WindowAt == WindowIs(pos, win, head, ahead, sums)

\* What has been said has led through a to oldEnd and through b to pending, which the
\* window is not behind; and the window is that of the bytes at pos.
RollingInv ==
  engine = "rolling" =>
    /\ a \in Seq(Entries) /\ b \in Seq(Entries)
    /\ pos \in 0..Len(b) /\ pending \in 0..pos /\ oldEnd \in 0..Len(a)
    /\ JumpedTo(ops, a, b, oldEnd,
                IF pc \in {"start", "roll", "end"} THEN pending ELSE Len(b))
    /\ pc = "start" => pos = 0
    /\ pc = "roll" => WindowAt

\* The search begins at the first byte, and nothing has been copied.
LEMMA RollingInvInit == Init => RollingInv
<1> SUFFICES ASSUME Init, engine = "rolling" PROVE RollingInv
  BY DEF RollingInv
<1>1. engine \notin TextEngines
  BY DEF TextEngines
<1>2. a \in Upto(MaxBytes) /\ b \in Upto(MaxBytes) /\ Rolling!Start
  BY <1>1 DEF Init
<1>3. a \in Seq(Entries) /\ b \in Seq(Entries)
  <2>1. \A m \in 0..MaxBytes : [1..m -> Entries] \subseteq Seq(Entries)
    OBVIOUS
  <2> QED BY <1>2, <2>1 DEF Upto
<1>4. pos = 0 /\ pending = 0 /\ oldEnd = 0 /\ ops = <<>> /\ pc = "start"
  BY <1>2 DEF Rolling!Start
<1>5. JumpedTo(ops, a, b, oldEnd, pending)
  BY <1>4, NothingJumped
<1>6. 0 \in 0..Len(b) /\ 0 \in 0..0 /\ 0 \in 0..Len(a)
  BY <1>3, LenProperties
<1> QED BY <1>3, <1>4, <1>5, <1>6 DEF RollingInv

\* Set anew, at most at the end of b.
LEMMA ResetKeeps ==
  ASSUME b \in Seq(Entries), NEW p \in 0..Len(b), Rolling!ResetWindow(p), UNCHANGED b
  PROVE  /\ pos' = p /\ pc' \in {"end", "roll"}
         /\ pc' = "roll" => WindowAt'
<1>0. p \in Nat /\ Len(b) \in Nat /\ ChunkSize \in Nat \ {0}
  BY EngineAssumption, LenProperties
<1>1. CASE p + ChunkSize > Len(b)
  BY <1>1 DEF Rolling!ResetWindow
<1>2. CASE ~(p + ChunkSize > Len(b))
  <2>1. p + ChunkSize <= Len(b)
    BY <1>0, <1>2
  <2>2. /\ pos' = p /\ pc' = "roll" /\ win' = SubSeq(b, p + 1, p + ChunkSize) /\ head' = 1
        /\ ahead' = p + ChunkSize /\ sums' = Rolling!Adler(win')
    BY <1>2 DEF Rolling!ResetWindow
  <2>3. WindowIs(p, win', 1, p + ChunkSize, Rolling!Adler(win'))
    BY <1>0, <2>1, <2>2, FreshWindow
  <2>4. WindowIs(pos', win', head', ahead', sums')
    BY <2>2, <2>3
  <2>5. WindowAt'
    BY <2>4 DEF WindowAt, WindowIs
  <2> QED BY <2>2, <2>5
<1> QED BY <1>1, <1>2

\* Each step of the matcher keeps it.
LEMMA RollingStep ==
  ASSUME RollingInv, engine = "rolling", Rolling!Next, engine' = engine
  PROVE  RollingInv'
<1>1. /\ a \in Seq(Entries) /\ b \in Seq(Entries)
      /\ pos \in 0..Len(b) /\ pending \in 0..pos /\ oldEnd \in 0..Len(a)
      /\ pc \in {"start", "roll", "end"} => JumpedTo(ops, a, b, oldEnd, pending)
  BY DEF RollingInv
<1>2. /\ pos \in Nat /\ pending \in Nat /\ pending <= pos /\ pos <= Len(b)
      /\ oldEnd \in Nat /\ oldEnd <= Len(a)
      /\ Len(a) \in Nat /\ Len(b) \in Nat /\ 0 \in 0..Len(b)
  BY <1>1, LenProperties
<1>3. CASE Rolling!Begin
  <2>1. /\ pc = "start" /\ Rolling!ResetWindow(0) /\ UNCHANGED b
        /\ UNCHANGED <<a, b, pending, oldEnd, ops>>
    BY <1>3 DEF Rolling!Begin
  <2>2. pos' = 0 /\ pc' \in {"end", "roll"} /\ (pc' = "roll" => WindowAt')
    BY <1>1, <1>2, <2>1, ResetKeeps
  <2>3. pos = 0
    BY <2>1 DEF RollingInv
  <2> QED BY <1>1, <1>2, <2>1, <2>2, <2>3 DEF RollingInv
<1>4. CASE Rolling!Copy
  <2>1. PICK x \in Rolling!Candidates :
          /\ Rolling!Best(x)
          /\ ops' = ops \o Rolling!Insert(pending, pos) \o Rolling!Skip(x)
                      \o <<Rolling!Opcode("equal", x, x + Rolling!MatchLen(x),
                                          pos, pos + Rolling!MatchLen(x))>>
          /\ pending' = pos + Rolling!MatchLen(x) /\ oldEnd' = x + Rolling!MatchLen(x)
          /\ Rolling!ResetWindow(pos + Rolling!MatchLen(x))
    BY <1>4 DEF Rolling!Copy
  <2>2. pc = "roll" /\ UNCHANGED <<a, b>>
    BY <1>4 DEF Rolling!Copy
  <2>3. Rolling!MatchLen(x) > 0
    BY <2>1 DEF Rolling!Best
  <2>4. x \in Nat /\ Rolling!MatchLen(x) \in Nat /\ Matches(a, b, x, pos, Rolling!MatchLen(x))
    BY <1>1, <2>3, CopyIsTrue
  <2>5. PICK n \in Nat : n = Rolling!MatchLen(x)
    BY <2>4
  <2>6. /\ pos + n \in 0..Len(b) /\ pos + n \in Nat /\ pos + n \in 0..(pos + n)
        /\ x + n \in 0..Len(a) /\ x + n \in Nat /\ x <= Len(a)
    <3>1. pos + n <= Len(b) /\ x + n <= Len(a)
      BY <2>4, <2>5 DEF Matches
    <3> QED BY <1>2, <2>4, <2>5, <3>1
  <2>7. Rolling!ResetWindow(pos + n) /\ UNCHANGED b
    BY <2>1, <2>2, <2>5
  <2>8. pos' = pos + n /\ pc' \in {"end", "roll"} /\ (pc' = "roll" => WindowAt')
    BY <1>1, <2>6, <2>7, ResetKeeps
  <2> DEFINE ins == Rolling!Insert(pending, pos)
             skp == Rolling!Skip(x)
             op  == Opcode("equal", x, x + n, pos, pos + n)
  <2>9. JumpedTo(ops \o ins, a, b, oldEnd, pos)
    BY <1>1, <1>2, <2>2, SayInsert
  <2>10. JumpedTo((ops \o ins) \o skp, a, b, x, pos)
    <3>1. oldEnd \in Nat /\ pos \in Nat /\ pos <= Len(b) /\ x <= Len(a)
      BY <1>1, <1>2, <2>6
    <3> HIDE DEF ins
    <3> QED BY <2>4, <2>9, <3>1, SaySkip
  <2>11. /\ op \in OpcodeSet /\ op.j1 = pos /\ op.i1 = x /\ op.i2 = x + n /\ op.j2 = pos + n
         /\ op.i2 - op.i1 = n /\ op.j2 - op.j1 = n /\ op.tag = "equal"
    BY <1>2, <2>4, <2>6 DEF OpcodeSet, Opcode, Tags
  <2>12. JumpSays(op, a, b, x, x + n)
    <3>1. op.j2 <= Len(b) /\ op.j1 <= op.j2 /\ op.i1 <= op.i2 /\ x + n <= Len(a)
      BY <1>2, <2>4, <2>5, <2>6, <2>11
    <3>2. Matches(a, b, op.i1, op.j1, op.i2 - op.i1)
      BY <2>4, <2>5, <2>11
    <3> HIDE DEF op
    <3> QED BY <2>11, <3>1, <3>2 DEF JumpSays
  <2>13. ops' = ((ops \o ins) \o skp) \o <<op>>
    BY <2>1, <2>5, RollingWords
  <2> HIDE DEF ins, skp, op
  <2>14. JumpedTo(((ops \o ins) \o skp) \o <<op>>, a, b, x + n, op.j2)
    <3>1. x + n = x + (op.i2 - op.i1)
      BY <2>11
    <3> QED BY <1>2, <2>4, <2>6, <2>10, <2>11, <2>12, <3>1, SayJump
  <2>15. JumpedTo(ops', a', b', oldEnd', pending')
    BY <2>1, <2>2, <2>5, <2>11, <2>13, <2>14
  <2>16. pending' \in 0..pos' /\ oldEnd' \in 0..Len(a') /\ pos' \in 0..Len(b')
    BY <2>1, <2>2, <2>5, <2>6, <2>8
  <2> QED BY <1>1, <2>2, <2>8, <2>15, <2>16 DEF RollingInv
<1>5. CASE Rolling!Roll
  <2>1. pc = "roll" /\ UNCHANGED <<a, b, pending, oldEnd, ops>>
    BY <1>5 DEF Rolling!Roll
  <2>2. WindowAt
    BY <2>1 DEF RollingInv
  <2>3. CASE ahead >= Len(b)
    <3>1. pc' = "end" /\ pos' = pos
      BY <1>5, <2>3 DEF Rolling!Roll, Rolling!window
    <3> QED BY <1>1, <1>2, <2>1, <3>1 DEF RollingInv
  <2>4. CASE ~(ahead >= Len(b))
    <3>1. /\ sums' = Rolling!Rolled(win[head], b[ahead + 1])
          /\ win' = [win EXCEPT ![head] = b[ahead + 1]]
          /\ head' = (head % ChunkSize) + 1
          /\ ahead' = ahead + 1 /\ pos' = pos + 1 /\ pc' = pc
      BY <1>5, <2>4 DEF Rolling!Roll
    <3>2. ahead < Len(b) /\ pos + 1 \in 0..Len(b) /\ pending \in 0..(pos + 1)
      <4>1. ahead = pos + ChunkSize
        BY <2>2 DEF WindowAt, WindowIs
      <4>2. ChunkSize \in Nat \ {0}
        BY EngineAssumption
      <4> QED BY <1>2, <2>4, <4>1, <4>2
    <3>3. WindowIs(pos + 1, [win EXCEPT ![head] = b[ahead + 1]], (head % ChunkSize) + 1,
                   ahead + 1, Rolling!Rolled(win[head], b[ahead + 1]))
      BY <1>1, <2>2, <3>2, RolledWindow DEF WindowAt
    <3>4. WindowIs(pos', win', head', ahead', sums')
      BY <3>1, <3>3
    <3>5. WindowAt'
      BY <2>1, <3>4 DEF WindowAt, WindowIs
    <3> QED BY <1>1, <2>1, <3>1, <3>2, <3>5 DEF RollingInv
  <2> QED BY <2>3, <2>4
<1>6. CASE Rolling!Finish
  <2>1. /\ pc = "end" /\ ops' = ops \o Rolling!Insert(pending, Len(b)) /\ pc' = "emitted"
        /\ UNCHANGED <<a, b, pos, pending, oldEnd>>
    BY <1>6 DEF Rolling!Finish, Rolling!window
  <2>2. pending <= Len(b)
    BY <1>1, <1>2
  <2>3. JumpedTo(ops \o Rolling!Insert(pending, Len(b)), a, b, oldEnd, Len(b))
    BY <1>1, <1>2, <2>1, <2>2, SayInsert
  <2>4. JumpedTo(ops', a', b', oldEnd', Len(b'))
    BY <1>2, <2>1, <2>3
  <2> QED BY <1>1, <2>1, <2>4 DEF RollingInv
<1> QED BY <1>3, <1>4, <1>5, <1>6 DEF Rolling!Next

\* The delta that is written from the opcodes leaves them alone, and what it reads.
LEMMA DeltaLeaves ==
  ASSUME Delta!Next
  PROVE  /\ UNCHANGED <<a, b, ops>>
         /\ {pc, pc'} \subseteq {"emitted", "optimise", "patch", "patched", "raised"}
BY DEF Delta!Next, Delta!ReadOpcode, Delta!FlushLast, Delta!Optimise, Delta!Serialise,
       Delta!ApplyTuple, Delta!Applying, Delta!Return

\* No other matcher runs once this one is chosen.
LEMMA RollingInvNext == RollingInv /\ [Next]_vars => RollingInv'
<1> SUFFICES ASSUME RollingInv, [Next]_vars PROVE RollingInv'
  OBVIOUS
<1>1. engine' = engine
  BY DEF Next, vars, RunGreedy, RunMyers, RunDmp, RunSes, RunDifflib, RunChunk, RunRolling,
         WriteAndApply
<1>2. CASE engine # "rolling"
  BY <1>1, <1>2 DEF RollingInv
<1>3. CASE engine = "rolling"
  <2>1. CASE RunRolling
    BY <1>1, <1>3, <2>1, RollingStep DEF RunRolling
  <2>2. CASE WriteAndApply
    <3>1. /\ UNCHANGED <<a, b, ops, pos, pending, oldEnd>>
          /\ {pc, pc'} \subseteq {"emitted", "optimise", "patch", "patched", "raised"}
      BY <2>2, DeltaLeaves DEF WriteAndApply, rollingVars
    <3>2. {pc, pc'} \cap {"start", "roll", "end"} = {}
      BY <3>1
    <3> QED BY <1>1, <3>1, <3>2 DEF RollingInv
  <2>3. CASE UNCHANGED vars
    BY <2>3 DEF vars, rollingVars, RollingInv, WindowAt, WindowIs
  <2> QED
    BY <1>3, <2>1, <2>2, <2>3 DEF Next, RunMyers, RunDmp, RunSes, RunDifflib, RunChunk, RunGreedy
<1> QED BY <1>2, <1>3

\* A copy of the rolling matcher is true, and begins in the old bytes where the copies
\* and skips before it have led a reader: whatever the two files are, however its window
\* was rolled or set anew, forwards or back.
THEOREM CopiesRight == Spec => []CopiesLandRight
<1>1. RollingInv => CopiesLandRight
  <2> SUFFICES ASSUME RollingInv, engine = "rolling" PROVE Rolling!CopiesLandRight
    BY DEF CopiesLandRight
  <2>1. \E y : JumpedTo(ops, a, b, oldEnd, y)
    BY DEF RollingInv
  <2> QED BY <2>1, LandsRight
<1> QED BY <1>1, RollingInvInit, RollingInvNext, PTL DEF Spec

\* The checksum that is rolled from byte to byte is always the one that would be computed
\* anew of the bytes under the window, and the circular buffer holds just those bytes.
THEOREM WindowStaysFresh == Spec => []WindowFresh
<1>1. RollingInv => WindowFresh
  <2> SUFFICES ASSUME RollingInv, engine = "rolling" PROVE Rolling!WindowFresh
    BY DEF WindowFresh
  <2> SUFFICES ASSUME pc = "roll"
               PROVE  LET here == SubSeq(b, pos + 1, pos + ChunkSize) IN
                      /\ [n \in 1..ChunkSize |-> win[((head + n - 2) % ChunkSize) + 1]] = here
                      /\ sums = Rolling!Adler(here)
    BY DEF Rolling!WindowFresh
  <2>1. b \in Seq(Entries) /\ WindowIs(pos, win, head, ahead, sums)
    BY DEF RollingInv, WindowAt
  <2> DEFINE here == SubSeq(b, pos + 1, pos + ChunkSize)
             turned == [n \in 1..ChunkSize |-> win[Turned(head, n)]]
  <2>2. pos \in Nat /\ pos + ChunkSize <= Len(b)
    BY <2>1 DEF WindowIs
  <2>3. here \in [1..ChunkSize -> Entries] /\ \A n \in 1..ChunkSize : here[n] = b[pos + n]
    BY <2>1, <2>2, Passage
  <2>4. \A n \in 1..ChunkSize : turned[n] = here[n]
    BY <2>1, <2>3 DEF WindowIs
  <2>5. turned = here
    <3> HIDE DEF here
    <3> QED BY <2>3, <2>4
  <2>6. turned = [n \in 1..ChunkSize |-> win[((head + n - 2) % ChunkSize) + 1]]
    BY DEF Turned
  <2>7. sums = Rolling!Adler(here)
    BY <2>1 DEF WindowIs
  <2> HIDE DEF here, turned
  <2>8. [n \in 1..ChunkSize |-> win[((head + n - 2) % ChunkSize) + 1]] = here
    BY <2>5, <2>6
  <2> QED BY <2>7, <2>8 DEF here
<1> QED BY <1>1, RollingInvInit, RollingInvNext, PTL DEF Spec

-------------------------------------------------------------------------------
(* The chunk matcher: chunks, and opcodes over them, in bytes. *)

\* It speaks of the same opcodes as the composition, and so does its walk over chunks.
LEMMA ChunkWords ==
  /\ \A p, q, r, s : Chunk!Change(p, q, r, s) = Change(p, q, r, s)
  /\ \A p, q, r, s, t : Chunk!Opcode(p, q, r, s, t) = Opcode(p, q, r, s, t)
  /\ \A p, q, r, s, t : Chunk!Matches(p, q, r, s, t) = Matches(p, q, r, s, t)
  /\ \A p, q, r, s : Chunk!Extent(p, q, r, s) = Extent(p, q, r, s)
  /\ \A p, q : Chunk!Smaller(p, q) = Smaller(p, q)
  /\ \A p, q : Chunk!Larger(p, q) = Larger(p, q)
<1>1. \A p, q, r, s, t : Chunk!Opcode(p, q, r, s, t) = Opcode(p, q, r, s, t)
  BY DEF Chunk!Opcode, Opcode
<1>2. \A p, q, r, s : Chunk!Change(p, q, r, s) = Change(p, q, r, s)
  BY <1>1 DEF Chunk!Change, Change
<1>3. \A p, q, r, s, t : Chunk!Matches(p, q, r, s, t) = Matches(p, q, r, s, t)
  BY DEF Chunk!Matches, Matches
<1>4. \A p, q, r, s : Chunk!Extent(p, q, r, s) = Extent(p, q, r, s)
  BY DEF Chunk!Extent, Extent, Chunk!MatchesExactly, MatchesExactly, Chunk!Matches, Matches,
         Chunk!Smaller, Smaller
<1>5. /\ \A p, q : Chunk!Smaller(p, q) = Smaller(p, q)
      /\ \A p, q : Chunk!Larger(p, q) = Larger(p, q)
  BY DEF Chunk!Smaller, Smaller, Chunk!Larger, Larger
<1> QED BY <1>1, <1>2, <1>3, <1>4, <1>5

\* The walk over chunks says the same words.
LEMMA WalkWords ==
  /\ \A p, q, r, s : Chunk!Coarse!Change(p, q, r, s) = Change(p, q, r, s)
  /\ \A p, q, r, s, t : Chunk!Coarse!Opcode(p, q, r, s, t) = Opcode(p, q, r, s, t)
  /\ \A p, q, r, s, t : Chunk!Coarse!MatchesExactly(p, q, r, s, t) => Matches(p, q, r, s, t)
<1>1. \A p, q, r, s, t : Chunk!Coarse!Opcode(p, q, r, s, t) = Opcode(p, q, r, s, t)
  BY DEF Chunk!Coarse!Opcode, Opcode
<1>2. \A p, q, r, s : Chunk!Coarse!Change(p, q, r, s) = Change(p, q, r, s)
  BY <1>1 DEF Chunk!Coarse!Change, Change
<1>3. \A p, q, r, s, t : Chunk!Coarse!MatchesExactly(p, q, r, s, t) => Matches(p, q, r, s, t)
  BY DEF Chunk!Coarse!MatchesExactly, Chunk!Coarse!Matches, Matches
<1> QED BY <1>1, <1>2, <1>3

\* There are as many chunks as begin before the end.
LEMMA ChunkCount ==
  ASSUME NEW S, NEW s \in Seq(S)
  PROVE  /\ Chunk!Chunks(s) \in Seq(Seq(S)) /\ Len(Chunk!Chunks(s)) \in Nat
         /\ \A x \in Nat : x < Len(Chunk!Chunks(s)) <=> x * ChunkSize < Len(s)
<1>1. PICK c \in Nat \ {0} : c = ChunkSize
  BY EngineAssumption
<1>2. PICK l \in Nat : l = Len(s)
  BY LenProperties
<1>3. PICK n \in Nat : n = (l + c - 1) \div c
  <2>1. l + c - 1 \in Nat
    BY <1>1, <1>2
  <2>2. (l + c - 1) \div c \in Nat
    BY <1>1, <2>1
  <2> QED BY <2>2
<1>4. (n * c) >= l /\ (n * c) < l + c
  <2>1. PICK z \in Nat : z = l + c - 1
    BY <1>1, <1>2
  <2>2. z = (c * (z \div c)) + (z % c) /\ (z % c) \in 0..(c - 1)
    BY <1>1, <2>1
  <2>3. PICK r \in 0..(c - 1) : r = z % c
    BY <2>2
  <2>4. z = (c * n) + r
    BY <1>3, <2>1, <2>2, <2>3
  <2>5. PICK p \in Int : p = c * n
    BY <1>1, <1>3
  <2>6. p >= l /\ p < l + c
    BY <2>1, <2>3, <2>4, <2>5
  <2>7. n * c = p
    BY <1>1, <1>3, <2>5
  <2> QED BY <2>6, <2>7
<1>5. ASSUME NEW x \in Nat PROVE x < n <=> x * c < l
  <2>1. CASE x < n
    <3>1. PICK q \in Nat : q = n - x - 1
      BY <2>1
    <3>2. n * c = (x * c) + (q * c) + c /\ q * c >= 0 /\ x * c \in Int /\ q * c \in Int
      <4>1. n = x + q + 1
        BY <3>1
      <4>2. (x + q + 1) * c = (x * c) + (q * c) + c
        BY <1>1
      <4>3. q * c \in Nat /\ x * c \in Nat
        BY <1>1
      <4> QED BY <4>1, <4>2, <4>3
    <3>3. PICK u \in Int, v \in Int, w \in Int : u = n * c /\ v = x * c /\ w = q * c
      BY <3>2, <1>1, <1>3
    <3>4. v < l
      BY <1>1, <1>2, <1>4, <3>2, <3>3
    <3> QED BY <2>1, <3>3, <3>4
  <2>2. CASE ~(x < n)
    <3>1. PICK q \in Nat : q = x - n
      BY <2>2
    <3>2. x * c = (n * c) + (q * c) /\ q * c \in Nat /\ n * c \in Nat
      <4>1. x = n + q
        BY <3>1
      <4>2. (n + q) * c = (n * c) + (q * c)
        BY <1>1
      <4>3. q * c \in Nat /\ n * c \in Nat
        BY <1>1
      <4> QED BY <4>1, <4>2, <4>3
    <3>3. PICK u \in Int, v \in Int, w \in Nat : u = n * c /\ v = x * c /\ w = q * c
      BY <3>2, <1>1
    <3>4. ~(v < l)
      BY <1>2, <1>4, <3>2, <3>3
    <3> QED BY <2>2, <3>3, <3>4
  <2> QED BY <2>1, <2>2
<1> DEFINE f == [m \in 1..n |-> SubSeq(s, (m - 1) * c + 1, Smaller(m * c, l))]
<1>6. Chunk!Chunks(s) = f
  BY <1>1, <1>2, <1>3, ChunkWords DEF Chunk!Chunks
<1>7. f \in Seq(Seq(S)) /\ Len(f) = n
  <2>1. ASSUME NEW m \in 1..n PROVE SubSeq(s, (m - 1) * c + 1, Smaller(m * c, l)) \in Seq(S)
    <3>1. m * c \in Nat /\ (m - 1) * c \in Nat
      BY <1>1
    <3>2. PICK p \in Nat, q \in Nat : p = (m - 1) * c /\ q = m * c
      BY <3>1
    <3>3. \A r \in (p + 1)..Smaller(q, l) : s[r] \in S
      BY <1>2, <3>2, ElementOfSeq DEF Smaller
    <3>4. p + 1 \in Int /\ Smaller(q, l) \in Int
      BY <1>2 DEF Smaller
    <3>5. SubSeq(s, p + 1, Smaller(q, l)) \in Seq(S)
      BY <3>3, <3>4, SubSeqProperties, <1>2, <3>2 DEF Smaller
    <3> QED BY <3>2, <3>5
  <2>2. f \in [1..n -> Seq(S)]
    BY <2>1
  <2> HIDE DEF f
  <2>3. f \in Seq(Seq(S))
    BY <1>3, <2>2
  <2>4. DOMAIN f = 1..n
    BY <2>2
  <2> QED BY <1>3, <2>3, <2>4, LenProperties
<1> QED BY <1>1, <1>2, <1>3, <1>5, <1>6, <1>7

\* Where a chunk begins: at its number times the size of one, or, past the last, at the
\* end.
LEMMA OffsetIs ==
  ASSUME NEW S, NEW s \in Seq(S), NEW x \in 0..Len(Chunk!Chunks(s))
  PROVE  /\ Chunk!ByteOffset(s, x) \in 0..Len(s) /\ Chunk!ByteOffset(s, x) \in Nat
         /\ x = 0 => Chunk!ByteOffset(s, x) = 0
         /\ x = Len(Chunk!Chunks(s)) => Chunk!ByteOffset(s, x) = Len(s)
         /\ x < Len(Chunk!Chunks(s)) =>
              Chunk!ByteOffset(s, x) = x * ChunkSize /\ x * ChunkSize < Len(s)
<1>1. ChunkSize \in Nat \ {0} /\ x \in Nat /\ Len(s) \in Nat /\ Len(Chunk!Chunks(s)) \in Nat
  BY EngineAssumption, LenProperties, ChunkCount
<1>2. x < Len(Chunk!Chunks(s)) <=> x * ChunkSize < Len(s)
  BY <1>1, ChunkCount
<1>3. PICK p \in Nat : p = x * ChunkSize
  BY <1>1
<1>4. Chunk!ByteOffset(s, x) = Smaller(p, Len(s))
  BY <1>3, ChunkWords DEF Chunk!ByteOffset
<1>5. x = 0 => p = 0
  BY <1>1, <1>3
<1>6. x = Len(Chunk!Chunks(s)) => ~(p < Len(s))
  BY <1>1, <1>2, <1>3
<1> QED BY <1>1, <1>2, <1>3, <1>4, <1>5, <1>6 DEF Smaller

\* The bytes of a chunk are those from where it begins to where the next one does.
LEMMA ChunkIs ==
  ASSUME NEW S, NEW s \in Seq(S), NEW x \in Nat, x < Len(Chunk!Chunks(s))
  PROVE  LET first == Chunk!ByteOffset(s, x)
             next  == Chunk!ByteOffset(s, x + 1)
         IN  /\ first \in Nat /\ next \in Nat /\ first < next /\ next <= Len(s)
             /\ Len(Chunk!Chunks(s)[x + 1]) = next - first
             /\ \A r \in 1..(next - first) : Chunk!Chunks(s)[x + 1][r] = s[first + r]
<1>1. PICK c \in Nat \ {0} : c = ChunkSize
  BY EngineAssumption
<1>2. PICK l \in Nat : l = Len(s)
  BY LenProperties
<1>3. PICK p \in Nat, q \in Nat : p = x * c /\ q = (x + 1) * c /\ q = p + c
  <2>1. x * c \in Nat /\ (x + 1) * c \in Nat /\ (x + 1) * c = (x * c) + c
    BY <1>1
  <2> QED BY <2>1
<1>4. p < l
  BY <1>1, <1>2, <1>3, ChunkCount
<1>5. PICK z \in Nat : z = Smaller(q, l)
  BY <1>2 DEF Smaller
<1>6. p < z /\ z <= l
  BY <1>1, <1>2, <1>3, <1>4, <1>5 DEF Smaller
<1>7. Chunk!ByteOffset(s, x) = p /\ Chunk!ByteOffset(s, x + 1) = z
  BY <1>1, <1>2, <1>3, <1>4, <1>5, ChunkWords DEF Chunk!ByteOffset, Smaller
<1>8. Chunk!Chunks(s)[x + 1] = SubSeq(s, p + 1, p + (z - p))
  <2>1. x + 1 \in 1..((l + c - 1) \div c)
    <3>1. DOMAIN Chunk!Chunks(s) = 1..((l + c - 1) \div c)
      BY <1>1, <1>2 DEF Chunk!Chunks
    <3>2. Chunk!Chunks(s) \in Seq(Seq(S)) /\ Len(Chunk!Chunks(s)) \in Nat
      BY ChunkCount
    <3>3. DOMAIN Chunk!Chunks(s) = 1..Len(Chunk!Chunks(s))
      BY <3>2, LenProperties
    <3>4. x + 1 \in 1..Len(Chunk!Chunks(s))
      BY <3>2
    <3> QED BY <3>1, <3>3, <3>4
  <2>2. Chunk!Chunks(s)[x + 1] = SubSeq(s, ((x + 1) - 1) * c + 1, Smaller((x + 1) * c, l))
    BY <1>1, <1>2, <2>1, ChunkWords DEF Chunk!Chunks
  <2>3. (x + 1) - 1 = x /\ p + (z - p) = z
    BY <1>3, <1>5
  <2> QED BY <1>3, <1>5, <2>2, <2>3
<1>9. PICK n \in Nat : n = z - p /\ p + n <= Len(s)
  BY <1>2, <1>6
<1>10. /\ Len(Chunk!Chunks(s)[x + 1]) = z - p
       /\ \A r \in 1..(z - p) : Chunk!Chunks(s)[x + 1][r] = s[p + r]
  <2>1. Chunk!Chunks(s)[x + 1] = SubSeq(s, p + 1, p + n)
    BY <1>8, <1>9
  <2>2. /\ Len(SubSeq(s, p + 1, p + n)) = n
        /\ \A r \in 1..n : SubSeq(s, p + 1, p + n)[r] = s[p + r]
    BY <1>9, Slice
  <2> QED BY <1>9, <2>1, <2>2
<1> QED BY <1>2, <1>6, <1>7, <1>10

\* Later chunks begin later.
LEMMA OffsetsGrow ==
  ASSUME NEW S, NEW s \in Seq(S), NEW x \in Nat, NEW y \in Nat, x < y,
         y <= Len(Chunk!Chunks(s))
  PROVE  Chunk!ByteOffset(s, x) < Chunk!ByteOffset(s, y)
<1>1. PICK c \in Nat \ {0} : c = ChunkSize
  BY EngineAssumption
<1>2. Len(Chunk!Chunks(s)) \in Nat /\ Len(s) \in Nat
  BY ChunkCount, LenProperties
<1>3. Chunk!ByteOffset(s, x) = x * c /\ x * c < Len(s)
  BY <1>1, <1>2, OffsetIs
<1>4. CASE y = Len(Chunk!Chunks(s))
  BY <1>2, <1>3, <1>4, OffsetIs
<1>5. CASE y < Len(Chunk!Chunks(s))
  <2>1. Chunk!ByteOffset(s, y) = y * c
    BY <1>1, <1>2, <1>5, OffsetIs
  <2>2. PICK d1 \in Nat \ {0} : d1 = y - x
    OBVIOUS
  <2>3. y * c = (x * c) + (d1 * c) /\ d1 * c > 0
    <3>1. y = x + d1
      BY <2>2
    <3>2. (x + d1) * c = (x * c) + (d1 * c)
      BY <1>1
    <3>3. d1 * c > 0
      BY <1>1
    <3> QED BY <3>1, <3>2, <3>3
  <2>4. PICK u \in Nat, v \in Nat : u = x * c /\ v = d1 * c
    BY <1>1
  <2> QED BY <1>3, <2>1, <2>3, <2>4
<1> QED BY <1>2, <1>4, <1>5

\* As many chunks of both as are equal are as many bytes of both that are.
LEMMA ChunksMatch ==
  ASSUME NEW S, NEW s \in Seq(S), NEW t \in Seq(S), NEW x \in Nat, NEW y \in Nat, NEW n \in Nat,
         Matches(Chunk!Chunks(s), Chunk!Chunks(t), x, y, n)
  PROVE  LET m == Chunk!ByteOffset(s, x + n) - Chunk!ByteOffset(s, x) IN
         /\ Chunk!ByteOffset(t, y + n) - Chunk!ByteOffset(t, y) = m
         /\ Matches(s, t, Chunk!ByteOffset(s, x), Chunk!ByteOffset(t, y), m)
<1>1. x + n <= Len(Chunk!Chunks(s)) /\ y + n <= Len(Chunk!Chunks(t))
  BY DEF Matches
<1>2. Len(Chunk!Chunks(s)) \in Nat /\ Len(Chunk!Chunks(t)) \in Nat
  BY ChunkCount
<1> DEFINE F(m) == Chunk!ByteOffset(s, x + m)
           G(m) == Chunk!ByteOffset(t, y + m)
           Alike(m) == /\ F(m) \in Nat /\ G(m) \in Nat /\ F(0) <= F(m) /\ G(0) <= G(m)
                       /\ F(m) <= Len(s) /\ G(m) <= Len(t)
                       /\ G(m) - G(0) = F(m) - F(0)
                       /\ \A r \in 1..(F(m) - F(0)) : s[F(0) + r] = t[G(0) + r]
           U == {m \in 0..n : Alike(m)}
<1>3. F(0) \in Nat /\ G(0) \in Nat /\ F(0) <= Len(s) /\ G(0) <= Len(t)
  <2>1. x + 0 \in 0..Len(Chunk!Chunks(s)) /\ y + 0 \in 0..Len(Chunk!Chunks(t))
    BY <1>1, <1>2
  <2> QED BY <2>1, OffsetIs
<1>4. 0 \in U
  <2>1. 1..(F(0) - F(0)) = {} /\ G(0) - G(0) = F(0) - F(0) /\ F(0) <= F(0) /\ G(0) <= G(0)
    <3> HIDE DEF F, G
    <3> QED BY <1>3
  <2> QED BY <1>3, <2>1
<1>5. ASSUME NEW m \in 0..(n - 1), m \in U PROVE m + 1 \in U
  <2>1. /\ x + m \in Nat /\ x + m < Len(Chunk!Chunks(s)) /\ x + (m + 1) = (x + m) + 1
        /\ y + m \in Nat /\ y + m < Len(Chunk!Chunks(t)) /\ y + (m + 1) = (y + m) + 1
    BY <1>1, <1>2
  <2>2. /\ F(m + 1) \in Nat /\ F(m) < F(m + 1) /\ F(m + 1) <= Len(s)
        /\ Len(Chunk!Chunks(s)[(x + m) + 1]) = F(m + 1) - F(m)
        /\ \A r \in 1..(F(m + 1) - F(m)) : Chunk!Chunks(s)[(x + m) + 1][r] = s[F(m) + r]
    BY <2>1, ChunkIs
  <2>3. /\ G(m + 1) \in Nat /\ G(m) < G(m + 1) /\ G(m + 1) <= Len(t)
        /\ Len(Chunk!Chunks(t)[(y + m) + 1]) = G(m + 1) - G(m)
        /\ \A r \in 1..(G(m + 1) - G(m)) : Chunk!Chunks(t)[(y + m) + 1][r] = t[G(m) + r]
    BY <2>1, ChunkIs
  <2>4. Chunk!Chunks(s)[(x + m) + 1] = Chunk!Chunks(t)[(y + m) + 1]
    <3>1. m + 1 \in 1..n /\ x + (m + 1) = (x + m) + 1 /\ y + (m + 1) = (y + m) + 1
      OBVIOUS
    <3>2. Chunk!Chunks(s)[x + (m + 1)] = Chunk!Chunks(t)[y + (m + 1)]
      BY <3>1 DEF Matches
    <3> QED BY <3>1, <3>2
  <2>5. Alike(m)
    BY <1>5
  <2> DEFINE A == Chunk!Chunks(s)[(x + m) + 1]
             B == Chunk!Chunks(t)[(y + m) + 1]
  <2>6. A = B
    BY <2>4
  <2> HIDE DEF F, G, A, B
  <2>7. /\ F(m + 1) - F(m) = G(m + 1) - G(m)
        /\ \A r \in 1..(F(m + 1) - F(m)) : s[F(m) + r] = t[G(m) + r]
    BY <2>2, <2>3, <2>6 DEF A, B
  <2>8. /\ F(m + 1) - F(0) = G(m + 1) - G(0) /\ F(0) <= F(m + 1) /\ G(0) <= G(m + 1)
        /\ F(0) \in Nat /\ G(0) \in Nat
    <3>1. PICK f0 \in Nat, f1 \in Nat, f2 \in Nat, g0 \in Nat, g1 \in Nat, g2 \in Nat :
            /\ f0 = F(0) /\ f1 = F(m) /\ f2 = F(m + 1)
            /\ g0 = G(0) /\ g1 = G(m) /\ g2 = G(m + 1)
      BY <1>3, <2>2, <2>3, <2>5
    <3>2. f0 <= f1 /\ g0 <= g1 /\ g1 - g0 = f1 - f0 /\ f1 < f2 /\ g1 < g2 /\ f2 - f1 = g2 - g1
      BY <2>2, <2>3, <2>5, <2>7, <3>1
    <3>3. f2 - f0 = g2 - g0 /\ f0 <= f2 /\ g0 <= g2
      BY <3>2
    <3> QED BY <1>3, <3>1, <3>3
  <2>9. \A r \in 1..(F(m + 1) - F(0)) : s[F(0) + r] = t[G(0) + r]
    <3> SUFFICES ASSUME NEW r \in 1..(F(m + 1) - F(0)) PROVE s[F(0) + r] = t[G(0) + r]
      OBVIOUS
    <3>1. CASE r <= F(m) - F(0)
      <4>1. r \in 1..(F(m) - F(0))
        BY <2>5, <2>8, <3>1
      <4> QED BY <2>5, <4>1
    <3>2. CASE ~(r <= F(m) - F(0))
      <4>0. PICK f0 \in Nat, f1 \in Nat, f2 \in Nat, g0 \in Nat, g1 \in Nat :
              f0 = F(0) /\ f1 = F(m) /\ f2 = F(m + 1) /\ g0 = G(0) /\ g1 = G(m)
        BY <2>2, <2>5, <2>8
      <4>1. f0 <= f1 /\ f1 <= f2 /\ g1 - g0 = f1 - f0 /\ r \in 1..(f2 - f0) /\ ~(r <= f1 - f0)
        BY <2>2, <2>5, <3>2, <4>0
      <4>2. PICK r1 \in 1..(f2 - f1) : f1 + r1 = f0 + r /\ g1 + r1 = g0 + r
        <5>1. r - (f1 - f0) \in 1..(f2 - f1)
          BY <4>1
        <5>2. f1 + (r - (f1 - f0)) = f0 + r /\ g1 + (r - (f1 - f0)) = g0 + r
          BY <4>1
        <5> QED BY <5>1, <5>2
      <4>3. r1 \in 1..(F(m + 1) - F(m)) /\ F(m) + r1 = F(0) + r /\ G(m) + r1 = G(0) + r
        BY <4>0, <4>2
      <4> QED BY <2>7, <4>3
    <3> QED BY <3>1, <3>2
  <2>10. Alike(m + 1)
    BY <2>2, <2>3, <2>8, <2>9
  <2>11. m + 1 \in 0..n
    OBVIOUS
  <2> QED BY <2>10, <2>11
<1>6. n \in U
  <2>1. \A m \in 0..(n - 1) : m \in U => m + 1 \in U
    BY <1>5
  <2> HIDE DEF U
  <2>2. \A m \in 0..n : m \in U
    BY <1>4, <2>1, InductionUpTo
  <2> QED BY <2>2
<1>7. Alike(n)
  BY <1>6
<1>8. F(0) = Chunk!ByteOffset(s, x) /\ G(0) = Chunk!ByteOffset(t, y)
  <2>1. x + 0 = x /\ y + 0 = y
    OBVIOUS
  <2> QED BY <2>1
<1>9. /\ F(0) + (F(n) - F(0)) <= Len(s) /\ G(0) + (F(n) - F(0)) <= Len(t)
      /\ \A r \in 1..(F(n) - F(0)) : s[F(0) + r] = t[G(0) + r]
  <2> HIDE DEF F, G
  <2> QED BY <1>3, <1>7
<1>10. Matches(s, t, F(0), G(0), F(n) - F(0))
  BY <1>9 DEF Matches
<1> QED BY <1>7, <1>8, <1>10

\* What is true of chunks is, in bytes, true of the bytes.
LEMMA InBytesTrue ==
  ASSUME a \in Seq(Entries), b \in Seq(Entries), NEW op \in OpcodeSet,
         OpcodeTrue(op, Chunk!Chunks(a), Chunk!Chunks(b))
  PROVE  LET fine == Chunk!InBytes(op) IN
         /\ fine \in OpcodeSet /\ fine.tag = op.tag
         /\ fine.i1 = Chunk!ByteOffset(a, op.i1) /\ fine.i2 = Chunk!ByteOffset(a, op.i2)
         /\ fine.j1 = Chunk!ByteOffset(b, op.j1) /\ fine.j2 = Chunk!ByteOffset(b, op.j2)
         /\ OpcodeTrue(fine, a, b)
<1> DEFINE fine == Chunk!InBytes(op)
           A == Chunk!Chunks(a)
           B == Chunk!Chunks(b)
<1>1. /\ op.tag \in Tags /\ op.i1 \in Nat /\ op.i2 \in Nat /\ op.j1 \in Nat /\ op.j2 \in Nat
      /\ op.i1 <= op.i2 /\ op.i2 <= Len(A) /\ op.j1 <= op.j2 /\ op.j2 <= Len(B)
      /\ Len(A) \in Nat /\ Len(B) \in Nat /\ Len(a) \in Nat /\ Len(b) \in Nat
  BY ChunkCount, LenProperties DEF OpcodeSet, OpcodeTrue
<1>2. fine = Opcode(op.tag, Chunk!ByteOffset(a, op.i1), Chunk!ByteOffset(a, op.i2),
                            Chunk!ByteOffset(b, op.j1), Chunk!ByteOffset(b, op.j2))
  BY ChunkWords DEF Chunk!InBytes
<1>3. /\ fine.tag = op.tag
      /\ fine.i1 = Chunk!ByteOffset(a, op.i1) /\ fine.i2 = Chunk!ByteOffset(a, op.i2)
      /\ fine.j1 = Chunk!ByteOffset(b, op.j1) /\ fine.j2 = Chunk!ByteOffset(b, op.j2)
  BY <1>2 DEF Opcode
<1>4. /\ fine.i1 \in Nat /\ fine.i2 \in Nat /\ fine.i2 <= Len(a)
      /\ fine.j1 \in Nat /\ fine.j2 \in Nat /\ fine.j2 <= Len(b)
  <2>1. op.i1 \in 0..Len(A) /\ op.i2 \in 0..Len(A) /\ op.j1 \in 0..Len(B) /\ op.j2 \in 0..Len(B)
    BY <1>1
  <2> QED BY <1>3, <2>1, OffsetIs
<1>5. /\ op.i1 < op.i2 => fine.i1 < fine.i2
      /\ op.j1 < op.j2 => fine.j1 < fine.j2
      /\ op.i1 = op.i2 => fine.i1 = fine.i2
      /\ op.j1 = op.j2 => fine.j1 = fine.j2
  <2>1. op.i1 < op.i2 => fine.i1 < fine.i2
    BY <1>1, <1>3, OffsetsGrow
  <2>2. op.j1 < op.j2 => fine.j1 < fine.j2
    BY <1>1, <1>3, OffsetsGrow
  <2> QED BY <1>3, <2>1, <2>2
<1>6. fine \in OpcodeSet
  BY <1>1, <1>2, <1>3, <1>4 DEF Opcode, OpcodeSet
<1>7. ASSUME op.tag = "equal"
      PROVE  /\ fine.i2 - fine.i1 = fine.j2 - fine.j1
             /\ Matches(a, b, fine.i1, fine.j1, fine.i2 - fine.i1)
  <2>1. PICK n \in Nat : n = op.i2 - op.i1
    BY <1>1
  <2>2. op.i2 = op.i1 + n /\ op.j2 = op.j1 + n /\ Matches(A, B, op.i1, op.j1, n)
    BY <1>1, <1>7, <2>1 DEF OpcodeTrue
  <2>3. LET m == Chunk!ByteOffset(a, op.i1 + n) - Chunk!ByteOffset(a, op.i1) IN
        /\ Chunk!ByteOffset(b, op.j1 + n) - Chunk!ByteOffset(b, op.j1) = m
        /\ Matches(a, b, Chunk!ByteOffset(a, op.i1), Chunk!ByteOffset(b, op.j1), m)
    BY <1>1, <2>2, ChunksMatch
  <2> QED BY <1>3, <2>2, <2>3
<1>8. OpcodeTrue(fine, a, b)
  <2>1. fine.i1 <= fine.i2 /\ fine.j1 <= fine.j2
    BY <1>1, <1>4, <1>5
  <2>2. /\ op.tag \in {"equal", "replace"} => op.i1 < op.i2 /\ op.j1 < op.j2
        /\ op.tag = "delete" => op.i1 < op.i2 /\ op.j1 = op.j2
        /\ op.tag = "insert" => op.i1 = op.i2
    BY DEF OpcodeTrue
  <2> HIDE DEF fine
  <2> QED BY <1>3, <1>4, <1>5, <1>7, <2>1, <2>2 DEF OpcodeTrue
<1> HIDE DEF fine
<1> QED BY <1>3, <1>6, <1>8 DEF fine

\* Where the walk over chunks stands, or what of it is still to be passed on and refined,
\* and that what has been said leads just there.
ChunkInv ==
  engine = "chunk" =>
    /\ a \in Seq(Entries) /\ b \in Seq(Entries)
    /\ CASE pc = "scan" ->
              /\ i \in 0..Len(Chunk!Chunks(a)) /\ j \in 0..Len(Chunk!Chunks(b))
              /\ SaidUpTo(coarse, Chunk!Chunks(a), Chunk!Chunks(b), i, j)
              /\ ops = <<>>
         [] pc = "done" ->
              \E x \in 0..Len(Chunk!Chunks(a)), y \in 0..Len(Chunk!Chunks(b)) :
                /\ Remains(coarse, Chunk!Chunks(a), Chunk!Chunks(b), x, y)
                /\ SaidUpTo(ops, a, b, Chunk!ByteOffset(a, x), Chunk!ByteOffset(b, y))
         [] pc \in {"anchor", "fine"} ->
              /\ block \in OpcodeSet
              /\ \E x \in 0..Len(Chunk!Chunks(a)), y \in 0..Len(Chunk!Chunks(b)) :
                   /\ Remains(coarse, Chunk!Chunks(a), Chunk!Chunks(b), x, y)
                   /\ block.i2 = Chunk!ByteOffset(a, x) /\ block.j2 = Chunk!ByteOffset(b, y)
                   /\ i \in 0..block.i2 /\ j \in 0..block.j2
                   /\ SaidUpTo(ops, a, b, i, j)
         [] OTHER -> SaidUpTo(ops, a, b, Len(a), Len(b))

\* Before the walk there is nothing to emit, and nothing has been said.
LEMMA ChunkInvInit == Init => ChunkInv
<1> SUFFICES ASSUME Init, engine = "chunk" PROVE ChunkInv
  BY DEF ChunkInv
<1>1. engine \notin TextEngines
  BY DEF TextEngines
<1>2. a \in Upto(MaxBytes) /\ b \in Upto(MaxBytes) /\ Chunk!Start
  BY <1>1 DEF Init
<1>3. a \in Seq(Entries) /\ b \in Seq(Entries)
  <2>1. \A m \in 0..MaxBytes : [1..m -> Entries] \subseteq Seq(Entries)
    OBVIOUS
  <2> QED BY <1>2, <2>1 DEF Upto
<1>4. i = 0 /\ j = 0 /\ coarse = <<>> /\ ops = <<>> /\ pc = "scan"
  BY <1>2 DEF Chunk!Start
<1>5. i \in 0..Len(Chunk!Chunks(a)) /\ j \in 0..Len(Chunk!Chunks(b))
  <2>1. Len(Chunk!Chunks(a)) \in Nat /\ Len(Chunk!Chunks(b)) \in Nat
    BY <1>3, ChunkCount
  <2> QED BY <1>4, <2>1
<1>6. SaidUpTo(coarse, Chunk!Chunks(a), Chunk!Chunks(b), i, j)
  BY <1>4, NothingSaid
<1> QED BY <1>3, <1>4, <1>5, <1>6 DEF ChunkInv

\* The walk over the chunks keeps it: it is the greedy matcher's.
LEMMA ChunkWalk ==
  ASSUME ChunkInv, engine = "chunk", Chunk!Walk, engine' = engine
  PROVE  ChunkInv'
<1> DEFINE A == Chunk!Chunks(a)
           B == Chunk!Chunks(b)
<1>1. /\ a \in Seq(Entries) /\ b \in Seq(Entries) /\ pc = "scan"
      /\ i \in 0..Len(A) /\ j \in 0..Len(B)
      /\ SaidUpTo(coarse, A, B, i, j) /\ ops = <<>>
  <2>1. pc = "scan"
    BY DEF Chunk!Walk, Chunk!Coarse!Next, Chunk!Coarse!Match, Chunk!Coarse!Synchronise,
           Chunk!Coarse!GiveUp, Chunk!Coarse!Finish
  <2> QED BY <2>1 DEF ChunkInv
<1>2. Len(A) \in Nat /\ Len(B) \in Nat /\ i \in Nat /\ j \in Nat /\ i <= Len(A) /\ j <= Len(B)
  <2>1. Len(A) \in Nat /\ Len(B) \in Nat
    BY <1>1, ChunkCount
  <2> QED BY <1>1, <2>1
<1>3. UNCHANGED <<a, b, block, ops>>
  BY DEF Chunk!Walk
<1>4. ASSUME NEW x \in 0..Len(A), NEW y \in 0..Len(B), NEW more,
             SaidUpTo(more, A, B, x, y),
             coarse' = more, i' = x, j' = y, pc' = pc
      PROVE  ChunkInv'
  <2>1. A' = A /\ B' = B
    BY <1>3
  <2> HIDE DEF A, B
  <2>2. /\ pc' = "scan" /\ ops' = <<>> /\ i' \in 0..Len(A)' /\ j' \in 0..Len(B)'
        /\ SaidUpTo(coarse', A', B', i', j')
        /\ a' \in Seq(Entries) /\ b' \in Seq(Entries)
    BY <1>1, <1>3, <1>4, <2>1
  <2> QED BY <2>2 DEF A, B, ChunkInv
<1>5. CASE Chunk!Coarse!Match
  <2>1. PICK x \in i..(Len(A) - 1), n \in 1..Len(B) :
          /\ Matches(A, B, x, j, n)
          /\ Chunk!Coarse!MoveTo(x + n, j + n,
               Change(i, x, j, j) \o <<Opcode("equal", x, x + n, j, j + n)>>)
    BY <1>5, WalkWords DEF Chunk!Coarse!Match
  <2>2. x \in Nat /\ i <= x /\ n \in Nat \ {0}
    BY <1>2
  <2> DEFINE more == coarse \o (Change(i, x, j, j) \o <<Opcode("equal", x, x + n, j, j + n)>>)
  <2>3. SaidUpTo(more, A, B, x + n, j + n)
    <3> HIDE DEF A, B
    <3> QED BY <1>1, <1>2, <2>1, <2>2, SayMatch
  <2>4. coarse' = more /\ i' = x + n /\ j' = j + n /\ pc' = pc
    BY <2>1 DEF Chunk!Coarse!MoveTo
  <2>5. x + n \in 0..Len(A) /\ j + n \in 0..Len(B)
    <3> HIDE DEF A, B
    <3> QED BY <1>2, <2>2, <2>1 DEF Matches
  <2> HIDE DEF more
  <2> QED BY <1>4, <2>3, <2>4, <2>5
<1>6. CASE Chunk!Coarse!Synchronise
  <2>1. PICK y \in (j + 1)..(Len(B) - 1), x \in i..(Len(A) - 1) :
          Chunk!Coarse!MoveTo(x, y, Change(i, x, j, y))
    BY <1>6, WalkWords DEF Chunk!Coarse!Synchronise
  <2>2. x \in i..Len(A) /\ y \in j..Len(B) /\ x \in 0..Len(A) /\ y \in 0..Len(B)
    <3> HIDE DEF A, B
    <3> QED BY <1>2
  <2> DEFINE more == coarse \o Change(i, x, j, y)
  <2>3. SaidUpTo(more, A, B, x, y)
    <3> HIDE DEF A, B
    <3> QED BY <1>1, <1>2, <2>2, SayChange
  <2>4. coarse' = more /\ i' = x /\ j' = y /\ pc' = pc
    BY <2>1 DEF Chunk!Coarse!MoveTo
  <2> HIDE DEF more
  <2> QED BY <1>4, <2>2, <2>3, <2>4
<1>7. CASE Chunk!Coarse!GiveUp
  <2>1. /\ Len(A) \in i..Len(A) /\ Len(B) \in j..Len(B)
        /\ Len(A) \in 0..Len(A) /\ Len(B) \in 0..Len(B)
    <3> HIDE DEF A, B
    <3> QED BY <1>2
  <2> DEFINE more == coarse \o Change(i, Len(A), j, Len(B))
  <2>2. SaidUpTo(more, A, B, Len(A), Len(B))
    <3> HIDE DEF A, B
    <3> QED BY <1>1, <1>2, <2>1, SayChange
  <2>3. coarse' = more /\ i' = Len(A) /\ j' = Len(B) /\ pc' = pc
    BY <1>7, WalkWords DEF Chunk!Coarse!GiveUp, Chunk!Coarse!MoveTo
  <2> HIDE DEF more
  <2> QED BY <1>4, <2>1, <2>2, <2>3
<1>8. CASE Chunk!Coarse!Finish
  <2>1. Len(A) \in i..Len(A) /\ j \in j..Len(B) /\ j = Len(B)
    <3>1. j = Len(B)
      BY <1>8 DEF Chunk!Coarse!Finish
    <3> HIDE DEF A, B
    <3> QED BY <1>2, <3>1
  <2> DEFINE more == coarse \o Change(i, Len(A), j, j)
  <2>2. SaidUpTo(more, A, B, Len(A), Len(B))
    <3> HIDE DEF A, B
    <3> QED BY <1>1, <1>2, <2>1, SayChange
  <2>3. coarse' = more /\ pc' = "done"
    BY <1>8, WalkWords DEF Chunk!Coarse!Finish
  <2> HIDE DEF more
  <2>4. Remains(coarse', A, B, 0, 0)
    <3> HIDE DEF A, B
    <3> QED BY <2>2, <2>3, AllRemains
  <2>5. SaidUpTo(ops', a, b, Chunk!ByteOffset(a, 0), Chunk!ByteOffset(b, 0))
    <3>1. Chunk!ByteOffset(a, 0) = 0 /\ Chunk!ByteOffset(b, 0) = 0
      <4>1. 0 \in 0..Len(A) /\ 0 \in 0..Len(B)
        BY <1>2
      <4> QED BY <1>1, <4>1, OffsetIs
    <3> QED BY <1>1, <1>3, <3>1, NothingSaid
  <2>6. \E x \in 0..Len(A), y \in 0..Len(B) :
          /\ Remains(coarse', A, B, x, y)
          /\ SaidUpTo(ops', a, b, Chunk!ByteOffset(a, x), Chunk!ByteOffset(b, y))
    <3>1. 0 \in 0..Len(A) /\ 0 \in 0..Len(B)
      BY <1>2
    <3> HIDE DEF A, B
    <3> QED BY <2>4, <2>5, <3>1
  <2> QED BY <1>1, <1>3, <2>3, <2>6 DEF ChunkInv
<1> QED BY <1>5, <1>6, <1>7, <1>8 DEF Chunk!Walk, Chunk!Coarse!Next

\* An opcode over chunks is passed on, or taken for refinement.
LEMMA ChunkEmit ==
  ASSUME ChunkInv, engine = "chunk", Chunk!Emit, engine' = engine
  PROVE  ChunkInv'
<1> DEFINE A == Chunk!Chunks(a)
           B == Chunk!Chunks(b)
           h == Head(coarse)
           op == Chunk!InBytes(h)
<1>1. a \in Seq(Entries) /\ b \in Seq(Entries) /\ pc = "done" /\ coarse # <<>>
  BY DEF ChunkInv, Chunk!Emit
<1>2. PICK x \in 0..Len(A), y \in 0..Len(B) :
        /\ Remains(coarse, A, B, x, y)
        /\ SaidUpTo(ops, a, b, Chunk!ByteOffset(a, x), Chunk!ByteOffset(b, y))
  BY <1>1 DEF ChunkInv
<1>3. UNCHANGED <<a, b>> /\ coarse' = Tail(coarse)
  BY DEF Chunk!Emit
<1>4. /\ h \in OpcodeSet /\ OpcodeTrue(h, A, B) /\ h.i1 = x /\ h.j1 = y
      /\ Remains(Tail(coarse), A, B, h.i2, h.j2)
  <2> HIDE DEF A, B
  <2> QED BY <1>1, <1>2, OneFewer
<1>5. /\ op \in OpcodeSet /\ op.tag = h.tag
      /\ op.i1 = Chunk!ByteOffset(a, h.i1) /\ op.i2 = Chunk!ByteOffset(a, h.i2)
      /\ op.j1 = Chunk!ByteOffset(b, h.j1) /\ op.j2 = Chunk!ByteOffset(b, h.j2)
      /\ OpcodeTrue(op, a, b)
  BY <1>1, <1>4, InBytesTrue
<1>6. h.i2 \in 0..Len(A) /\ h.j2 \in 0..Len(B)
  BY <1>4 DEF OpcodeTrue, OpcodeSet
<1>7. A' = A /\ B' = B
  BY <1>3
<1>8. CASE op.tag = "replace"
  <2>1. block' = op /\ i' = op.i1 /\ j' = op.j1 /\ pc' \in {"fine", "anchor"} /\ ops' = ops
    <3>1. Chunk!Emit
      OBVIOUS
    <3> QED BY <1>8, <3>1 DEF Chunk!Emit
  <2>2. i' \in 0..block'.i2 /\ j' \in 0..block'.j2
    <3>1. op.i1 <= op.i2 /\ op.j1 <= op.j2 /\ op.i1 \in Nat /\ op.j1 \in Nat /\ op.i2 \in Nat
          /\ op.j2 \in Nat
      BY <1>5 DEF OpcodeTrue, OpcodeSet
    <3> HIDE DEF op
    <3> QED BY <2>1, <3>1
  <2>3. SaidUpTo(ops', a, b, i', j')
    BY <1>2, <1>4, <1>5, <2>1
  <2>4. \E p \in 0..Len(A), q \in 0..Len(B) :
          /\ Remains(coarse', A, B, p, q)
          /\ block'.i2 = Chunk!ByteOffset(a, p) /\ block'.j2 = Chunk!ByteOffset(b, q)
          /\ i' \in 0..block'.i2 /\ j' \in 0..block'.j2
          /\ SaidUpTo(ops', a, b, i', j')
    <3>1. block'.i2 = Chunk!ByteOffset(a, h.i2) /\ block'.j2 = Chunk!ByteOffset(b, h.j2)
      BY <1>5, <2>1
    <3> HIDE DEF A, B, h, op
    <3> QED BY <1>3, <1>4, <1>6, <2>2, <2>3, <3>1
  <2>5. pc' # "scan" /\ pc' # "done" /\ pc' \in {"anchor", "fine"} /\ block' \in OpcodeSet
    BY <1>5, <2>1
  <2> QED BY <1>1, <1>3, <2>4, <2>5 DEF ChunkInv
<1>9. CASE op.tag # "replace"
  <2>1. ops' = ops \o <<op>> /\ pc' = "done"
    <3>1. ops' = Append(ops, op) /\ pc' = pc
      BY <1>9 DEF Chunk!Emit
    <3>2. ops \in Seq(OpcodeSet)
      BY <1>2 DEF SaidUpTo
    <3> HIDE DEF op
    <3> QED BY <1>1, <1>5, <3>1, <3>2, AppendIsConcat
  <2>2. SaidUpTo(ops \o <<op>>, a, b, op.i2, op.j2)
    <3>1. op.i1 = Chunk!ByteOffset(a, x) /\ op.j1 = Chunk!ByteOffset(b, y)
      BY <1>4, <1>5
    <3> HIDE DEF op
    <3> QED BY <1>2, <1>5, <3>1, SayOne
  <2>3. \E p \in 0..Len(A), q \in 0..Len(B) :
          /\ Remains(coarse', A, B, p, q)
          /\ SaidUpTo(ops', a, b, Chunk!ByteOffset(a, p), Chunk!ByteOffset(b, q))
    <3>1. SaidUpTo(ops', a, b, Chunk!ByteOffset(a, h.i2), Chunk!ByteOffset(b, h.j2))
      BY <1>5, <2>1, <2>2
    <3> HIDE DEF A, B, h, op
    <3> QED BY <1>3, <1>4, <1>6, <3>1
  <2> QED BY <1>1, <1>3, <2>1, <2>3 DEF ChunkInv
<1> QED BY <1>8, <1>9

\* Two of which the first of what is compared agree agree for as long as the loop runs.
LEMMA ReachIs ==
  ASSUME NEW S, NEW s \in Seq(S), NEW t \in Seq(S), NEW x \in Nat, NEW y \in Nat,
         NEW p \in 0..Len(s), NEW q \in 0..Len(t), NEW m \in Nat \ {0},
         Matches(s, t, x, y, m), x + m <= p, y + m <= q
  PROVE  LET n == Extent(SubSeq(s, 1, p), SubSeq(t, 1, q), x, y) IN
         n \in Nat \ {0} /\ x + n <= p /\ y + n <= q /\ Matches(s, t, x, y, n)
<1> DEFINE s1 == SubSeq(s, 1, p)
           t1 == SubSeq(t, 1, q)
<1>1. Len(s) \in Nat /\ Len(t) \in Nat /\ p \in Nat /\ q \in Nat
  BY LenProperties
<1>2. /\ Len(s1) = p /\ \A l \in 1..p : s1[l] = s[l]
      /\ Len(t1) = q /\ \A l \in 1..q : t1[l] = t[l]
  <2>1. 0 + p <= Len(s) /\ 0 + q <= Len(t) /\ 0 + 1 = 1 /\ 0 + p = p /\ 0 + q = q
    BY <1>1
  <2>2. /\ Len(SubSeq(s, 0 + 1, 0 + p)) = p
        /\ \A l \in 1..p : SubSeq(s, 0 + 1, 0 + p)[l] = s[0 + l]
    BY <1>1, <2>1, Slice
  <2>3. /\ Len(SubSeq(t, 0 + 1, 0 + q)) = q
        /\ \A l \in 1..q : SubSeq(t, 0 + 1, 0 + q)[l] = t[0 + l]
    BY <1>1, <2>1, Slice
  <2> QED BY <2>1, <2>2, <2>3
<1> HIDE DEF s1, t1
<1>3. PICK n : n = Extent(s1, t1, x, y)
  OBVIOUS
<1>4. n \in Nat /\ MatchesExactly(s1, t1, x, y, n)
  <2>1. x \in 0..Len(s1) /\ y \in 0..Len(t1) /\ Len(s1) \in Nat /\ Len(t1) \in Nat
    BY <1>1, <1>2
  <2> QED BY <1>3, <2>1, ExtentMatches
<1>5. /\ x + n <= p /\ y + n <= q
      /\ \A l \in 1..n : s1[x + l] = t1[y + l]
      /\ x + n < p /\ y + n < q => s1[x + n + 1] # t1[y + n + 1]
  BY <1>2, <1>4 DEF MatchesExactly, Matches
<1>6. n # 0
  <2> SUFFICES ASSUME n = 0 PROVE FALSE
    OBVIOUS
  <2>1. s[x + 1] = t[y + 1]
    BY DEF Matches
  <2>2. x + 1 \in 1..p /\ y + 1 \in 1..q /\ x < p /\ y < q /\ x + 0 = x /\ y + 0 = y
    BY <1>1
  <2>3. s1[x + 1] # t1[y + 1]
    BY <1>5, <2>2
  <2> QED BY <1>2, <2>1, <2>2, <2>3
<1>7. Matches(s, t, x, y, n)
  <2>1. x + n <= Len(s) /\ y + n <= Len(t)
    BY <1>1, <1>4, <1>5
  <2>2. ASSUME NEW l \in 1..n PROVE s[x + l] = t[y + l]
    <3>1. x + l \in 1..p /\ y + l \in 1..q
      BY <1>1, <1>4, <1>5
    <3> QED BY <1>2, <1>5, <3>1
  <2> QED BY <2>1, <2>2 DEF Matches
<1> QED BY <1>3, <1>4, <1>5, <1>6, <1>7 DEF s1, t1

\* The refinement of a block goes on within the block.
LEMMA RefinedKeeps ==
  ASSUME ChunkInv, engine = "chunk", engine' = engine, pc \in {"anchor", "fine"},
         NEW x2 \in Nat, NEW y2 \in Nat, x2 <= block.i2, y2 <= block.j2, NEW said,
         SaidUpTo(ops, a, b, i, j) => SaidUpTo(ops \o said, a, b, x2, y2),
         Chunk!Refined(x2, y2, said)
  PROVE  ChunkInv'
<1> DEFINE A == Chunk!Chunks(a)
           B == Chunk!Chunks(b)
<1>1. /\ a \in Seq(Entries) /\ b \in Seq(Entries) /\ pc # "scan" /\ pc # "done"
      /\ block \in OpcodeSet
  BY DEF ChunkInv
<1>2. PICK x \in 0..Len(A), y \in 0..Len(B) :
        /\ Remains(coarse, A, B, x, y)
        /\ block.i2 = Chunk!ByteOffset(a, x) /\ block.j2 = Chunk!ByteOffset(b, y)
        /\ i \in 0..block.i2 /\ j \in 0..block.j2
        /\ SaidUpTo(ops, a, b, i, j)
  BY <1>1 DEF ChunkInv
<1>3. ops' = ops \o said /\ i' = x2 /\ j' = y2 /\ UNCHANGED <<a, b, coarse, block, pc>>
  BY DEF Chunk!Refined
<1>4. i' \in 0..block'.i2 /\ j' \in 0..block'.j2
  <2>1. block.i2 \in Nat /\ block.j2 \in Nat
    BY <1>1, <1>2, OffsetIs
  <2> QED BY <1>3, <2>1
<1>5. SaidUpTo(ops', a', b', i', j')
  BY <1>2, <1>3
<1>6. \E p \in 0..Len(A)', q \in 0..Len(B)' :
        /\ Remains(coarse', A', B', p, q)
        /\ block'.i2 = Chunk!ByteOffset(a', p) /\ block'.j2 = Chunk!ByteOffset(b', q)
        /\ i' \in 0..block'.i2 /\ j' \in 0..block'.j2
        /\ SaidUpTo(ops', a', b', i', j')
  <2>1. A' = A /\ B' = B
    BY <1>3
  <2> HIDE DEF A, B
  <2> QED BY <1>2, <1>3, <1>4, <1>5, <2>1
<1> QED BY <1>1, <1>3, <1>6 DEF ChunkInv

\* Where a block is refined, within both sequences.
LEMMA BlockBounds ==
  ASSUME ChunkInv, engine = "chunk", pc \in {"anchor", "fine"}
  PROVE  /\ a \in Seq(Entries) /\ b \in Seq(Entries) /\ Len(a) \in Nat /\ Len(b) \in Nat
         /\ block \in OpcodeSet
         /\ i \in Nat /\ block.i2 \in Nat /\ i <= block.i2 /\ block.i2 <= Len(a)
         /\ j \in Nat /\ block.j2 \in Nat /\ j <= block.j2 /\ block.j2 <= Len(b)
         /\ SaidUpTo(ops, a, b, i, j)
<1>1. /\ a \in Seq(Entries) /\ b \in Seq(Entries) /\ pc # "scan" /\ pc # "done"
      /\ block \in OpcodeSet
  BY DEF ChunkInv
<1>2. PICK x \in 0..Len(Chunk!Chunks(a)), y \in 0..Len(Chunk!Chunks(b)) :
        /\ block.i2 = Chunk!ByteOffset(a, x) /\ block.j2 = Chunk!ByteOffset(b, y)
        /\ i \in 0..block.i2 /\ j \in 0..block.j2
        /\ SaidUpTo(ops, a, b, i, j)
  BY <1>1 DEF ChunkInv
<1>3. Len(a) \in Nat /\ Len(b) \in Nat
  BY <1>1, LenProperties
<1>4. block.i2 \in 0..Len(a) /\ block.j2 \in 0..Len(b)
  BY <1>1, <1>2, OffsetIs
<1> QED BY <1>1, <1>2, <1>3, <1>4

\* An anchor is a number of bytes, at least one, and no more than remain of the side it
\* is taken from.
LEMMA AnchorIs ==
  ASSUME ChunkInv, engine = "chunk", Chunk!Anchoring
  PROVE  /\ Chunk!AnchorInB \in Nat \ {0} /\ j + Chunk!AnchorInB <= block.j2
         /\ Chunk!AnchorInA \in Nat \ {0} /\ i + Chunk!AnchorInA <= block.i2
         /\ Chunk!MinMatch \in Nat \ {0}
<1>1. pc = "anchor" /\ Chunk!Remaining > 0
  BY DEF Chunk!Anchoring
<1>2. /\ i \in Nat /\ block.i2 \in Nat /\ i <= block.i2
      /\ j \in Nat /\ block.j2 \in Nat /\ j <= block.j2
  BY <1>1, BlockBounds
<1>3. PICK p \in Nat, q \in Nat : p = block.i2 - i /\ q = block.j2 - j
  BY <1>2
<1>4. Chunk!LeftInA = p /\ Chunk!LeftInB = q
  BY <1>3 DEF Chunk!LeftInA, Chunk!LeftInB
<1>5. PICK r \in Nat : r = Chunk!Remaining
  BY <1>4, ChunkWords DEF Chunk!Remaining, Smaller
<1>6. r <= p /\ r <= q /\ r > 0
  BY <1>1, <1>4, <1>5, ChunkWords DEF Chunk!Remaining, Smaller
<1>7. Chunk!MinMatch \in Nat \ {0}
  <2>1. (r \div AnchorShare) \in Nat
    BY EngineAssumption
  <2>2. PICK z \in Nat : z = r \div AnchorShare
    BY <2>1
  <2>3. Chunk!MinMatch = Larger(LeastMatch, Smaller(BaseMatch, z))
    BY <1>5, <2>2, ChunkWords DEF Chunk!MinMatch
  <2>4. BaseMatch \in Nat /\ LeastMatch \in Nat \ {0}
    BY EngineAssumption
  <2> QED BY <2>3, <2>4 DEF Larger, Smaller
<1>8. PICK m \in Nat \ {0} : m = Chunk!MinMatch
  BY <1>7
<1>9. Chunk!AnchorInB = Smaller(m, q) /\ Chunk!AnchorInA = Smaller(m, p)
  BY <1>4, <1>8, ChunkWords DEF Chunk!AnchorInB, Chunk!AnchorInA
<1> QED BY <1>2, <1>3, <1>6, <1>7, <1>9 DEF Smaller

\* What bytes.find finds is so, and lies where it was looked for.
LEMMA FindIs ==
  ASSUME NEW s, NEW t, NEW x \in Nat, NEW z, NEW y, NEW n \in Nat,
         NEW p \in Chunk!Find(s, t, x, z, y, n), z \in Int
  PROVE  p \in Nat /\ x <= p /\ p + n <= z /\ Matches(s, t, p, y, n)
<1>1. p \in x..(z - n) /\ Matches(s, t, p, y, n)
  BY ChunkWords DEF Chunk!Find
<1> QED BY <1>1

\* Where the search for an anchor ends is within the block.
LEMMA SearchEnds ==
  ASSUME ChunkInv, engine = "chunk", pc \in {"anchor", "fine"}
  PROVE  /\ Chunk!Smaller(block.i2, i + Chunk!SearchDistance) \in Int
         /\ Chunk!Smaller(block.i2, i + Chunk!SearchDistance) <= block.i2
         /\ Chunk!Smaller(block.j2, j + Chunk!SearchDistance) \in Int
         /\ Chunk!Smaller(block.j2, j + Chunk!SearchDistance) <= block.j2
<1>1. /\ i \in Nat /\ j \in Nat
      /\ block.i1 \in Nat /\ block.i2 \in Nat /\ block.j1 \in Nat /\ block.j2 \in Nat
  BY BlockBounds DEF OpcodeSet
<1>2. PICK p \in Int, q \in Int : p = block.i2 - block.i1 /\ q = block.j2 - block.j1
  BY <1>1
<1>3. Chunk!SearchDistance = Smaller(MostWindow, Larger(LeastWindow, Smaller(p, q)))
  BY <1>2, ChunkWords DEF Chunk!SearchDistance
<1>4. MostWindow \in Nat /\ LeastWindow \in Nat
  BY EngineAssumption
<1>5. PICK n \in Int : n = Chunk!SearchDistance
  BY <1>3, <1>4 DEF Smaller, Larger
<1>6. \A m \in Nat, l \in Nat : Chunk!Smaller(m, l + n) \in Int /\ Chunk!Smaller(m, l + n) <= m
  BY ChunkWords DEF Smaller
<1> QED BY <1>1, <1>5, <1>6

\* difflib's opcodes over a block keep it.
LEMMA ChunkDifflib ==
  ASSUME ChunkInv, engine = "chunk", Chunk!DifflibSays, engine' = engine
  PROVE  ChunkInv'
<1>1. pc = "fine"
  BY DEF Chunk!DifflibSays
<1>2. /\ Len(a) \in Nat /\ Len(b) \in Nat
      /\ i \in Nat /\ block.i2 \in Nat /\ i <= block.i2 /\ block.i2 <= Len(a)
      /\ j \in Nat /\ block.j2 \in Nat /\ j <= block.j2 /\ block.j2 <= Len(b)
  BY <1>1, BlockBounds
<1>3. PICK x \in i..block.i2, y \in j..block.j2 :
        \/ /\ x > i /\ x - i = y - j /\ Matches(a, b, i, j, x - i)
           /\ Chunk!Refined(x, y, <<Opcode("equal", i, x, j, y)>>)
        \/ Chunk!Refined(x, y, Change(i, x, j, y))
  BY ChunkWords DEF Chunk!DifflibSays
<1>4. x \in Nat /\ y \in Nat /\ i <= x /\ x <= block.i2 /\ j <= y /\ y <= block.j2
  BY <1>2
<1>5. ASSUME x > i, x - i = y - j, Matches(a, b, i, j, x - i),
             Chunk!Refined(x, y, <<Opcode("equal", i, x, j, y)>>)
      PROVE  ChunkInv'
  <2>1. PICK n \in Nat \ {0} : n = x - i
    BY <1>2, <1>4, <1>5
  <2>2. x = i + n /\ y = j + n /\ Matches(a, b, i, j, n)
    BY <1>2, <1>4, <1>5, <2>1
  <2> DEFINE said == <<Opcode("equal", i, x, j, y)>>
  <2>3. SaidUpTo(ops, a, b, i, j) => SaidUpTo(ops \o said, a, b, x, y)
    BY <1>2, <2>2, SayEqual
  <2>4. Chunk!Refined(x, y, said)
    BY <1>5
  <2> HIDE DEF said
  <2> QED BY <1>1, <1>4, <2>3, <2>4, RefinedKeeps
<1>6. ASSUME Chunk!Refined(x, y, Change(i, x, j, y)) PROVE ChunkInv'
  <2> DEFINE said == Change(i, x, j, y)
  <2>1. x \in i..Len(a) /\ y \in j..Len(b)
    BY <1>2, <1>4
  <2>2. SaidUpTo(ops, a, b, i, j) => SaidUpTo(ops \o said, a, b, x, y)
    BY <1>2, <2>1, SayChange
  <2>3. Chunk!Refined(x, y, said)
    BY <1>6
  <2> HIDE DEF said
  <2> QED BY <1>1, <1>4, <2>2, <2>3, RefinedKeeps
<1> QED BY <1>3, <1>5, <1>6

\* So does an anchor of b that is found in a.
LEMMA ChunkAnchorB ==
  ASSUME ChunkInv, engine = "chunk", Chunk!AnchorBInA, engine' = engine
  PROVE  ChunkInv'
<1>1. Chunk!Anchoring /\ pc = "anchor"
  BY DEF Chunk!AnchorBInA, Chunk!Anchoring
<1>2. /\ a \in Seq(Entries) /\ b \in Seq(Entries) /\ Len(a) \in Nat /\ Len(b) \in Nat
      /\ i \in Nat /\ block.i2 \in Nat /\ i <= block.i2 /\ block.i2 <= Len(a)
      /\ j \in Nat /\ block.j2 \in Nat /\ j <= block.j2 /\ block.j2 <= Len(b)
  BY <1>1, BlockBounds
<1>3. PICK x \in Chunk!FoundInA :
        LET n == Chunk!Reach(x, j) IN
        Chunk!Refined(x + n, j + n,
                      Change(i, x, j, j) \o <<Opcode("equal", x, x + n, j, j + n)>>)
  BY ChunkWords DEF Chunk!AnchorBInA
<1>4. PICK m \in Nat \ {0} : m = Chunk!AnchorInB /\ j + m <= block.j2
  BY <1>1, AnchorIs
<1>5. x \in Nat /\ i <= x /\ x + m <= block.i2 /\ Matches(a, b, x, j, m)
  <2> DEFINE z == Chunk!Smaller(block.i2, i + Chunk!SearchDistance)
  <2>1. z \in Int /\ z <= block.i2
    BY <1>1, SearchEnds
  <2>2. x \in Chunk!Find(a, b, i, z, j, m)
    BY <1>4 DEF Chunk!FoundInA
  <2> HIDE DEF z
  <2>3. x \in Nat /\ i <= x /\ x + m <= z /\ Matches(a, b, x, j, m)
    BY <1>2, <2>1, <2>2, FindIs
  <2> QED BY <1>2, <2>1, <2>3
<1>6. PICK n : n = Chunk!Reach(x, j)
  OBVIOUS
<1>7. n \in Nat \ {0} /\ x + n <= block.i2 /\ j + n <= block.j2 /\ Matches(a, b, x, j, n)
  <2>1. n = Extent(SubSeq(a, 1, block.i2), SubSeq(b, 1, block.j2), x, j)
    BY <1>6, ChunkWords DEF Chunk!Reach
  <2>2. block.i2 \in 0..Len(a) /\ block.j2 \in 0..Len(b)
    BY <1>2
  <2> QED BY <1>2, <1>4, <1>5, <2>1, <2>2, ReachIs
<1> DEFINE said == Change(i, x, j, j) \o <<Opcode("equal", x, x + n, j, j + n)>>
<1>8. SaidUpTo(ops, a, b, i, j) => SaidUpTo(ops \o said, a, b, x + n, j + n)
  BY <1>2, <1>5, <1>7, SayMatch
<1>9. Chunk!Refined(x + n, j + n, said) /\ x + n \in Nat /\ j + n \in Nat
  BY <1>2, <1>3, <1>5, <1>6, <1>7
<1> HIDE DEF said
<1> QED BY <1>1, <1>7, <1>8, <1>9, RefinedKeeps

\* And one of a that is found in b, with what is inserted before it, if anything is.
LEMMA ChunkAnchorA ==
  ASSUME ChunkInv, engine = "chunk", Chunk!AnchorAInB, engine' = engine
  PROVE  ChunkInv'
<1>1. Chunk!Anchoring /\ pc = "anchor"
  BY DEF Chunk!AnchorAInB, Chunk!Anchoring
<1>2. /\ a \in Seq(Entries) /\ b \in Seq(Entries) /\ Len(a) \in Nat /\ Len(b) \in Nat
      /\ i \in Nat /\ block.i2 \in Nat /\ i <= block.i2 /\ block.i2 <= Len(a)
      /\ j \in Nat /\ block.j2 \in Nat /\ j <= block.j2 /\ block.j2 <= Len(b)
  BY <1>1, BlockBounds
<1>3. PICK y \in Chunk!FoundInB :
        LET n == Chunk!Reach(i, y) IN
        Chunk!Refined(i + n, y + n,
          <<Opcode("insert", i, i, j, y), Opcode("equal", i, i + n, y, y + n)>>)
  BY ChunkWords DEF Chunk!AnchorAInB
<1>4. PICK m \in Nat \ {0} : m = Chunk!AnchorInA /\ i + m <= block.i2
  BY <1>1, AnchorIs
<1>5. y \in Nat /\ j <= y /\ y + m <= block.j2 /\ Matches(a, b, i, y, m)
  <2> DEFINE z == Chunk!Smaller(block.j2, j + Chunk!SearchDistance)
  <2>1. z \in Int /\ z <= block.j2
    BY <1>1, SearchEnds
  <2>2. y \in Chunk!Find(b, a, j, z, i, m)
    BY <1>3, <1>4 DEF Chunk!FoundInB
  <2> HIDE DEF z
  <2>3. y \in Nat /\ j <= y /\ y + m <= z /\ Matches(b, a, y, i, m)
    BY <1>2, <2>1, <2>2, FindIs
  <2>4. Matches(a, b, i, y, m)
    BY <2>3 DEF Matches
  <2> QED BY <1>2, <2>1, <2>3, <2>4
<1>6. PICK n : n = Chunk!Reach(i, y)
  OBVIOUS
<1>7. n \in Nat \ {0} /\ i + n <= block.i2 /\ y + n <= block.j2 /\ Matches(a, b, i, y, n)
  <2>1. n = Extent(SubSeq(a, 1, block.i2), SubSeq(b, 1, block.j2), i, y)
    BY <1>6, ChunkWords DEF Chunk!Reach
  <2>2. block.i2 \in 0..Len(a) /\ block.j2 \in 0..Len(b)
    BY <1>2
  <2> QED BY <1>2, <1>4, <1>5, <2>1, <2>2, ReachIs
<1> DEFINE ins == Opcode("insert", i, i, j, y)
           eq == Opcode("equal", i, i + n, y, y + n)
           said == <<ins, eq>>
<1>8. SaidUpTo(ops, a, b, i, j) => SaidUpTo(ops \o said, a, b, i + n, y + n)
  <2> SUFFICES ASSUME SaidUpTo(ops, a, b, i, j) PROVE SaidUpTo(ops \o said, a, b, i + n, y + n)
    OBVIOUS
  <2>1. ins \in OpcodeSet /\ ins.i1 = i /\ ins.i2 = i /\ ins.j1 = j /\ ins.j2 = y
        /\ ins.tag = "insert"
    BY <1>2, <1>5 DEF Opcode, OpcodeSet, Tags
  <2>2. OpcodeTrue(ins, a, b)
    BY <1>2, <1>5, <1>7, <2>1 DEF OpcodeTrue
  <2>3. eq \in OpcodeSet
    BY <1>2, <1>5, <1>7 DEF Opcode, OpcodeSet, Tags
  <2>4. SaidUpTo(ops \o <<ins>>, a, b, i, y)
    <3> HIDE DEF ins
    <3> QED BY <2>1, <2>2, SayOne
  <2>5. SaidUpTo((ops \o <<ins>>) \o <<eq>>, a, b, i + n, y + n)
    <3> HIDE DEF ins
    <3> QED BY <1>2, <1>5, <1>7, <2>4, SayEqual
  <2>6. (ops \o <<ins>>) \o <<eq>> = ops \o said
    <3>1. ops \in Seq(OpcodeSet)
      BY DEF SaidUpTo
    <3>2. <<ins>> \in Seq(OpcodeSet) /\ <<eq>> \in Seq(OpcodeSet) /\ ins \in OpcodeSet /\ eq \in OpcodeSet
      BY <2>1, <2>3
    <3> HIDE DEF ins, eq
    <3>3. <<ins>> \o <<eq>> = <<ins, eq>>
      <4>1. /\ <<ins>> \o <<eq>> \in Seq(OpcodeSet) /\ Len(<<ins>> \o <<eq>>) = 2
            /\ (<<ins>> \o <<eq>>)[1] = ins /\ (<<ins>> \o <<eq>>)[2] = eq
        BY <3>2
      <4>2. <<ins, eq>> \in Seq(OpcodeSet) /\ Len(<<ins, eq>>) = 2
        BY <3>2
      <4>3. <<ins, eq>>[1] = ins /\ <<ins, eq>>[2] = eq
        OBVIOUS
      <4>4. \A m1 \in 1..2 : (<<ins>> \o <<eq>>)[m1] = <<ins, eq>>[m1]
        <5>1. \A m1 \in 1..2 : m1 = 1 \/ m1 = 2
          OBVIOUS
        <5> QED BY <4>1, <4>3, <5>1
      <4> QED BY <4>1, <4>2, <4>4, SeqEqual
    <3>4. (ops \o <<ins>>) \o <<eq>> = ops \o (<<ins>> \o <<eq>>)
      BY <3>1, <3>2, ConcatAssociative
    <3> QED BY <3>3, <3>4
  <2> QED BY <2>5, <2>6
<1>9. Chunk!Refined(i + n, y + n, said) /\ i + n \in Nat /\ y + n \in Nat
  BY <1>2, <1>3, <1>5, <1>6, <1>7
<1> HIDE DEF said
<1> QED BY <1>1, <1>7, <1>8, <1>9, RefinedKeeps

\* And a step over bytes that no anchor was found for.
LEMMA ChunkStep ==
  ASSUME ChunkInv, engine = "chunk", Chunk!ReplaceStep, engine' = engine
  PROVE  ChunkInv'
<1>1. Chunk!Anchoring /\ pc = "anchor"
  BY DEF Chunk!ReplaceStep, Chunk!Anchoring
<1>2. /\ Len(a) \in Nat /\ Len(b) \in Nat
      /\ i \in Nat /\ block.i2 \in Nat /\ i <= block.i2 /\ block.i2 <= Len(a)
      /\ j \in Nat /\ block.j2 \in Nat /\ j <= block.j2 /\ block.j2 <= Len(b)
  BY <1>1, BlockBounds
<1>3. PICK n \in Nat : n = Chunk!Step /\ i + n <= block.i2 /\ j + n <= block.j2
  <2>1. PICK p \in Nat, q \in Nat : p = block.i2 - i /\ q = block.j2 - j
    BY <1>2
  <2>2. Chunk!Remaining = Smaller(p, q)
    BY <2>1, ChunkWords DEF Chunk!Remaining, Chunk!LeftInA, Chunk!LeftInB
  <2>3. PICK r \in Nat : r = Chunk!Remaining /\ r <= p /\ r <= q
    BY <2>2 DEF Smaller
  <2>4. PICK m \in Nat : m = Chunk!MinMatch
    BY <1>1, AnchorIs
  <2>5. PICK z \in Nat : z = r \div 4
    OBVIOUS
  <2>6. Chunk!Step = Smaller(r, Larger(m, z))
    BY <2>3, <2>4, <2>5, ChunkWords DEF Chunk!Step
  <2>7. Chunk!Step \in Nat /\ Chunk!Step <= r
    BY <2>6 DEF Smaller, Larger
  <2> QED BY <1>2, <2>1, <2>3, <2>7, SMTT(60)
<1> DEFINE said == Change(i, i + n, j, j + n)
<1>4. i + n \in i..Len(a) /\ j + n \in j..Len(b) /\ i + n \in Nat /\ j + n \in Nat
  BY <1>2, <1>3
<1>5. SaidUpTo(ops, a, b, i, j) => SaidUpTo(ops \o said, a, b, i + n, j + n)
  BY <1>2, <1>4, SayChange
<1>6. Chunk!Refined(i + n, j + n, said)
  BY <1>3, ChunkWords DEF Chunk!ReplaceStep
<1> HIDE DEF said
<1> QED BY <1>1, <1>3, <1>4, <1>5, <1>6, RefinedKeeps

\* When a block is over, what has been said leads to its end.
LEMMA ChunkBlockDone ==
  ASSUME ChunkInv, engine = "chunk", Chunk!BlockDone, engine' = engine
  PROVE  ChunkInv'
<1> DEFINE A == Chunk!Chunks(a)
           B == Chunk!Chunks(b)
<1>1. pc \in {"anchor", "fine"} /\ pc # "scan" /\ pc # "done"
  BY DEF Chunk!BlockDone
<1>2. /\ a \in Seq(Entries) /\ b \in Seq(Entries) /\ Len(a) \in Nat /\ Len(b) \in Nat
      /\ i \in Nat /\ block.i2 \in Nat /\ i <= block.i2 /\ block.i2 <= Len(a)
      /\ j \in Nat /\ block.j2 \in Nat /\ j <= block.j2 /\ block.j2 <= Len(b)
      /\ SaidUpTo(ops, a, b, i, j)
  BY <1>1, BlockBounds
<1>3. PICK x \in 0..Len(A), y \in 0..Len(B) :
        /\ Remains(coarse, A, B, x, y)
        /\ block.i2 = Chunk!ByteOffset(a, x) /\ block.j2 = Chunk!ByteOffset(b, y)
  BY <1>1 DEF ChunkInv
<1>4. /\ ops' = ops \o Change(i, block.i2, j, block.j2) /\ pc' = "done"
      /\ UNCHANGED <<a, b, coarse>>
  BY ChunkWords DEF Chunk!BlockDone
<1>5. SaidUpTo(ops', a, b, block.i2, block.j2)
  <2>1. block.i2 \in i..Len(a) /\ block.j2 \in j..Len(b)
    BY <1>2
  <2> QED BY <1>2, <1>4, <2>1, SayChange
<1>6. \E p \in 0..Len(A)', q \in 0..Len(B)' :
        /\ Remains(coarse', A', B', p, q)
        /\ SaidUpTo(ops', a', b', Chunk!ByteOffset(a, p)', Chunk!ByteOffset(b, q)')
  <2>1. A' = A /\ B' = B /\ a' = a /\ b' = b /\ coarse' = coarse
    BY <1>4
  <2>2. Chunk!ByteOffset(a, x)' = Chunk!ByteOffset(a, x) /\ Chunk!ByteOffset(b, y)' = Chunk!ByteOffset(b, y)
    BY <1>4
  <2>3. SaidUpTo(ops', a, b, Chunk!ByteOffset(a, x), Chunk!ByteOffset(b, y))
    BY <1>3, <1>5
  <2>4. SaidUpTo(ops', a', b', Chunk!ByteOffset(a, x)', Chunk!ByteOffset(b, y)')
    BY <2>1, <2>2, <2>3
  <2> HIDE DEF A, B
  <2> QED BY <1>3, <2>1, <2>4
<1> QED BY <1>2, <1>4, <1>6 DEF ChunkInv

\* When there are no more chunks, it leads to the end of both sequences.
LEMMA ChunkFinish ==
  ASSUME ChunkInv, engine = "chunk", Chunk!Finish, engine' = engine
  PROVE  ChunkInv'
<1> DEFINE A == Chunk!Chunks(a)
           B == Chunk!Chunks(b)
<1>1. /\ a \in Seq(Entries) /\ b \in Seq(Entries) /\ pc = "done" /\ coarse = <<>>
      /\ pc' = "emitted" /\ UNCHANGED <<a, b, ops>>
  BY DEF ChunkInv, Chunk!Finish
<1>2. PICK x \in 0..Len(A), y \in 0..Len(B) :
        /\ Remains(coarse, A, B, x, y)
        /\ SaidUpTo(ops, a, b, Chunk!ByteOffset(a, x), Chunk!ByteOffset(b, y))
  BY <1>1 DEF ChunkInv
<1>3. x = Len(A) /\ y = Len(B)
  BY <1>1, <1>2 DEF Remains
<1>4. Chunk!ByteOffset(a, x) = Len(a) /\ Chunk!ByteOffset(b, y) = Len(b)
  BY <1>1, <1>3, OffsetIs
<1>5. SaidUpTo(ops, a, b, Len(a), Len(b))
  BY <1>2, <1>4
<1> QED BY <1>1, <1>5 DEF ChunkInv

\* No other step of the matcher touches it, and the delta only reads what it said.
LEMMA ChunkInvNext == ChunkInv /\ [Next]_vars => ChunkInv'
<1> SUFFICES ASSUME ChunkInv, [Next]_vars, engine' = "chunk" PROVE ChunkInv'
  BY DEF ChunkInv
<1>1. CASE RunChunk
  <2>1. engine = "chunk" /\ Chunk!Next /\ engine' = engine
    BY <1>1 DEF RunChunk
  <2> QED BY <2>1, ChunkWalk, ChunkEmit, ChunkDifflib, ChunkAnchorB, ChunkAnchorA, ChunkStep,
             ChunkBlockDone, ChunkFinish DEF Chunk!Next
<1>2. CASE WriteAndApply
  <2>1. engine = "chunk" /\ a' = a /\ b' = b /\ ops' = ops
    BY <1>2, DeltaLeaves DEF WriteAndApply
  <2>2. /\ pc \notin {"scan", "done", "anchor", "fine"}
        /\ pc' \notin {"scan", "done", "anchor", "fine"}
    <3>1. {pc, pc'} \subseteq {"emitted", "optimise", "patch", "patched", "raised"}
      BY <1>2, DeltaLeaves DEF WriteAndApply
    <3> QED BY <3>1
  <2>3. SaidUpTo(ops, a, b, Len(a), Len(b)) /\ a \in Seq(Entries) /\ b \in Seq(Entries)
    BY <2>1, <2>2 DEF ChunkInv
  <2> QED BY <2>1, <2>2, <2>3 DEF ChunkInv
<1>3. CASE UNCHANGED vars
  <2>1. UNCHANGED <<engine, a, b, i, j, ops, pc, coarse, block>>
    BY <1>3 DEF vars, chunkVars
  <2> QED BY <2>1 DEF ChunkInv
<1>4. CASE RunGreedy \/ RunMyers \/ RunDmp \/ RunSes \/ RunDifflib \/ RunRolling
  <2>1. engine' # "chunk"
    BY <1>4 DEF RunGreedy, RunMyers, RunDmp, RunSes, RunDifflib, RunRolling
  <2> QED BY <2>1
<1> QED BY <1>1, <1>2, <1>3, <1>4 DEF Next

\* What the chunk matcher says is so, in order and without a gap, at every step, however
\* the chunks fall and whatever anchors are found in what they leave.
THEOREM ChunkOpcodesLegal == Spec => [](engine = "chunk" => OpcodesLegal)
<1>1. ChunkInv => (engine = "chunk" => OpcodesLegal)
  <2> SUFFICES ASSUME ChunkInv, engine = "chunk" PROVE Legal(ops, a, b)
    BY DEF OpcodesLegal
  <2>1. CASE pc = "scan"
    <3>1. ops = <<>>
      BY <2>1 DEF ChunkInv
    <3> QED BY <3>1, NothingSaid DEF SaidUpTo
  <2>2. CASE pc # "scan"
    <3>1. \E x, y : SaidUpTo(ops, a, b, x, y)
      BY <2>2 DEF ChunkInv
    <3> QED BY <3>1 DEF SaidUpTo
  <2> QED BY <2>1, <2>2
<1> QED BY <1>1, ChunkInvInit, ChunkInvNext, PTL DEF Spec

\* When it has come to its end, it has accounted for every byte of both.
THEOREM ChunkOpcodesCover == Spec => [](engine = "chunk" => OpcodesCover)
<1>1. ChunkInv => (engine = "chunk" => OpcodesCover)
  <2> SUFFICES ASSUME ChunkInv, engine = "chunk", Compared PROVE Covers(ops, a, b)
    BY DEF OpcodesCover
  <2>1. pc = "emitted"
    BY DEF Compared, TextEngines
  <2>2. SaidUpTo(ops, a, b, Len(a), Len(b))
    BY <2>1 DEF ChunkInv
  <2> QED BY <2>2 DEF SaidUpTo, Covers
<1> QED BY <1>1, ChunkInvInit, ChunkInvNext, PTL DEF Spec

Octets == 0..(Byte - 1)

-------------------------------------------------------------------------------
(* Bytes, and the bytes of an offset. *)

\* The difference of two bytes is a byte, and undone by adding it.
LEMMA ByteBack ==
  ASSUME NEW p \in Octets, NEW q \in Octets
  PROVE  (q - p) % Byte \in Octets /\ (p + ((q - p) % Byte)) % Byte = q
<1>1. PICK m \in Nat \ {0, 1} : m = Byte
  BY EngineAssumption
<1>2. p \in 0..(m - 1) /\ q \in 0..(m - 1) /\ p \in Int /\ q \in Int
  BY <1>1 DEF Octets
<1>3. PICK z \in Int : z = q - p
  BY <1>2
<1>4. PICK r \in 0..(m - 1) : r = z % m
  BY RemainderIs
<1>5. (r + p) % m = (z + p) % m
  BY <1>2, <1>4, RemainderOfSum
<1>6. z + p = q /\ r + p = p + r
  BY <1>2, <1>3, <1>4
<1>7. q % m = q
  BY <1>2, RemainderOnce
<1>8. (p + r) % m = q
  BY <1>5, <1>6, <1>7
<1> QED BY <1>1, <1>3, <1>4, <1>8 DEF Octets

\* No difference makes the same byte.
LEMMA ByteSame ==
  ASSUME NEW p \in Octets
  PROVE  (p + 0) % Byte = p /\ 0 \in Octets
<1>1. PICK m \in Nat \ {0, 1} : m = Byte
  BY EngineAssumption
<1>2. p \in 0..(m - 1) /\ p + 0 = p
  BY <1>1 DEF Octets
<1>3. p % m = p
  BY <1>2, RemainderOnce
<1> QED BY <1>1, <1>2, <1>3 DEF Octets

\* What is left of a size, byte by byte.
LEMMA LeftIs ==
  ASSUME NEW n \in Nat
  PROVE  /\ Delta!LeftAfter(n) \in [0..OffWidth -> Nat] /\ Delta!LeftAfter(n)[0] = n
         /\ \A m \in 1..OffWidth :
              Delta!LeftAfter(n)[m] = Delta!LeftAfter(n)[m - 1] \div Byte
<1> DEFINE left[m \in 0..OffWidth] == IF m = 0 THEN n ELSE left[m - 1] \div Byte
           step == [m \in 1..OffWidth |-> [x \in Nat |-> x \div Byte]]
<1>1. OffWidth \in Nat /\ Byte \in Nat \ {0}
  BY EngineAssumption
<1>2. step \in [1..OffWidth -> [Nat -> Nat]]
  <2>1. \A x \in Nat : x \div Byte \in Nat
    BY <1>1
  <2> QED BY <2>1
<1>3. PICK f \in [0..OffWidth -> Nat] : Iterates(f, OffWidth, n, step)
  <2> HIDE DEF step
  <2> QED BY <1>1, <1>2, Iteration
<1>4. f[0] = n /\ \A m \in 1..OffWidth : f[m] = f[m - 1] \div Byte
  <2>1. \A m \in 1..OffWidth : m - 1 \in 0..OffWidth
    BY <1>1
  <2>2. \A m \in 1..OffWidth : f[m - 1] \in Nat
    BY <2>1
  <2> QED BY <1>3, <2>2 DEF Iterates
<1>5. f = [m \in 0..OffWidth |-> IF m = 0 THEN n ELSE f[m - 1] \div Byte]
  <2>1. f = [m \in 0..OffWidth |-> f[m]]
    OBVIOUS
  <2>2. \A m \in 0..OffWidth : m # 0 => m \in 1..OffWidth
    OBVIOUS
  <2> QED BY <1>4, <2>1, <2>2
<1>6. left = [m \in 0..OffWidth |-> IF m = 0 THEN n ELSE left[m - 1] \div Byte]
  BY <1>5
<1>7. Delta!LeftAfter(n) = left
  BY DEF Delta!LeftAfter
<1> HIDE DEF left, step
<1> DEFINE g == Delta!LeftAfter(n)
<1>8. g = [m \in 0..OffWidth |-> IF m = 0 THEN n ELSE g[m - 1] \div Byte]
  BY <1>6, <1>7
<1> HIDE DEF g
<1>9. g[0] = n /\ \A m \in 1..OffWidth : g[m] = g[m - 1] \div Byte
  <2>1. 0 \in 0..OffWidth /\ \A m \in 1..OffWidth : m \in 0..OffWidth /\ m # 0
    BY <1>1
  <2> QED BY <1>8, <2>1
<1> DEFINE R == {m \in 0..OffWidth : g[m] \in Nat}
<1>10. \A m \in 0..OffWidth : m \in R
  <2>1. 0 \in R
    BY <1>1, <1>9
  <2>2. ASSUME NEW m \in 0..(OffWidth - 1), m \in R PROVE m + 1 \in R
    <3>1. m + 1 \in 1..OffWidth /\ (m + 1) - 1 = m /\ m + 1 \in 0..OffWidth
      BY <1>1
    <3>2. g[m + 1] = g[m] \div Byte /\ g[m] \in Nat
      BY <1>9, <2>2, <3>1
    <3>3. g[m] \div Byte \in Nat
      BY <1>1, <3>2, SMTT(60)
    <3> QED BY <3>1, <3>2, <3>3
  <2> HIDE DEF R
  <2>3. \A m \in 0..(OffWidth - 1) : m \in R => m + 1 \in R
    BY <2>2
  <2> QED BY <1>1, <2>1, <2>3, InductionUpTo
<1>11. g \in [0..OffWidth -> Nat]
  BY <1>8, <1>10
<1> QED BY <1>9, <1>11 DEF g

\* An offset that fits is read back as it was written.
LEMMA OffsetBack ==
  ASSUME NEW v \in Int,
         LET n == IF v < 0 THEN -v ELSE v IN n <= MaxBytes
  PROVE  Delta!ReadOff(Delta!WriteOff(v)) = v
<1> DEFINE n == IF v < 0 THEN -v ELSE v
           W == OffWidth
           H == Byte \div 2
           l == Delta!LeftAfter(n)
           w == Delta!WriteOff(v)
           digit(m) == l[m - 1] % Byte
<1>1. W \in Nat \ {0} /\ Byte \in Nat \ {0, 1} /\ n \in Nat
  BY EngineAssumption
<1>2. /\ l \in [0..W -> Nat] /\ l[0] = n
      /\ \A m \in 1..W : l[m] = l[m - 1] \div Byte
  <2> HIDE DEF n
  <2> QED BY <1>1, LeftIs
<1>3. H \in Nat \ {0} /\ H + H <= Byte
  BY <1>1
<1>4. l[W - 1] < H /\ l[W - 1] \in Nat
  <2>1. n \in 0..MaxBytes
    <3>1. n <= MaxBytes /\ MaxBytes \in Nat
      BY EngineAssumption
    <3> HIDE DEF n
    <3> QED BY <1>1, <3>1
  <2>2. W - 1 \in 0..W
    BY <1>1
  <2> HIDE DEF n
  <2> QED BY <1>2, <2>1, <2>2, OffsetAssumption
<1>5. w = [m \in 1..W |-> IF m = W /\ v < 0 /\ digit(m) < H THEN digit(m) + H ELSE digit(m)]
  BY DEF Delta!WriteOff, Delta!Half
<1> HIDE DEF n, l, w, H
<1>6. digit(W) = l[W - 1]
  <2>1. l[W - 1] \in 0..(Byte - 1)
    BY <1>1, <1>3, <1>4
  <2> QED BY <1>1, <2>1, RemainderOnce
<1>7. w[W] = IF v < 0 THEN l[W - 1] + H ELSE l[W - 1]
  <2>1. W \in 1..W
    BY <1>1
  <2> QED BY <1>4, <1>5, <1>6, <2>1
<1>8. \A m \in 1..(W - 1) : w[m] = l[m - 1] % Byte
  <2>1. \A m \in 1..(W - 1) : m \in 1..W /\ m # W
    BY <1>1
  <2> QED BY <1>5, <2>1
<1>9. w[W] % H = l[W - 1]
  <2>1. l[W - 1] \in 0..(H - 1)
    BY <1>3, <1>4
  <2> QED BY <1>3, <1>7, <2>1, RemainderOnce
<1>10. (w[W] >= H) <=> (v < 0)
  <2>1. PICK x \in Nat, y \in Nat \ {0} : x = l[W - 1] /\ y = H /\ x < y
    BY <1>3, <1>4
  <2> QED BY <1>7, <2>1
<1> DEFINE upTo[m \in 0..(W - 1)] == IF m = 0 THEN w[W] % H ELSE (upTo[m - 1] * Byte) + w[W - m]
           g == [m \in 0..(W - 1) |-> l[(W - 1) - m]]
<1>11. g[0] = l[W - 1] /\ g[W - 1] = n /\ \A m \in 1..(W - 1) : g[m] = (g[m - 1] * Byte) + w[W - m]
  <2>1. 0 \in 0..(W - 1) /\ W - 1 \in 0..(W - 1) /\ (W - 1) - 0 = W - 1 /\ (W - 1) - (W - 1) = 0
    BY <1>1
  <2>2. g[0] = l[W - 1] /\ g[W - 1] = n
    BY <1>2, <2>1
  <2>3. ASSUME NEW m \in 1..(W - 1) PROVE g[m] = (g[m - 1] * Byte) + w[W - m]
    <3>1. PICK p \in 1..(W - 1) : p = W - m
      BY <1>1
    <3>2. /\ (W - 1) - m = p - 1 /\ (W - 1) - (m - 1) = p /\ p \in 1..W /\ p - 1 \in 0..W
          /\ m \in 0..(W - 1) /\ m - 1 \in 0..(W - 1)
      BY <1>1, <3>1
    <3>3. g[m] = l[p - 1] /\ g[m - 1] = l[p] /\ w[W - m] = w[p]
      BY <3>1, <3>2
    <3>4. l[p] = l[p - 1] \div Byte /\ w[p] = l[p - 1] % Byte /\ l[p - 1] \in Nat
      BY <1>2, <1>8, <3>2
    <3>5. PICK x \in Nat : x = l[p - 1]
      BY <3>4
    <3>6. x = ((x \div Byte) * Byte) + (x % Byte)
      BY <1>1
    <3> QED BY <3>3, <3>4, <3>5, <3>6
  <2> QED BY <2>2, <2>3
<1>12. g = [m \in 0..(W - 1) |-> g[m]]
  OBVIOUS
<1> HIDE DEF g
<1>13. g = [m \in 0..(W - 1) |-> IF m = 0 THEN w[W] % H ELSE (g[m - 1] * Byte) + w[W - m]]
  <2>1. \A m \in 0..(W - 1) : m # 0 => m \in 1..(W - 1)
    BY <1>1
  <2> QED BY <1>9, <1>11, <1>12, <2>1
<1>14. upTo = [m \in 0..(W - 1) |-> IF m = 0 THEN w[W] % H ELSE (upTo[m - 1] * Byte) + w[W - m]]
  BY <1>13
<1>15. Delta!ReadOff(w) = IF w[W] >= H THEN -upTo[W - 1] ELSE upTo[W - 1]
  BY DEF Delta!ReadOff, Delta!Half, H
<1> HIDE DEF upTo
<1> DEFINE R == {m \in 0..(W - 1) : upTo[m] = g[m]}
<1>16. \A m \in 0..(W - 1) : m \in R
  <2>1. 0 \in R
    <3>1. 0 \in 0..(W - 1)
      BY <1>1
    <3> QED BY <1>13, <1>14, <3>1
  <2>2. ASSUME NEW m \in 0..((W - 1) - 1), m \in R PROVE m + 1 \in R
    <3>1. m + 1 \in 0..(W - 1) /\ (m + 1) - 1 = m /\ m + 1 # 0
      BY <1>1
    <3>2. /\ upTo[m + 1] = (upTo[m] * Byte) + w[W - (m + 1)]
          /\ g[m + 1] = (g[m] * Byte) + w[W - (m + 1)]
      BY <1>13, <1>14, <3>1
    <3> QED BY <2>2, <3>1, <3>2
  <2>3. W - 1 \in Nat
    BY <1>1
  <2> HIDE DEF R
  <2>4. \A m \in 0..((W - 1) - 1) : m \in R => m + 1 \in R
    BY <2>2
  <2> QED BY <2>1, <2>3, <2>4, InductionUpTo
<1>17. upTo[W - 1] = n
  <2>1. W - 1 \in 0..(W - 1)
    BY <1>1
  <2> QED BY <1>11, <1>16, <2>1
<1>18. n = IF v < 0 THEN -v ELSE v
  BY DEF n
<1>19. Delta!ReadOff(w) = v
  BY <1>10, <1>15, <1>17, <1>18
<1> QED BY <1>19 DEF w
-------------------------------------------------------------------------------
(* Tuples laid end to end. *)

TupleSet == [diff : Nat, extra : Nat, seek : Int]

BlockSet == [ctrl : Seq(TupleSet), diff : Seq(Octets), extra : Seq(Octets)]

\* How far two blocks have been read, and where the old and the new file stand.
PlaceSet == [d : Nat, e : Nat, x : Nat, y : Nat]

Place(d1, e1, x, y) == [d |-> d1, e |-> e1, x |-> x, y |-> y]

\* Diff bytes u, extra bytes v and a seek z make the next bytes of t of those of s.
Makes(u, v, z, s, t, x, y) ==
  /\ u \in Seq(Octets) /\ v \in Seq(Octets) /\ z \in Int
  /\ x + Len(u) <= Len(s) /\ y + Len(u) + Len(v) <= Len(t)
  /\ 0 <= (x + Len(u)) + z /\ (x + Len(u)) + z <= Len(s)
  /\ \A r \in 1..Len(u) : (s[x + r] + u[r]) % Byte = t[y + r]
  /\ \A r \in 1..Len(v) : v[r] = t[y + Len(u) + r]

\* So does the n-th tuple of o, where f has the places between the tuples.
TupleRight(o, f, n, s, t) ==
  LET c == o.ctrl[n]
      p == f[n - 1]
      q == f[n]
  IN /\ q.d = p.d + c.diff /\ q.e = p.e + c.extra
     /\ q.x = (p.x + c.diff) + c.seek /\ q.y = (p.y + c.diff) + c.extra
     /\ q.d <= Len(o.diff) /\ q.e <= Len(o.extra)
     /\ p.x + c.diff <= Len(s) /\ q.x <= Len(s) /\ q.y <= Len(t)
     /\ \A r \in 1..c.diff : (s[p.x + r] + o.diff[p.d + r]) % Byte = t[p.y + r]
     /\ \A r \in 1..c.extra : o.extra[p.e + r] = t[(p.y + c.diff) + r]

\* The tuples of o lead from (x, y) to (x2, y2) and account for its two other blocks.
WritesBy(o, f, s, t, x, y, x2, y2) ==
  /\ f \in [0..Len(o.ctrl) -> PlaceSet]
  /\ f[0] = Place(0, 0, x, y) /\ f[Len(o.ctrl)] = Place(Len(o.diff), Len(o.extra), x2, y2)
  /\ \A n \in 1..Len(o.ctrl) : TupleRight(o, f, n, s, t)

Writes(o, s, t, x, y, x2, y2) ==
  o \in BlockSet /\ \E f : WritesBy(o, f, s, t, x, y, x2, y2)

\* No tuple leads nowhere.
LEMMA WritesNothing ==
  ASSUME NEW s, NEW t, NEW x \in Nat, NEW y \in Nat
  PROVE  Writes(Delta!Empty, s, t, x, y, x, y)
<1> DEFINE o == Delta!Empty
           f == [n \in 0..0 |-> Place(0, 0, x, y)]
<1>1. o \in BlockSet /\ o.ctrl = <<>> /\ o.diff = <<>> /\ o.extra = <<>>
  BY DEF Delta!Empty, BlockSet
<1>2. Place(0, 0, x, y) \in PlaceSet
  BY DEF Place, PlaceSet
<1>3. WritesBy(o, f, s, t, x, y, x, y)
  BY <1>1, <1>2 DEF WritesBy
<1> QED BY <1>1, <1>3 DEF Writes

\* When there is none, that is where they lead, and there are no bytes.
LEMMA NoTuple ==
  ASSUME NEW o, NEW s, NEW t, NEW x, NEW y, NEW x2, NEW y2,
         Writes(o, s, t, x, y, x2, y2), o.ctrl = <<>>
  PROVE  x2 = x /\ y2 = y
<1>1. PICK f : WritesBy(o, f, s, t, x, y, x2, y2)
  BY DEF Writes
<1>2. Place(0, 0, x, y) = Place(Len(o.diff), Len(o.extra), x2, y2)
  BY <1>1 DEF WritesBy
<1> QED BY <1>2 DEF Place

\* One more tuple.
LEMMA WritesOne ==
  ASSUME NEW o, NEW s, NEW t, NEW x, NEW y, NEW x2 \in Nat, NEW y2 \in Nat,
         Len(s) \in Nat, Len(t) \in Nat,
         Writes(o, s, t, x, y, x2, y2),
         NEW u, NEW v, NEW z, Makes(u, v, z, s, t, x2, y2)
  PROVE  Writes([ctrl |-> Append(o.ctrl, Delta!Tuple(Len(u), Len(v), z)),
                 diff |-> o.diff \o u, extra |-> o.extra \o v],
                s, t, x, y, (x2 + Len(u)) + z, (y2 + Len(u)) + Len(v))
<1> DEFINE c == Delta!Tuple(Len(u), Len(v), z)
           more == [ctrl |-> Append(o.ctrl, c), diff |-> o.diff \o u, extra |-> o.extra \o v]
<1>1. PICK f : WritesBy(o, f, s, t, x, y, x2, y2)
  BY DEF Writes
<1>2. /\ o.ctrl \in Seq(TupleSet) /\ o.diff \in Seq(Octets) /\ o.extra \in Seq(Octets)
      /\ u \in Seq(Octets) /\ v \in Seq(Octets) /\ z \in Int
  BY DEF Writes, Makes, BlockSet
<1>3. PICK n \in Nat, ld \in Nat, le \in Nat, lu \in Nat, lv \in Nat :
        n = Len(o.ctrl) /\ ld = Len(o.diff) /\ le = Len(o.extra) /\ lu = Len(u) /\ lv = Len(v)
  BY <1>2, LenProperties
<1>4. c \in TupleSet /\ c.diff = lu /\ c.extra = lv /\ c.seek = z
  BY <1>2, <1>3 DEF Delta!Tuple, TupleSet
<1> HIDE DEF c
<1>5. /\ more.ctrl \in Seq(TupleSet) /\ Len(more.ctrl) = n + 1
      /\ \A m \in 1..n : more.ctrl[m] = o.ctrl[m]
      /\ more.ctrl[n + 1] = c
  BY <1>2, <1>3, <1>4, AppendProperties
<1>6. /\ more.diff \in Seq(Octets) /\ Len(more.diff) = ld + lu
      /\ \A m \in 1..(ld + lu) : more.diff[m] = IF m <= ld THEN o.diff[m] ELSE u[m - ld]
  BY <1>2, <1>3, EndToEnd
<1>7. /\ more.extra \in Seq(Octets) /\ Len(more.extra) = le + lv
      /\ \A m \in 1..(le + lv) : more.extra[m] = IF m <= le THEN o.extra[m] ELSE v[m - le]
  BY <1>2, <1>3, EndToEnd
<1>8. more \in BlockSet
  BY <1>5, <1>6, <1>7 DEF BlockSet
<1> HIDE DEF more
<1>9. /\ x2 + lu <= Len(s) /\ (y2 + lu) + lv <= Len(t)
      /\ 0 <= (x2 + lu) + z /\ (x2 + lu) + z <= Len(s)
      /\ \A r \in 1..lu : (s[x2 + r] + u[r]) % Byte = t[y2 + r]
      /\ \A r \in 1..lv : v[r] = t[(y2 + lu) + r]
  BY <1>3 DEF Makes
<1> DEFINE last == Place(ld + lu, le + lv, (x2 + lu) + z, (y2 + lu) + lv)
           g == [m \in 0..(n + 1) |-> IF m <= n THEN f[m] ELSE last]
<1>10. last \in PlaceSet
  BY <1>2, <1>9 DEF Place, PlaceSet
<1>11. /\ f \in [0..n -> PlaceSet] /\ f[0] = Place(0, 0, x, y) /\ f[n] = Place(ld, le, x2, y2)
       /\ \A m \in 1..n : TupleRight(o, f, m, s, t)
  BY <1>1, <1>3 DEF WritesBy
<1> HIDE DEF last
<1>12. /\ g \in [0..(n + 1) -> PlaceSet] /\ g[n + 1] = last
       /\ \A m \in 0..n : g[m] = f[m]
  BY <1>10, <1>11
<1> HIDE DEF g
<1>13. ASSUME NEW m \in 1..n PROVE TupleRight(more, g, m, s, t)
  <2>1. m \in 0..n /\ m - 1 \in 0..n
    OBVIOUS
  <2>2. g[m] = f[m] /\ g[m - 1] = f[m - 1] /\ more.ctrl[m] = o.ctrl[m]
    BY <1>5, <1>12, <2>1
  <2>3. PICK p \in PlaceSet, q \in PlaceSet, h \in TupleSet :
          p = f[m - 1] /\ q = f[m] /\ h = o.ctrl[m]
    BY <1>2, <1>3, <1>11, <2>1, ElementOfSeq
  <2>4. /\ p.d \in Nat /\ p.e \in Nat /\ q.d \in Nat /\ q.e \in Nat
        /\ h.diff \in Nat /\ h.extra \in Nat
    BY DEF PlaceSet, TupleSet
  <2>5. /\ q.d = p.d + h.diff /\ q.e = p.e + h.extra
        /\ q.x = (p.x + h.diff) + h.seek /\ q.y = (p.y + h.diff) + h.extra
        /\ q.d <= ld /\ q.e <= le
        /\ p.x + h.diff <= Len(s) /\ q.x <= Len(s) /\ q.y <= Len(t)
        /\ \A r \in 1..h.diff : (s[p.x + r] + o.diff[p.d + r]) % Byte = t[p.y + r]
        /\ \A r \in 1..h.extra : o.extra[p.e + r] = t[(p.y + h.diff) + r]
    BY <1>3, <1>11, <2>3 DEF TupleRight
  <2>6. /\ \A r \in 1..h.diff : more.diff[p.d + r] = o.diff[p.d + r]
        /\ \A r \in 1..h.extra : more.extra[p.e + r] = o.extra[p.e + r]
    <3>0. /\ q.d = p.d + h.diff /\ q.d <= ld
          /\ q.e = p.e + h.extra /\ q.e <= le
      BY <2>5
    <3>1. \A r \in 1..h.diff : p.d + r \in 1..(ld + lu) /\ p.d + r <= ld
      BY <2>4, <3>0, SMTT(20)
    <3>2. \A r \in 1..h.extra : p.e + r \in 1..(le + lv) /\ p.e + r <= le
      BY <2>4, <3>0, SMTT(20)
    <3> QED BY <1>6, <1>7, <3>1, <3>2
  <2>7. q.d <= Len(more.diff) /\ q.e <= Len(more.extra)
    BY <1>6, <1>7, <2>4, <2>5, SMTT(20)
  <2> QED BY <2>2, <2>3, <2>5, <2>6, <2>7 DEF TupleRight
<1>14. TupleRight(more, g, n + 1, s, t)
  <2>1. (n + 1) - 1 = n /\ n \in 0..n
    OBVIOUS
  <2>2. g[n] = Place(ld, le, x2, y2)
    BY <1>11, <1>12, <2>1
  <2>3. /\ \A r \in 1..lu : more.diff[ld + r] = u[r]
        /\ \A r \in 1..lv : more.extra[le + r] = v[r]
    <3>1. \A r \in 1..lu : ld + r \in 1..(ld + lu) /\ ~(ld + r <= ld) /\ (ld + r) - ld = r
      OBVIOUS
    <3>2. \A r \in 1..lv : le + r \in 1..(le + lv) /\ ~(le + r <= le) /\ (le + r) - le = r
      OBVIOUS
    <3> QED BY <1>6, <1>7, <3>1, <3>2
  <2>4. /\ g[n].d = ld /\ g[n].e = le /\ g[n].x = x2 /\ g[n].y = y2
        /\ g[n + 1].d = ld + lu /\ g[n + 1].e = le + lv
        /\ g[n + 1].x = (x2 + lu) + z /\ g[n + 1].y = (y2 + lu) + lv
    BY <1>12, <2>2 DEF Place, last
  <2>5. Len(more.diff) = ld + lu /\ Len(more.extra) = le + lv
    BY <1>6, <1>7
  <2>6. /\ \A r \in 1..lu : (s[x2 + r] + more.diff[ld + r]) % Byte = t[y2 + r]
        /\ \A r \in 1..lv : more.extra[le + r] = t[(y2 + lu) + r]
    BY <1>9, <2>3
  <2>7. PICK p, q, h : p = g[n] /\ q = g[n + 1] /\ h = more.ctrl[n + 1]
    OBVIOUS
  <2>8. /\ h.diff = lu /\ h.extra = lv /\ h.seek = z
        /\ p.d = ld /\ p.e = le /\ p.x = x2 /\ p.y = y2
        /\ q.d = ld + lu /\ q.e = le + lv /\ q.x = (x2 + lu) + z /\ q.y = (y2 + lu) + lv
    BY <1>4, <1>5, <2>4, <2>7
  <2>9. /\ q.d = p.d + h.diff /\ q.e = p.e + h.extra
        /\ q.x = (p.x + h.diff) + h.seek /\ q.y = (p.y + h.diff) + h.extra
        /\ q.d <= Len(more.diff) /\ q.e <= Len(more.extra)
        /\ p.x + h.diff <= Len(s) /\ q.x <= Len(s) /\ q.y <= Len(t)
    BY <1>9, <2>5, <2>8
  <2>10. /\ \A r \in 1..h.diff : (s[p.x + r] + more.diff[p.d + r]) % Byte = t[p.y + r]
         /\ \A r \in 1..h.extra : more.extra[p.e + r] = t[(p.y + h.diff) + r]
    BY <2>6, <2>8
  <2> QED BY <2>1, <2>7, <2>9, <2>10 DEF TupleRight
<1>15. WritesBy(more, g, s, t, x, y, (x2 + lu) + z, (y2 + lu) + lv)
  <2>1. \A m \in 1..(n + 1) : m \in 1..n \/ m = n + 1
    OBVIOUS
  <2>2. \A m \in 1..(n + 1) : TupleRight(more, g, m, s, t)
    BY <1>13, <1>14, <2>1
  <2>3. g[0] = Place(0, 0, x, y)
    BY <1>11, <1>12
  <2> QED BY <1>5, <1>6, <1>7, <1>12, <2>2, <2>3 DEF WritesBy, last
<1>16. Writes(more, s, t, x, y, (x2 + lu) + z, (y2 + lu) + lv)
  BY <1>8, <1>15 DEF Writes
<1> QED BY <1>3, <1>16 DEF more, c

\* What the n-th tuple does to the places, in numbers.
LEMMA StepOfPlaces ==
  ASSUME NEW o \in BlockSet, NEW f, NEW s, NEW t, NEW x, NEW y, NEW x2, NEW y2,
         WritesBy(o, f, s, t, x, y, x2, y2), NEW n \in 1..Len(o.ctrl)
  PROVE  /\ o.ctrl[n] \in TupleSet /\ f[n - 1] \in PlaceSet /\ f[n] \in PlaceSet
         /\ f[n].d = f[n - 1].d + o.ctrl[n].diff /\ f[n].e = f[n - 1].e + o.ctrl[n].extra
         /\ f[n].y = (f[n - 1].y + o.ctrl[n].diff) + o.ctrl[n].extra
<1>1. o.ctrl \in Seq(TupleSet)
  BY DEF BlockSet
<1>2. n \in 0..Len(o.ctrl) /\ n - 1 \in 0..Len(o.ctrl)
  BY <1>1, LenProperties
<1>3. TupleRight(o, f, n, s, t) /\ f \in [0..Len(o.ctrl) -> PlaceSet]
  BY DEF WritesBy
<1>4. o.ctrl[n] \in TupleSet
  BY <1>1, ElementOfSeq
<1> QED BY <1>2, <1>3, <1>4 DEF TupleRight

\* Every place after the first tuple is at least as far as the first tuple's end.
LEMMA PlacesGrow ==
  ASSUME NEW o \in BlockSet, NEW f, NEW s, NEW t, NEW x, NEW y, NEW x2, NEW y2,
         WritesBy(o, f, s, t, x, y, x2, y2), NEW n \in 1..Len(o.ctrl)
  PROVE  f[n].d >= f[1].d /\ f[n].e >= f[1].e
<1>1. PICK l \in Nat : l = Len(o.ctrl)
  BY LenProperties DEF BlockSet
<1> DEFINE R == {m \in 0..l : m > 0 => f[m].d >= f[1].d /\ f[m].e >= f[1].e}
<1>2. 0 \in R
  OBVIOUS
<1>3. ASSUME NEW m \in 0..(l - 1), m \in R PROVE m + 1 \in R
  <2>1. m + 1 \in 1..Len(o.ctrl) /\ (m + 1) - 1 = m /\ 1 \in 1..Len(o.ctrl) /\ m + 1 \in 0..l
    BY <1>1
  <2>2. /\ f[1] \in PlaceSet /\ f[m] \in PlaceSet /\ f[m + 1] \in PlaceSet
        /\ o.ctrl[m + 1] \in TupleSet
        /\ f[m + 1].d = f[m].d + o.ctrl[m + 1].diff
        /\ f[m + 1].e = f[m].e + o.ctrl[m + 1].extra
    BY <2>1, StepOfPlaces
  <2>3. /\ f[1].d \in Nat /\ f[1].e \in Nat /\ f[m].d \in Nat /\ f[m].e \in Nat
        /\ f[m + 1].d \in Nat /\ f[m + 1].e \in Nat
        /\ o.ctrl[m + 1].diff \in Nat /\ o.ctrl[m + 1].extra \in Nat
    BY <2>2 DEF PlaceSet, TupleSet
  <2>4. CASE m = 0
    <3>1. f[m + 1].d >= f[1].d /\ f[m + 1].e >= f[1].e
      BY <2>3, <2>4
    <3> QED BY <2>1, <3>1
  <2>5. CASE m # 0
    <3>1. f[m].d >= f[1].d /\ f[m].e >= f[1].e
      BY <1>3, <2>5
    <3>2. f[m + 1].d >= f[1].d
      <4>1. PICK u \in Nat, v \in Nat, w \in Nat :
              u = f[1].d /\ v = f[m].d /\ w = o.ctrl[m + 1].diff
        BY <2>3
      <4>2. f[m + 1].d = v + w /\ v >= u
        BY <2>2, <3>1, <4>1
      <4> QED BY <4>1, <4>2, SMTT(20)
    <3>3. f[m + 1].e >= f[1].e
      <4>1. PICK u \in Nat, v \in Nat, w \in Nat :
              u = f[1].e /\ v = f[m].e /\ w = o.ctrl[m + 1].extra
        BY <2>3
      <4>2. f[m + 1].e = v + w /\ v >= u
        BY <2>2, <3>1, <4>1
      <4> QED BY <4>1, <4>2
    <3> QED BY <2>1, <3>2, <3>3
  <2> QED BY <2>4, <2>5
<1> HIDE DEF R
<1>4. \A m \in 0..l : m \in R
  <2>1. \A m \in 0..(l - 1) : m \in R => m + 1 \in R
    BY <1>3
  <2> QED BY <1>2, <2>1, InductionUpTo
<1>5. n \in R /\ n > 0
  BY <1>1, <1>4
<1> QED BY <1>5 DEF R

\* Counted from c on, places are as far apart, and what lies between two is the same.
LEMMA RestOfLength ==
  ASSUME NEW p \in Nat, NEW q \in Nat, NEW h \in Nat, NEW c \in Nat, NEW l \in Nat,
         q = p + h, q <= l, p - c \in Nat
  PROVE  /\ q - c = (p - c) + h /\ q - c <= l - c
         /\ \A r \in 1..h : (p - c) + r \in 1..(l - c) /\ c + ((p - c) + r) = p + r
OBVIOUS

\* The first tuple makes the next bytes, and the others what comes after them.
LEMMA FirstTuple ==
  ASSUME NEW o, NEW s, NEW t, NEW x, NEW y, NEW x2, NEW y2,
         Len(s) \in Nat, Len(t) \in Nat,
         Writes(o, s, t, x, y, x2, y2), o.ctrl # <<>>
  PROVE  LET c    == Head(o.ctrl)
             u    == SubSeq(o.diff, 1, c.diff)
             v    == SubSeq(o.extra, 1, c.extra)
             rest == [ctrl |-> Tail(o.ctrl),
                      diff |-> SubSeq(o.diff, c.diff + 1, Len(o.diff)),
                      extra |-> SubSeq(o.extra, c.extra + 1, Len(o.extra))]
         IN  /\ x \in Nat /\ y \in Nat
             /\ c \in TupleSet /\ c.diff <= Len(o.diff) /\ c.extra <= Len(o.extra)
             /\ Len(u) = c.diff /\ Len(v) = c.extra
             /\ Makes(u, v, c.seek, s, t, x, y)
             /\ Writes(rest, s, t, (x + c.diff) + c.seek, (y + c.diff) + c.extra, x2, y2)
<1> DEFINE c    == Head(o.ctrl)
           u    == SubSeq(o.diff, 1, c.diff)
           v    == SubSeq(o.extra, 1, c.extra)
           rest == [ctrl |-> Tail(o.ctrl),
                    diff |-> SubSeq(o.diff, c.diff + 1, Len(o.diff)),
                    extra |-> SubSeq(o.extra, c.extra + 1, Len(o.extra))]
<1>1. o \in BlockSet /\ o.ctrl \in Seq(TupleSet) /\ o.diff \in Seq(Octets) /\ o.extra \in Seq(Octets)
  BY DEF Writes, BlockSet
<1>2. PICK f : WritesBy(o, f, s, t, x, y, x2, y2)
  BY DEF Writes
<1>3. PICK n \in Nat \ {0}, ld \in Nat, le \in Nat :
        n = Len(o.ctrl) /\ ld = Len(o.diff) /\ le = Len(o.extra)
  <2>1. Len(o.ctrl) # 0
    BY <1>1, EmptySeq
  <2> QED BY <1>1, <2>1, LenProperties
<1>4. c = o.ctrl[1] /\ c \in TupleSet
  BY <1>1, HeadTailProperties
<1>5. PICK cd \in Nat, ce \in Nat, z \in Int : cd = c.diff /\ ce = c.extra /\ z = c.seek
  BY <1>4 DEF TupleSet
<1>6. /\ Tail(o.ctrl) \in Seq(TupleSet) /\ Len(Tail(o.ctrl)) = n - 1
      /\ \A m \in 1..(n - 1) : Tail(o.ctrl)[m] = o.ctrl[m + 1]
  BY <1>1, <1>3, HeadTailProperties
<1> HIDE DEF c
<1>7. /\ f \in [0..n -> PlaceSet] /\ f[0] = Place(0, 0, x, y) /\ f[n] = Place(ld, le, x2, y2)
      /\ \A m \in 1..n : TupleRight(o, f, m, s, t)
  BY <1>2, <1>3 DEF WritesBy
<1>8. PICK p \in PlaceSet, q \in PlaceSet : p = f[0] /\ q = f[1]
  BY <1>7
<1>9. /\ q.d = p.d + cd /\ q.e = p.e + ce
      /\ q.x = (p.x + cd) + z /\ q.y = (p.y + cd) + ce
      /\ q.d <= ld /\ q.e <= le
      /\ p.x + cd <= Len(s) /\ q.x <= Len(s) /\ q.y <= Len(t)
      /\ \A r \in 1..cd : (s[p.x + r] + o.diff[p.d + r]) % Byte = t[p.y + r]
      /\ \A r \in 1..ce : o.extra[p.e + r] = t[(p.y + cd) + r]
  <2>1. TupleRight(o, f, 1, s, t) /\ 1 - 1 = 0
    BY <1>7
  <2> QED BY <1>3, <1>4, <1>5, <1>8, <2>1 DEF TupleRight
<1>10. p.d = 0 /\ p.e = 0 /\ p.x = x /\ p.y = y /\ x \in Nat /\ y \in Nat /\ q.x \in Nat /\ q.y \in Nat
  BY <1>7, <1>8 DEF Place, PlaceSet
<1>11. /\ q.d = cd /\ q.e = ce /\ q.x = (x + cd) + z /\ q.y = (y + cd) + ce
       /\ cd <= ld /\ ce <= le /\ x + cd <= Len(s) /\ q.x <= Len(s) /\ q.y <= Len(t)
       /\ 0 <= q.x
  <2>1. 0 + cd = cd /\ 0 + ce = ce
    OBVIOUS
  <2> QED BY <1>9, <1>10, <2>1
<1>12. /\ u \in Seq(Octets) /\ Len(u) = cd /\ \A r \in 1..cd : u[r] = o.diff[r]
       /\ v \in Seq(Octets) /\ Len(v) = ce /\ \A r \in 1..ce : v[r] = o.extra[r]
  <2>1. 0 + 1 = 1 /\ 0 + cd = cd /\ 0 + ce = ce /\ 0 + cd <= ld /\ 0 + ce <= le
    BY <1>11
  <2>2. /\ SubSeq(o.diff, 0 + 1, 0 + cd) \in Seq(Octets) /\ Len(SubSeq(o.diff, 0 + 1, 0 + cd)) = cd
        /\ \A r \in 1..cd : SubSeq(o.diff, 0 + 1, 0 + cd)[r] = o.diff[0 + r]
    BY <1>1, <1>3, <2>1, Slice
  <2>3. /\ SubSeq(o.extra, 0 + 1, 0 + ce) \in Seq(Octets) /\ Len(SubSeq(o.extra, 0 + 1, 0 + ce)) = ce
        /\ \A r \in 1..ce : SubSeq(o.extra, 0 + 1, 0 + ce)[r] = o.extra[0 + r]
    BY <1>1, <1>3, <2>1, Slice
  <2>4. \A r \in 1..cd : 0 + r = r
    OBVIOUS
  <2>5. \A r \in 1..ce : 0 + r = r
    OBVIOUS
  <2> QED BY <1>5, <2>1, <2>2, <2>3, <2>4, <2>5
<1>13. /\ rest.diff \in Seq(Octets) /\ Len(rest.diff) = ld - cd
       /\ \A r \in 1..(ld - cd) : rest.diff[r] = o.diff[cd + r]
       /\ rest.extra \in Seq(Octets) /\ Len(rest.extra) = le - ce
       /\ \A r \in 1..(le - ce) : rest.extra[r] = o.extra[ce + r]
  <2>1. PICK md \in Nat, me \in Nat : md = ld - cd /\ me = le - ce /\ cd + md = ld /\ ce + me = le
    BY <1>11
  <2>4. cd + md <= Len(o.diff)
    BY <1>3, <2>1
  <2>5. ce + me <= Len(o.extra)
    BY <1>3, <2>1
  <2>2. /\ SubSeq(o.diff, cd + 1, cd + md) \in Seq(Octets) /\ Len(SubSeq(o.diff, cd + 1, cd + md)) = md
        /\ \A r \in 1..md : SubSeq(o.diff, cd + 1, cd + md)[r] = o.diff[cd + r]
    BY <1>1, <2>4, Slice
  <2>3. /\ SubSeq(o.extra, ce + 1, ce + me) \in Seq(Octets) /\ Len(SubSeq(o.extra, ce + 1, ce + me)) = me
        /\ \A r \in 1..me : SubSeq(o.extra, ce + 1, ce + me)[r] = o.extra[ce + r]
    BY <1>1, <2>5, Slice
  <2> QED BY <1>3, <1>5, <2>1, <2>2, <2>3, ZenonT(60)
<1>14. rest.ctrl = Tail(o.ctrl) /\ rest \in BlockSet
  BY <1>6, <1>13 DEF BlockSet
<1> HIDE DEF u, v, rest
<1>15. Makes(u, v, z, s, t, x, y)
  <2>1. \A r \in 1..cd : (s[x + r] + u[r]) % Byte = t[y + r]
    <3>1. \A r \in 1..cd : (s[x + r] + o.diff[0 + r]) % Byte = t[y + r]
      BY <1>9, <1>10
    <3>2. \A r \in 1..cd : 0 + r = r
      OBVIOUS
    <3> QED BY <1>12, <3>1, <3>2
  <2>2. \A r \in 1..ce : v[r] = t[(y + cd) + r]
    <3>1. \A r \in 1..ce : o.extra[0 + r] = t[(y + cd) + r]
      BY <1>9, <1>10
    <3>2. \A r \in 1..ce : 0 + r = r
      OBVIOUS
    <3> QED BY <1>12, <3>1, <3>2
  <2> QED BY <1>11, <1>12, <2>1, <2>2 DEF Makes
<1> DEFINE g == [m \in 0..(n - 1) |->
                   Place(f[m + 1].d - cd, f[m + 1].e - ce, f[m + 1].x, f[m + 1].y)]
<1>16. \A m \in 0..(n - 1) :
         f[m + 1] \in PlaceSet /\ f[m + 1].d - cd \in Nat /\ f[m + 1].e - ce \in Nat
  <2> SUFFICES ASSUME NEW m \in 0..(n - 1)
               PROVE  f[m + 1] \in PlaceSet /\ f[m + 1].d - cd \in Nat /\ f[m + 1].e - ce \in Nat
    OBVIOUS
  <2>1. m + 1 \in 1..Len(o.ctrl) /\ m + 1 \in 0..n
    BY <1>3
  <2>2. f[m + 1].d >= f[1].d /\ f[m + 1].e >= f[1].e
    BY <1>1, <1>2, <2>1, PlacesGrow
  <2>3. f[m + 1] \in PlaceSet /\ f[1].d = cd /\ f[1].e = ce
    BY <1>7, <1>8, <1>11, <2>1
  <2>4. f[m + 1].d \in Nat /\ f[m + 1].e \in Nat
    BY <2>3 DEF PlaceSet
  <2> QED BY <2>2, <2>3, <2>4
<1>17. /\ g \in [0..(n - 1) -> PlaceSet]
       /\ \A m \in 0..(n - 1) : /\ g[m].d = f[m + 1].d - cd /\ g[m].e = f[m + 1].e - ce
                                /\ g[m].x = f[m + 1].x /\ g[m].y = f[m + 1].y
  <2>1. \A m \in 0..(n - 1) :
          Place(f[m + 1].d - cd, f[m + 1].e - ce, f[m + 1].x, f[m + 1].y) \in PlaceSet
    BY <1>16 DEF Place, PlaceSet
  <2> QED BY <2>1 DEF Place
<1>18. g[0] = Place(0, 0, (x + cd) + z, (y + cd) + ce) /\ g[n - 1] = Place(ld - cd, le - ce, x2, y2)
  <2>1. 0 \in 0..(n - 1) /\ n - 1 \in 0..(n - 1) /\ (n - 1) + 1 = n /\ 0 + 1 = 1
    OBVIOUS
  <2>2. cd - cd = 0 /\ ce - ce = 0
    OBVIOUS
  <2>3. g[0] = Place(f[1].d - cd, f[1].e - ce, f[1].x, f[1].y)
    BY <2>1
  <2>4. g[n - 1] = Place(f[n].d - cd, f[n].e - ce, f[n].x, f[n].y)
    BY <2>1
  <2>5. f[n].d = ld /\ f[n].e = le /\ f[n].x = x2 /\ f[n].y = y2
    BY <1>7 DEF Place
  <2> QED BY <1>8, <1>11, <2>2, <2>3, <2>4, <2>5
<1> HIDE DEF g
<1>19. ASSUME NEW m \in 1..(n - 1) PROVE TupleRight(rest, g, m, s, t)
  <2>1. /\ m \in 0..(n - 1) /\ m - 1 \in 0..(n - 1) /\ (m - 1) + 1 = m /\ (m + 1) - 1 = m
        /\ m + 1 \in 1..n /\ m \in 0..n /\ m + 1 \in 0..n
    OBVIOUS
  <2>2. PICK h, h2, p1, q1, p2, q2 :
          /\ h = o.ctrl[m + 1] /\ p1 = f[m] /\ q1 = f[m + 1]
          /\ h2 = rest.ctrl[m] /\ p2 = g[m - 1] /\ q2 = g[m]
    OBVIOUS
  <2>3. h2 = h /\ h \in TupleSet /\ p1 \in PlaceSet /\ q1 \in PlaceSet
    BY <1>1, <1>3, <1>6, <1>7, <1>14, <2>1, <2>2, ElementOfSeq
  <2>4. /\ p2.d = p1.d - cd /\ p2.e = p1.e - ce /\ p2.x = p1.x /\ p2.y = p1.y
        /\ q2.d = q1.d - cd /\ q2.e = q1.e - ce /\ q2.x = q1.x /\ q2.y = q1.y
        /\ p1.d - cd \in Nat /\ p1.e - ce \in Nat
    BY <1>16, <1>17, <2>1, <2>2
  <2>5. TupleRight(o, f, m + 1, s, t)
    BY <1>7, <2>1
  <2>6. /\ q1.d = p1.d + h.diff /\ q1.e = p1.e + h.extra
        /\ q1.x = (p1.x + h.diff) + h.seek /\ q1.y = (p1.y + h.diff) + h.extra
        /\ q1.d <= ld /\ q1.e <= le
        /\ p1.x + h.diff <= Len(s) /\ q1.x <= Len(s) /\ q1.y <= Len(t)
    BY <1>3, <2>1, <2>2, <2>5 DEF TupleRight
  <2>7. /\ \A r \in 1..h.diff : (s[p1.x + r] + o.diff[p1.d + r]) % Byte = t[p1.y + r]
        /\ \A r \in 1..h.extra : o.extra[p1.e + r] = t[(p1.y + h.diff) + r]
    BY <2>1, <2>2, <2>5 DEF TupleRight
  <2>8. /\ h.diff \in Nat /\ h.extra \in Nat
        /\ p1.d \in Nat /\ p1.e \in Nat /\ q1.d \in Nat /\ q1.e \in Nat
    BY <2>3 DEF PlaceSet, TupleSet
  <2>9. /\ q1.d - cd = (p1.d - cd) + h.diff /\ q1.d - cd <= ld - cd
        /\ \A r \in 1..h.diff : /\ (p1.d - cd) + r \in 1..(ld - cd)
                               /\ cd + ((p1.d - cd) + r) = p1.d + r
    <3>1. PICK p3 \in Nat, q3 \in Nat, h3 \in Nat : p3 = p1.d /\ q3 = q1.d /\ h3 = h.diff
      BY <2>8
    <3>2. q3 = p3 + h3
      BY <2>6, <3>1
    <3>3. q3 <= ld
      BY <2>6, <3>1
    <3>4. p3 - cd \in Nat
      BY <2>4, <3>1
    <3>5. /\ q3 - cd = (p3 - cd) + h3 /\ q3 - cd <= ld - cd
          /\ \A r \in 1..h3 : (p3 - cd) + r \in 1..(ld - cd) /\ cd + ((p3 - cd) + r) = p3 + r
      BY <3>2, <3>3, <3>4, RestOfLength
    <3> QED BY <3>1, <3>5
  <2>10. /\ q1.e - ce = (p1.e - ce) + h.extra /\ q1.e - ce <= le - ce
         /\ \A r \in 1..h.extra : /\ (p1.e - ce) + r \in 1..(le - ce)
                                 /\ ce + ((p1.e - ce) + r) = p1.e + r
    <3>1. PICK p3 \in Nat, q3 \in Nat, h3 \in Nat : p3 = p1.e /\ q3 = q1.e /\ h3 = h.extra
      BY <2>8
    <3>2. q3 = p3 + h3
      BY <2>6, <3>1
    <3>3. q3 <= le
      BY <2>6, <3>1
    <3>4. p3 - ce \in Nat
      BY <2>4, <3>1
    <3>5. /\ q3 - ce = (p3 - ce) + h3 /\ q3 - ce <= le - ce
          /\ \A r \in 1..h3 : (p3 - ce) + r \in 1..(le - ce) /\ ce + ((p3 - ce) + r) = p3 + r
      BY <3>2, <3>3, <3>4, RestOfLength
    <3> QED BY <3>1, <3>5
  <2>11. /\ q2.d = p2.d + h.diff /\ q2.e = p2.e + h.extra
         /\ q2.d <= Len(rest.diff) /\ q2.e <= Len(rest.extra)
    <3>1. Len(rest.diff) = ld - cd /\ Len(rest.extra) = le - ce
      BY <1>13
    <3> QED BY <2>4, <2>9, <2>10, <3>1
  <2>12. /\ \A r \in 1..h.diff : rest.diff[p2.d + r] = o.diff[p1.d + r]
         /\ \A r \in 1..h.extra : rest.extra[p2.e + r] = o.extra[p1.e + r]
    <3>1. \A r \in 1..h.diff : rest.diff[(p1.d - cd) + r] = o.diff[p1.d + r]
      BY <1>13, <2>9
    <3>2. \A r \in 1..h.extra : rest.extra[(p1.e - ce) + r] = o.extra[p1.e + r]
      BY <1>13, <2>10
    <3> QED BY <2>4, <3>1, <3>2
  <2>13. /\ \A r \in 1..h.diff : (s[p2.x + r] + rest.diff[p2.d + r]) % Byte = t[p2.y + r]
         /\ \A r \in 1..h.extra : rest.extra[p2.e + r] = t[(p2.y + h.diff) + r]
    <3>1. p2.x = p1.x /\ p2.y = p1.y
      BY <2>4
    <3> QED BY <2>7, <2>12, <3>1
  <2>14. /\ q2.x = (p2.x + h.diff) + h.seek /\ q2.y = (p2.y + h.diff) + h.extra
         /\ p2.x + h.diff <= Len(s) /\ q2.x <= Len(s) /\ q2.y <= Len(t)
    BY <2>4, <2>6
  <2> QED BY <2>2, <2>3, <2>11, <2>13, <2>14 DEF TupleRight
<1>20. Writes(rest, s, t, (x + cd) + z, (y + cd) + ce, x2, y2)
  <2>1. Len(rest.ctrl) = n - 1
    BY <1>6, <1>14
  <2>2. WritesBy(rest, g, s, t, (x + cd) + z, (y + cd) + ce, x2, y2)
    BY <1>13, <1>17, <1>18, <1>19, <2>1 DEF WritesBy
  <2> QED BY <1>14, <2>2 DEF Writes
<1>21. /\ x \in Nat /\ y \in Nat /\ c \in TupleSet
       /\ c.diff <= Len(o.diff) /\ c.extra <= Len(o.extra)
       /\ Len(u) = c.diff /\ Len(v) = c.extra
  BY <1>3, <1>4, <1>5, <1>10, <1>11, <1>12
<1> QED BY <1>5, <1>15, <1>20, <1>21 DEF u, v, rest, c

-------------------------------------------------------------------------------
(* diff(): a tuple is gathered. *)

\* Opcodes that never go back lead as those of a matcher that may.
LEMMA SaidIsJumped ==
  ASSUME NEW s, NEW t, NEW said, NEW x, NEW y, SaidUpTo(said, s, t, x, y)
  PROVE  JumpedTo(said, s, t, x, y)
<1> DEFINE f == [m \in 0..Len(said) |-> IF m = 0 THEN 0 ELSE said[m].i2]
<1>1. said \in Seq(OpcodeSet) /\ Len(said) \in Nat
  BY LenProperties DEF SaidUpTo
<1>2. PICK n \in Nat : n = Len(said)
  BY <1>1
<1>3. \A m \in 1..n : said[m] \in OpcodeSet /\ said[m].i1 \in Nat /\ said[m].i2 \in Nat
  <2>1. \A m \in 1..n : said[m] \in OpcodeSet
    BY <1>1, <1>2, ElementOfSeq
  <2> QED BY <2>1 DEF OpcodeSet
<1>4. \A m \in 1..n : OpcodeTrue(said[m], s, t)
  BY <1>2 DEF SaidUpTo, Legal
<1>5. \A m \in 1..n : /\ said[m].i1 = IF m = 1 THEN 0 ELSE said[m - 1].i2
                      /\ said[m].j1 = IF m = 1 THEN 0 ELSE said[m - 1].j2
  BY <1>2 DEF SaidUpTo, Legal, InOrder
<1>6. f \in [0..n -> Nat] /\ f[0] = 0 /\ \A m \in 1..n : f[m] = said[m].i2
  <2>1. \A m \in 0..n : m # 0 => m \in 1..n
    OBVIOUS
  <2>2. \A m \in 1..n : m \in 0..n /\ m # 0
    OBVIOUS
  <2> QED BY <1>2, <1>3, <2>1, <2>2
<1> HIDE DEF f
<1>7. \A m \in 1..n : f[m - 1] = said[m].i1
  <2> SUFFICES ASSUME NEW m \in 1..n PROVE f[m - 1] = said[m].i1
    OBVIOUS
  <2>1. m # 1 => m - 1 \in 1..n
    OBVIOUS
  <2> QED BY <1>5, <1>6, <2>1
<1>8. LeadsTo(f, said)
  <2>1. \A m \in 1..n : f[m] = f[m - 1] + (said[m].i2 - said[m].i1)
    <3> SUFFICES ASSUME NEW m \in 1..n PROVE f[m] = f[m - 1] + (said[m].i2 - said[m].i1)
      OBVIOUS
    <3>1. PICK p \in Nat, q \in Nat : p = said[m].i1 /\ q = said[m].i2
      BY <1>3
    <3>2. f[m - 1] = p /\ f[m] = q /\ q = p + (q - p)
      BY <1>6, <1>7, <3>1
    <3> QED BY <3>1, <3>2
  <2> QED BY <1>2, <1>6, <2>1 DEF LeadsTo
<1>9. \A m \in 1..n : JumpTrue(f, said, m, s, t)
  <2> SUFFICES ASSUME NEW m \in 1..n PROVE JumpTrue(f, said, m, s, t)
    OBVIOUS
  <2>1. OpcodeTrue(said[m], s, t) /\ said[m].tag \in Tags
    BY <1>3, <1>4 DEF OpcodeSet
  <2>2. JumpSays(said[m], s, t, said[m].i1, said[m].i2)
    BY <2>1 DEF OpcodeTrue, JumpSays
  <2> QED BY <1>5, <1>6, <1>7, <2>2 DEF JumpTrue
<1>10. f[n] = x
  <2>1. CASE said = <<>>
    <3>1. n = 0
      BY <1>2, <2>1
    <3> QED BY <1>6, <2>1, <3>1 DEF SaidUpTo, ReachedInA
  <2>2. CASE said # <<>>
    <3>1. n # 0
      BY <1>1, <1>2, <2>2, EmptySeq
    <3>2. n \in 1..n
      BY <3>1
    <3> QED BY <1>2, <1>6, <2>2, <3>2 DEF SaidUpTo, ReachedInA
  <2> QED BY <2>1, <2>2
<1> QED BY <1>1, <1>2, <1>8, <1>9, <1>10 DEF JumpedTo, SaidUpTo

\* A tuple that is being gathered.
GatheredSet == [diff : Seq(Octets), extra : Seq(Octets), seek : Int]

\* The tuples of o and the one that is gathered lead to (x, y).
Gathering(o, c, s, t, x, y) ==
  /\ c \in GatheredSet
  /\ \E x0, y0 \in Nat :
       /\ Writes(o, s, t, 0, 0, x0, y0)
       /\ Makes(c.diff, c.extra, c.seek, s, t, x0, y0)
       /\ x = (x0 + Len(c.diff)) + c.seek /\ y = (y0 + Len(c.diff)) + Len(c.extra)

\* They stand within both files.
LEMMA GatheringWithin ==
  ASSUME NEW o, NEW c, NEW s, NEW t, NEW x, NEW y, Len(s) \in Nat, Len(t) \in Nat,
         Gathering(o, c, s, t, x, y)
  PROVE  x \in Nat /\ x <= Len(s) /\ y \in Nat /\ y <= Len(t)
<1>1. PICK x0 \in Nat, y0 \in Nat :
        /\ Makes(c.diff, c.extra, c.seek, s, t, x0, y0)
        /\ x = (x0 + Len(c.diff)) + c.seek /\ y = (y0 + Len(c.diff)) + Len(c.extra)
  BY DEF Gathering
<1>2. PICK ld \in Nat, le \in Nat, z \in Int : ld = Len(c.diff) /\ le = Len(c.extra) /\ z = c.seek
  BY LenProperties DEF Gathering, GatheredSet
<1>3. /\ y0 + ld + le <= Len(t) /\ 0 <= (x0 + ld) + z /\ (x0 + ld) + z <= Len(s)
      /\ x = (x0 + ld) + z /\ y = (y0 + ld) + le
  BY <1>1, <1>2 DEF Makes
<1> QED BY <1>3

\* At first there is neither.
LEMMA NothingGathered ==
  ASSUME NEW s, NEW t, Len(s) \in Nat, Len(t) \in Nat
  PROVE  Gathering(Delta!Empty, Delta!Nothing, s, t, 0, 0)
<1>1. Delta!Nothing \in GatheredSet /\ Delta!Nothing.diff = <<>> /\ Delta!Nothing.extra = <<>>
      /\ Delta!Nothing.seek = 0
  BY DEF Delta!Nothing, GatheredSet
<1>2. Writes(Delta!Empty, s, t, 0, 0, 0, 0)
  BY WritesNothing
<1>3. Makes(<<>>, <<>>, 0, s, t, 0, 0)
  BY DEF Makes
<1> QED BY <1>1, <1>2, <1>3 DEF Gathering

\* A tuple that is written leads to the same place.
LEMMA Flushed ==
  ASSUME NEW o, NEW c, NEW s, NEW t, NEW x, NEW y, Len(s) \in Nat, Len(t) \in Nat,
         Gathering(o, c, s, t, x, y)
  PROVE  Gathering(Delta!WithTuple(o, c), Delta!Nothing, s, t, x, y)
<1>1. PICK x0 \in Nat, y0 \in Nat :
        /\ Writes(o, s, t, 0, 0, x0, y0)
        /\ Makes(c.diff, c.extra, c.seek, s, t, x0, y0)
        /\ x = (x0 + Len(c.diff)) + c.seek /\ y = (y0 + Len(c.diff)) + Len(c.extra)
  BY DEF Gathering
<1>2. Writes(Delta!WithTuple(o, c), s, t, 0, 0, x, y)
  <2>1. Writes([ctrl |-> Append(o.ctrl, Delta!Tuple(Len(c.diff), Len(c.extra), c.seek)),
                diff |-> o.diff \o c.diff, extra |-> o.extra \o c.extra],
               s, t, 0, 0, (x0 + Len(c.diff)) + c.seek, (y0 + Len(c.diff)) + Len(c.extra))
    BY <1>1, WritesOne
  <2> QED BY <1>1, <2>1 DEF Delta!WithTuple
<1>3. x \in Nat /\ x <= Len(s) /\ y \in Nat /\ y <= Len(t)
  BY GatheringWithin
<1>4. Delta!Nothing \in GatheredSet /\ Delta!Nothing.diff = <<>> /\ Delta!Nothing.extra = <<>>
      /\ Delta!Nothing.seek = 0
  BY DEF Delta!Nothing, GatheredSet
<1>5. Makes(<<>>, <<>>, 0, s, t, x, y)
  BY <1>3 DEF Makes
<1>6. x = (x + 0) + 0 /\ y = (y + 0) + 0 /\ Len(<<>>) = 0
  BY <1>3
<1> QED BY <1>2, <1>3, <1>4, <1>5, <1>6 DEF Gathering

\* More diff bytes: the tuple has neither extra bytes nor a seek yet.
LEMMA GatherDiff ==
  ASSUME NEW o, NEW c, NEW s, NEW t, NEW x, NEW y, Len(s) \in Nat, Len(t) \in Nat,
         Gathering(o, c, s, t, x, y), c.extra = <<>>, c.seek = 0,
         NEW w \in Seq(Octets), x + Len(w) <= Len(s), y + Len(w) <= Len(t),
         \A r \in 1..Len(w) : (s[x + r] + w[r]) % Byte = t[y + r]
  PROVE  Gathering(o, [c EXCEPT !.diff = @ \o w], s, t, x + Len(w), y + Len(w))
<1>1. PICK x0 \in Nat, y0 \in Nat :
        /\ Writes(o, s, t, 0, 0, x0, y0)
        /\ Makes(c.diff, c.extra, c.seek, s, t, x0, y0)
        /\ x = (x0 + Len(c.diff)) + c.seek /\ y = (y0 + Len(c.diff)) + Len(c.extra)
  BY DEF Gathering
<1>2. c \in GatheredSet /\ c.diff \in Seq(Octets)
  BY DEF Gathering, GatheredSet
<1>3. PICK ld \in Nat, lw \in Nat : ld = Len(c.diff) /\ lw = Len(w)
  BY <1>2, LenProperties
<1> DEFINE more == c.diff \o w
<1>4. /\ more \in Seq(Octets) /\ Len(more) = ld + lw
      /\ \A r \in 1..(ld + lw) : more[r] = IF r <= ld THEN c.diff[r] ELSE w[r - ld]
  BY <1>2, <1>3, EndToEnd
<1> HIDE DEF more
<1>5. x = x0 + ld /\ y = y0 + ld
  BY <1>1, <1>3
<1>6. (x0 + ld) + lw <= Len(s) /\ (y0 + ld) + lw <= Len(t)
  BY <1>3, <1>5
<1>7. \A r \in 1..(ld + lw) : (s[x0 + r] + more[r]) % Byte = t[y0 + r]
  <2> SUFFICES ASSUME NEW r \in 1..(ld + lw) PROVE (s[x0 + r] + more[r]) % Byte = t[y0 + r]
    OBVIOUS
  <2>1. CASE r <= ld
    <3>1. r \in 1..ld /\ more[r] = c.diff[r]
      BY <1>4, <2>1
    <3> QED BY <1>1, <1>3, <3>1 DEF Makes
  <2>2. CASE ~(r <= ld)
    <3>1. PICK q \in 1..lw : q = r - ld
      BY <2>2
    <3>2. x + q = x0 + r /\ y + q = y0 + r /\ more[r] = w[q]
      BY <1>4, <1>5, <2>2, <3>1
    <3>3. (s[x + q] + w[q]) % Byte = t[y + q]
      BY <1>3, <3>1
    <3> QED BY <3>2, <3>3
  <2> QED BY <2>1, <2>2
<1>8. Makes(more, <<>>, 0, s, t, x0, y0)
  <2>1. /\ x0 + (ld + lw) <= Len(s) /\ (y0 + (ld + lw)) + 0 <= Len(t)
        /\ 0 <= (x0 + (ld + lw)) + 0 /\ (x0 + (ld + lw)) + 0 <= Len(s)
    BY <1>6
  <2> QED BY <1>4, <1>7, <2>1 DEF Makes
<1> DEFINE c2 == [c EXCEPT !.diff = @ \o w]
<1>9. c2 \in GatheredSet /\ c2.diff = more /\ c2.extra = <<>> /\ c2.seek = 0
  BY <1>2, <1>4 DEF GatheredSet, more
<1>10. x + lw = (x0 + (ld + lw)) + 0 /\ y + lw = (y0 + (ld + lw)) + 0
  BY <1>5
<1> HIDE DEF c2
<1>11. Gathering(o, c2, s, t, x + lw, y + lw)
  BY <1>1, <1>4, <1>8, <1>9, <1>10 DEF Gathering
<1> QED BY <1>3, <1>11 DEF c2

\* More extra bytes: it has no seek yet.
LEMMA GatherExtra ==
  ASSUME NEW o, NEW c, NEW s, NEW t, NEW x, NEW y, Len(s) \in Nat, Len(t) \in Nat,
         Gathering(o, c, s, t, x, y), c.seek = 0,
         NEW w \in Seq(Octets), y + Len(w) <= Len(t),
         \A r \in 1..Len(w) : w[r] = t[y + r]
  PROVE  Gathering(o, [c EXCEPT !.extra = @ \o w], s, t, x, y + Len(w))
<1>1. PICK x0 \in Nat, y0 \in Nat :
        /\ Writes(o, s, t, 0, 0, x0, y0)
        /\ Makes(c.diff, c.extra, c.seek, s, t, x0, y0)
        /\ x = (x0 + Len(c.diff)) + c.seek /\ y = (y0 + Len(c.diff)) + Len(c.extra)
  BY DEF Gathering
<1>2. c \in GatheredSet /\ c.diff \in Seq(Octets) /\ c.extra \in Seq(Octets)
  BY DEF Gathering, GatheredSet
<1>3. PICK ld \in Nat, le \in Nat, lw \in Nat :
        ld = Len(c.diff) /\ le = Len(c.extra) /\ lw = Len(w)
  BY <1>2, LenProperties
<1> DEFINE more == c.extra \o w
<1>4. /\ more \in Seq(Octets) /\ Len(more) = le + lw
      /\ \A r \in 1..(le + lw) : more[r] = IF r <= le THEN c.extra[r] ELSE w[r - le]
  BY <1>2, <1>3, EndToEnd
<1> HIDE DEF more
<1>5. y = (y0 + ld) + le /\ x = (x0 + ld) + 0
  BY <1>1, <1>3
<1>6. ((y0 + ld) + le) + lw <= Len(t)
  BY <1>3, <1>5
<1>7. \A r \in 1..(le + lw) : more[r] = t[(y0 + ld) + r]
  <2> SUFFICES ASSUME NEW r \in 1..(le + lw) PROVE more[r] = t[(y0 + ld) + r]
    OBVIOUS
  <2>1. CASE r <= le
    <3>1. r \in 1..le /\ more[r] = c.extra[r]
      BY <1>4, <2>1
    <3>2. c.extra[r] = t[(y0 + ld) + r]
      BY <1>1, <1>3, <3>1 DEF Makes
    <3> QED BY <3>1, <3>2
  <2>2. CASE ~(r <= le)
    <3>1. PICK q \in 1..lw : q = r - le
      BY <2>2
    <3>2. y + q = (y0 + ld) + r /\ more[r] = w[q]
      BY <1>4, <1>5, <2>2, <3>1
    <3>3. w[q] = t[y + q]
      BY <1>3, <3>1
    <3> QED BY <3>2, <3>3
  <2> QED BY <2>1, <2>2
<1>8. Makes(c.diff, more, 0, s, t, x0, y0)
  <2>1. /\ x0 + ld <= Len(s) /\ 0 <= (x0 + ld) + 0 /\ (x0 + ld) + 0 <= Len(s)
        /\ \A r \in 1..ld : (s[x0 + r] + c.diff[r]) % Byte = t[y0 + r]
    BY <1>1, <1>3 DEF Makes
  <2>2. (y0 + ld) + (le + lw) <= Len(t)
    BY <1>6
  <2>3. PICK u : u = c.diff
    OBVIOUS
  <2>4. u \in Seq(Octets) /\ Len(u) = ld /\ \A r \in 1..ld : (s[x0 + r] + u[r]) % Byte = t[y0 + r]
    BY <1>2, <1>3, <2>1, <2>3
  <2>5. Makes(u, more, 0, s, t, x0, y0)
    BY <1>4, <1>7, <2>1, <2>2, <2>4 DEF Makes
  <2> QED BY <2>3, <2>5
<1> DEFINE c2 == [c EXCEPT !.extra = @ \o w]
<1>9. c2 \in GatheredSet /\ c2.diff = c.diff /\ c2.extra = more /\ c2.seek = 0
  BY <1>2, <1>4 DEF GatheredSet, more
<1>10. y + lw = (y0 + ld) + (le + lw)
  BY <1>5
<1> HIDE DEF c2
<1>11. Gathering(o, c2, s, t, x, y + lw)
  BY <1>1, <1>3, <1>4, <1>5, <1>8, <1>9, <1>10 DEF Gathering
<1> QED BY <1>3, <1>11 DEF c2

\* And a seek, wherever it leads in the old file.
LEMMA GatherSeek ==
  ASSUME NEW o, NEW c, NEW s, NEW t, NEW x, NEW y, Len(s) \in Nat, Len(t) \in Nat,
         Gathering(o, c, s, t, x, y),
         NEW l \in Int, x + l \in Nat, x + l <= Len(s)
  PROVE  Gathering(o, [c EXCEPT !.seek = @ + l], s, t, x + l, y)
<1>1. PICK x0 \in Nat, y0 \in Nat :
        /\ Writes(o, s, t, 0, 0, x0, y0)
        /\ Makes(c.diff, c.extra, c.seek, s, t, x0, y0)
        /\ x = (x0 + Len(c.diff)) + c.seek /\ y = (y0 + Len(c.diff)) + Len(c.extra)
  BY DEF Gathering
<1>2. c \in GatheredSet /\ c.diff \in Seq(Octets) /\ c.extra \in Seq(Octets)
  BY DEF Gathering, GatheredSet
<1>3. PICK ld \in Nat, z \in Int : ld = Len(c.diff) /\ z = c.seek
  BY <1>2, LenProperties DEF GatheredSet
<1>4. x + l = (x0 + ld) + (z + l)
  BY <1>1, <1>3, SMTT(60)
<1>5. Makes(c.diff, c.extra, z + l, s, t, x0, y0)
  <2>1. 0 <= (x0 + ld) + (z + l) /\ (x0 + ld) + (z + l) <= Len(s) /\ z + l \in Int
    BY <1>4
  <2> QED BY <1>1, <1>3, <2>1 DEF Makes
<1> DEFINE c2 == [c EXCEPT !.seek = @ + l]
<1>6. c2 \in GatheredSet /\ c2.diff = c.diff /\ c2.extra = c.extra /\ c2.seek = z + l
  BY <1>2, <1>3 DEF GatheredSet
<1> HIDE DEF c2
<1>7. Gathering(o, c2, s, t, x + l, y)
  BY <1>1, <1>3, <1>4, <1>5, <1>6 DEF Gathering
<1> QED BY <1>7 DEF c2

\* The first bytes of a file, and the rest of them.
LEMMA FirstOf ==
  ASSUME NEW s \in Seq(Octets), NEW n \in Nat, n <= Len(s)
  PROVE  /\ SubSeq(s, 1, n) \in Seq(Octets) /\ Len(SubSeq(s, 1, n)) = n
         /\ \A r \in 1..n : SubSeq(s, 1, n)[r] = s[r]
<1>1. 0 + 1 = 1 /\ 0 + n = n /\ 0 + n <= Len(s)
  OBVIOUS
<1>2. /\ SubSeq(s, 0 + 1, 0 + n) \in Seq(Octets) /\ Len(SubSeq(s, 0 + 1, 0 + n)) = n
      /\ \A r \in 1..n : SubSeq(s, 0 + 1, 0 + n)[r] = s[0 + r]
  BY <1>1, Slice
<1>3. \A r \in 1..n : 0 + r = r
  OBVIOUS
<1> QED BY <1>1, <1>2, <1>3

\* The bytes of a file up to h, without the first n of them.
LEMMA RestOf ==
  ASSUME NEW s \in Seq(Octets), NEW n \in Nat, NEW h \in Nat, n <= h, h <= Len(s)
  PROVE  /\ SubSeq(s, n + 1, h) \in Seq(Octets) /\ Len(SubSeq(s, n + 1, h)) = h - n
         /\ \A r \in 1..(h - n) : SubSeq(s, n + 1, h)[r] = s[n + r]
<1>1. PICK m \in Nat : m = h - n /\ n + m = h
  OBVIOUS
<1>2. n + m <= Len(s)
  BY <1>1
<1>3. /\ SubSeq(s, n + 1, n + m) \in Seq(Octets) /\ Len(SubSeq(s, n + 1, n + m)) = m
      /\ \A r \in 1..m : SubSeq(s, n + 1, n + m)[r] = s[n + r]
  BY <1>2, Slice
<1> QED BY <1>1, <1>3

\* A range that a file has is read as it is.
LEMMA BytesAre ==
  ASSUME NEW s \in Seq(Octets), NEW n \in Nat, NEW h \in Nat, n <= h, h <= Len(s)
  PROVE  /\ Delta!Bytes(s, n, h) \in Seq(Octets) /\ Len(Delta!Bytes(s, n, h)) = h - n
         /\ \A r \in 1..(h - n) : Delta!Bytes(s, n, h)[r] = s[n + r]
<1>1. Len(s) \in Nat
  BY LenProperties
<1>2. Delta!Smaller(h, Len(s)) = h
  BY <1>1 DEF Delta!Smaller
<1>3. Delta!Bytes(s, n, h) = SubSeq(s, n + 1, h)
  BY <1>2 DEF Delta!Bytes
<1> QED BY <1>3, RestOf

\* The difference of bytes is bytes, and gives back the new ones.
LEMMA MinusIs ==
  ASSUME NEW u \in Seq(Octets), NEW v \in Seq(Octets), Len(v) = Len(u)
  PROVE  /\ Delta!Minus(u, v) \in Seq(Octets) /\ Len(Delta!Minus(u, v)) = Len(u)
         /\ \A r \in 1..Len(u) : (v[r] + Delta!Minus(u, v)[r]) % Byte = u[r]
<1> DEFINE w == Delta!Minus(u, v)
<1>1. PICK n \in Nat : n = Len(u)
  BY LenProperties
<1>2. DOMAIN u = 1..n
  BY <1>1, LenProperties
<1>3. w = [r \in 1..n |-> (u[r] - v[r]) % Byte]
  BY <1>2 DEF Delta!Minus
<1>4. \A r \in 1..n : u[r] \in Octets /\ v[r] \in Octets
  BY <1>1, ElementOfSeq
<1>5. \A r \in 1..n : (u[r] - v[r]) % Byte \in Octets /\ (v[r] + ((u[r] - v[r]) % Byte)) % Byte = u[r]
  BY <1>4, ByteBack
<1> HIDE DEF w
<1>6. w \in [1..n -> Octets] /\ \A r \in 1..n : w[r] = (u[r] - v[r]) % Byte
  BY <1>3, <1>5
<1>7. w \in Seq(Octets) /\ Len(w) = n
  BY <1>6, FunctionIsSeq
<1>8. \A r \in 1..n : (v[r] + w[r]) % Byte = u[r]
  BY <1>5, <1>6
<1> QED BY <1>1, <1>7, <1>8 DEF w

\* What is equal is gathered as differences of zero.
LEMMA GatherEqual ==
  ASSUME a \in Seq(Octets), b \in Seq(Octets), NEW o, NEW c, NEW x, NEW y, NEW z \in Nat,
         NEW op \in OpcodeSet, op.tag = "equal",
         Gathering(o, c, a, b, x, y), op.j1 = y, z = x + (op.i2 - op.i1),
         JumpSays(op, a, b, x, z), ~Delta!MustFlush(op, c)
  PROVE  Gathering(o, Delta!Gathered(op, c), a, b, z, op.j2)
<1>1. Len(a) \in Nat /\ Len(b) \in Nat
  BY LenProperties
<1>2. x \in Nat /\ x <= Len(a) /\ y \in Nat /\ y <= Len(b)
  BY <1>1, GatheringWithin
<1>3. c.extra = <<>> /\ c.seek = 0
  BY DEF Delta!MustFlush
<1>4. op.i1 \in Nat /\ op.i2 \in Nat /\ op.j1 \in Nat /\ op.j2 \in Nat
  BY DEF OpcodeSet
<1>5. /\ z <= Len(a) /\ op.j2 <= Len(b) /\ op.i1 = x /\ op.i1 <= op.i2
      /\ op.i2 - op.i1 = op.j2 - op.j1 /\ Matches(a, b, op.i1, op.j1, op.i2 - op.i1)
  BY DEF JumpSays
<1>6. PICK n \in Nat : n = op.i2 - op.i1
  BY <1>4, <1>5
<1>7. z = x + n /\ op.j2 = y + n
  BY <1>2, <1>4, <1>5, <1>6, SMTT(60)
<1> DEFINE w == [r \in 1..n |-> 0]
<1>8. w \in Seq(Octets) /\ Len(w) = n /\ \A r \in 1..n : w[r] = 0
  <2>1. 0 \in Octets
    BY EngineAssumption DEF Octets
  <2>2. w \in [1..n -> Octets]
    BY <2>1
  <2> QED BY <2>2, FunctionIsSeq
<1>9. Delta!Gathered(op, c) = [c EXCEPT !.diff = @ \o w]
  BY <1>6 DEF Delta!Gathered
<1> HIDE DEF w
<1>10. \A r \in 1..Len(w) : (a[x + r] + w[r]) % Byte = b[y + r]
  <2> SUFFICES ASSUME NEW r \in 1..n PROVE (a[x + r] + w[r]) % Byte = b[y + r]
    BY <1>8
  <2>1. a[x + r] = b[y + r]
    BY <1>5, <1>6 DEF Matches
  <2>2. x + r \in 1..Len(a)
    BY <1>1, <1>2, <1>5, <1>7
  <2>3. a[x + r] \in Octets
    BY <2>2, ElementOfSeq
  <2>4. (a[x + r] + 0) % Byte = a[x + r]
    BY <2>3, ByteSame
  <2> QED BY <1>8, <2>1, <2>4
<1>11. x + Len(w) <= Len(a)
  BY <1>5, <1>7, <1>8
<1>12. y + Len(w) <= Len(b)
  BY <1>5, <1>7, <1>8
<1>13. w \in Seq(Octets)
  BY <1>8
<1>14. Gathering(o, [c EXCEPT !.diff = @ \o w], a, b, x + Len(w), y + Len(w))
  BY <1>1, <1>3, <1>10, <1>11, <1>12, <1>13, GatherDiff
<1> QED BY <1>7, <1>8, <1>9, <1>14

\* What is inserted is gathered as it is.
LEMMA GatherInsert ==
  ASSUME a \in Seq(Octets), b \in Seq(Octets), NEW o, NEW c, NEW x, NEW y, NEW z \in Nat,
         NEW op \in OpcodeSet, op.tag = "insert",
         Gathering(o, c, a, b, x, y), op.j1 = y, z = x + (op.i2 - op.i1),
         JumpSays(op, a, b, x, z), ~Delta!MustFlush(op, c)
  PROVE  Gathering(o, Delta!Gathered(op, c), a, b, z, op.j2)
<1>1. Len(a) \in Nat /\ Len(b) \in Nat
  BY LenProperties
<1>2. x \in Nat /\ x <= Len(a) /\ y \in Nat /\ y <= Len(b)
  BY <1>1, GatheringWithin
<1>3. c.seek = 0
  BY DEF Delta!MustFlush
<1>4. op.i1 \in Nat /\ op.i2 \in Nat /\ op.j1 \in Nat /\ op.j2 \in Nat
  BY DEF OpcodeSet
<1>5. op.j1 <= op.j2 /\ op.j2 <= Len(b) /\ op.i1 = op.i2
  BY DEF JumpSays
<1>6. z = x
  BY <1>2, <1>4, <1>5
<1> DEFINE w == Delta!Bytes(b, op.j1, op.j2)
<1>7. /\ w \in Seq(Octets) /\ Len(w) = op.j2 - op.j1
      /\ \A r \in 1..(op.j2 - op.j1) : w[r] = b[op.j1 + r]
  BY <1>4, <1>5, BytesAre
<1>8. Delta!Gathered(op, c) = [c EXCEPT !.extra = @ \o w]
  BY DEF Delta!Gathered
<1> HIDE DEF w
<1>9. \A r \in 1..Len(w) : w[r] = b[y + r]
  BY <1>7
<1>10. y + Len(w) = op.j2 /\ y + Len(w) <= Len(b)
  BY <1>4, <1>5, <1>7
<1>11. w \in Seq(Octets)
  BY <1>7
<1>12. Gathering(o, [c EXCEPT !.extra = @ \o w], a, b, x, y + Len(w))
  BY <1>1, <1>3, <1>9, <1>10, <1>11, GatherExtra
<1> QED BY <1>6, <1>8, <1>10, <1>12

\* What is deleted, in either direction, is gathered as a seek.
LEMMA GatherDelete ==
  ASSUME a \in Seq(Octets), b \in Seq(Octets), NEW o, NEW c, NEW x, NEW y, NEW z \in Nat,
         NEW op \in OpcodeSet, op.tag = "delete",
         Gathering(o, c, a, b, x, y), op.j1 = y, z = x + (op.i2 - op.i1),
         JumpSays(op, a, b, x, z)
  PROVE  Gathering(o, Delta!Gathered(op, c), a, b, z, op.j2)
<1>1. Len(a) \in Nat /\ Len(b) \in Nat
  BY LenProperties
<1>2. PICK l \in Int : l = op.i2 - op.i1
  BY DEF OpcodeSet
<1>3. x + l \in Nat
  BY <1>2
<1>4. x + l <= Len(a)
  BY <1>2 DEF JumpSays
<1>5. Delta!Gathered(op, c) = [c EXCEPT !.seek = @ + l]
  BY <1>2 DEF Delta!Gathered
<1>6. Gathering(o, [c EXCEPT !.seek = @ + l], a, b, x + l, y)
  BY <1>1, <1>3, <1>4, GatherSeek
<1>7. op.j2 = y
  BY DEF JumpSays
<1> QED BY <1>2, <1>5, <1>6, <1>7

\* Of what is replaced as many bytes as both have are differences; what the new one has
\* more is inserted, and what the old one has more is passed over.
LEMMA GatherReplace ==
  ASSUME a \in Seq(Octets), b \in Seq(Octets), NEW o, NEW c, NEW x, NEW y, NEW z \in Nat,
         NEW op \in OpcodeSet, op.tag = "replace",
         Gathering(o, c, a, b, x, y), op.j1 = y, z = x + (op.i2 - op.i1),
         JumpSays(op, a, b, x, z), ~Delta!MustFlush(op, c)
  PROVE  Gathering(o, Delta!Gathered(op, c), a, b, z, op.j2)
<1>1. Len(a) \in Nat /\ Len(b) \in Nat
  BY LenProperties
<1>2. x \in Nat /\ x <= Len(a) /\ y \in Nat /\ y <= Len(b)
  BY <1>1, GatheringWithin
<1>3. c.extra = <<>> /\ c.seek = 0 /\ c \in GatheredSet
  BY DEF Delta!MustFlush, Gathering
<1>4. op.i1 \in Nat /\ op.i2 \in Nat /\ op.j1 \in Nat /\ op.j2 \in Nat
  BY DEF OpcodeSet
<1>5. /\ z <= Len(a) /\ op.j1 <= op.j2 /\ op.j2 <= Len(b) /\ op.i1 = x /\ op.i1 <= op.i2
  BY DEF JumpSays
<1>6. PICK g \in Nat, h \in Nat : g = op.i2 - op.i1 /\ h = op.j2 - op.j1
  BY <1>4, <1>5
<1>7. /\ z = x + g /\ op.i2 = x + g /\ op.j2 = y + h
      /\ x + g <= Len(a) /\ y + h <= Len(b)
  BY <1>2, <1>4, <1>5, <1>6, SMTT(20)
<1> DEFINE n == Delta!Smaller(g, h)
           olds == Delta!Bytes(a, op.i1, op.i2)
           news == Delta!Bytes(b, op.j1, op.j2)
           first == SubSeq(olds, 1, n)
           next == SubSeq(news, 1, n)
           w == Delta!Minus(next, first)
           more == SubSeq(news, n + 1, Len(news))
<1>8. n \in Nat /\ n <= g /\ n <= h
  BY DEF Delta!Smaller
<1>9. Delta!Gathered(op, c) =
        [c EXCEPT !.diff = @ \o w, !.extra = @ \o more, !.seek = @ + (g - n)]
  BY <1>6 DEF Delta!Gathered
<1> HIDE DEF n
<1>10. /\ olds \in Seq(Octets) /\ Len(olds) = g /\ \A r \in 1..g : olds[r] = a[x + r]
  <2>1. op.i1 <= op.i2
    BY <1>5
  <2>2. op.i2 <= Len(a)
    BY <1>7
  <2>3. op.i1 \in Nat /\ op.i2 \in Nat
    BY <1>4
  <2> HIDE DEF olds
  <2>4. /\ olds \in Seq(Octets) /\ Len(olds) = op.i2 - op.i1
        /\ \A r \in 1..(op.i2 - op.i1) : olds[r] = a[op.i1 + r]
    BY <2>1, <2>2, <2>3, BytesAre DEF olds
  <2> QED BY <1>5, <1>6, <2>4
<1>11. /\ news \in Seq(Octets) /\ Len(news) = h /\ \A r \in 1..h : news[r] = b[y + r]
  <2>1. op.j1 <= op.j2
    BY <1>5
  <2>2. op.j2 <= Len(b)
    BY <1>5
  <2>3. op.j1 \in Nat /\ op.j2 \in Nat
    BY <1>4
  <2> HIDE DEF news
  <2>4. /\ news \in Seq(Octets) /\ Len(news) = op.j2 - op.j1
        /\ \A r \in 1..(op.j2 - op.j1) : news[r] = b[op.j1 + r]
    BY <2>1, <2>2, <2>3, BytesAre DEF news
  <2> QED BY <1>6, <2>4
<1> HIDE DEF olds, news
<1>12. first \in Seq(Octets) /\ Len(first) = n /\ \A r \in 1..n : first[r] = a[x + r]
  <2>1. n <= Len(olds)
    BY <1>8, <1>10
  <2>2. first \in Seq(Octets) /\ Len(first) = n /\ \A r \in 1..n : first[r] = olds[r]
    BY <1>8, <1>10, <2>1, FirstOf
  <2>3. \A r \in 1..n : r \in 1..g
    BY <1>8
  <2> QED BY <1>10, <2>2, <2>3
<1>13. next \in Seq(Octets) /\ Len(next) = n /\ \A r \in 1..n : next[r] = b[y + r]
  <2>1. n <= Len(news)
    BY <1>8, <1>11
  <2>2. next \in Seq(Octets) /\ Len(next) = n /\ \A r \in 1..n : next[r] = news[r]
    BY <1>8, <1>11, <2>1, FirstOf
  <2>3. \A r \in 1..n : r \in 1..h
    BY <1>8
  <2> QED BY <1>11, <2>2, <2>3
<1>14. more \in Seq(Octets) /\ Len(more) = h - n /\ \A r \in 1..(h - n) : more[r] = b[(y + n) + r]
  <2>1. Len(news) \in Nat /\ n <= Len(news) /\ Len(news) <= Len(news)
    BY <1>8, <1>11
  <2>2. /\ more \in Seq(Octets) /\ Len(more) = h - n
        /\ \A r \in 1..(h - n) : more[r] = news[n + r]
    BY <1>8, <1>11, <2>1, RestOf
  <2>3. \A r \in 1..(h - n) : n + r \in 1..h /\ y + (n + r) = (y + n) + r
    BY <1>2, <1>8
  <2> QED BY <1>11, <2>2, <2>3
<1> HIDE DEF first, next, more
<1>15. /\ w \in Seq(Octets) /\ Len(w) = n
       /\ \A r \in 1..Len(w) : (a[x + r] + w[r]) % Byte = b[y + r]
  <2>1. /\ w \in Seq(Octets) /\ Len(w) = n
        /\ \A r \in 1..n : (first[r] + w[r]) % Byte = next[r]
    BY <1>12, <1>13, MinusIs
  <2> QED BY <1>12, <1>13, <2>1
<1> HIDE DEF w
<1> DEFINE c1 == [c EXCEPT !.diff = @ \o w]
           c2 == [c1 EXCEPT !.extra = @ \o more]
           c3 == [c2 EXCEPT !.seek = @ + (g - n)]
<1>16. c1.seek = 0
  BY <1>3 DEF GatheredSet
<1>17. c2 \in [diff : {c2.diff}, extra : {c2.extra}, seek : {c2.seek}]
  BY <1>3 DEF GatheredSet
<1>18. c3 = Delta!Gathered(op, c)
  BY <1>3, <1>9 DEF GatheredSet
<1> HIDE DEF c3
<1>19. Gathering(o, c1, a, b, x + n, y + n)
  <2>1. x + Len(w) <= Len(a)
    BY <1>2, <1>7, <1>8, <1>15
  <2>2. y + Len(w) <= Len(b)
    BY <1>2, <1>7, <1>8, <1>15
  <2>3. \A r \in 1..Len(w) : (a[x + r] + w[r]) % Byte = b[y + r]
    BY <1>15
  <2>4. w \in Seq(Octets)
    BY <1>15
  <2>5. Gathering(o, [c EXCEPT !.diff = @ \o w], a, b, x + Len(w), y + Len(w))
    BY <1>1, <1>3, <2>1, <2>2, <2>3, <2>4, GatherDiff
  <2> QED BY <1>15, <2>5
<1> HIDE DEF c1
<1>20. Gathering(o, c2, a, b, x + n, y + h)
  <2>1. more \in Seq(Octets)
    BY <1>14
  <2>2. (y + n) + Len(more) = y + h
    BY <1>2, <1>8, <1>14
  <2>3. (y + n) + Len(more) <= Len(b)
    BY <1>7, <2>2
  <2>4. \A r \in 1..Len(more) : more[r] = b[(y + n) + r]
    BY <1>14
  <2>5. Gathering(o, [c1 EXCEPT !.extra = @ \o more], a, b, x + n, (y + n) + Len(more))
    BY <1>1, <1>16, <1>19, <2>1, <2>3, <2>4, GatherExtra
  <2> QED BY <2>2, <2>5
<1> HIDE DEF c2
<1>21. Gathering(o, c3, a, b, z, op.j2)
  <2>1. PICK l \in Int : l = g - n
    BY <1>8
  <2>2. (x + n) + l = x + g
    BY <1>2, <1>8, <2>1
  <2>3. (x + n) + l \in Nat
    BY <1>2, <2>2
  <2>4. (x + n) + l <= Len(a)
    BY <1>7, <2>2
  <2>5. Gathering(o, [c2 EXCEPT !.seek = @ + l], a, b, (x + n) + l, y + h)
    BY <1>1, <1>20, <2>3, <2>4, GatherSeek
  <2> QED BY <1>7, <2>1, <2>2, <2>5 DEF c3
<1> QED BY <1>18, <1>21

\* Whatever an opcode says, it is gathered.
LEMMA GatheredKeeps ==
  ASSUME a \in Seq(Octets), b \in Seq(Octets), NEW o, NEW c, NEW x, NEW y, NEW z \in Nat,
         NEW op \in OpcodeSet,
         Gathering(o, c, a, b, x, y), op.j1 = y, z = x + (op.i2 - op.i1),
         JumpSays(op, a, b, x, z), ~Delta!MustFlush(op, c)
  PROVE  Gathering(o, Delta!Gathered(op, c), a, b, z, op.j2)
<1>1. op.tag \in {"equal", "replace", "delete", "insert"}
  BY DEF OpcodeSet, Tags
<1> QED BY <1>1, GatherEqual, GatherReplace, GatherDelete, GatherInsert

-------------------------------------------------------------------------------
(* What the tuples account for. *)

\* A running sum comes to the total.
LEMMA TotalIs ==
  ASSUME NEW n \in Nat, NEW sizes, Len(sizes) = n, NEW g, Sums(g, 0, sizes, n)
  PROVE  Delta!Total(sizes) = g[n]
<1> DEFINE upTo[m \in 0..n] == IF m = 0 THEN 0 ELSE upTo[m - 1] + sizes[m]
<1>1. g = [m \in 0..n |-> IF m = 0 THEN 0 ELSE g[m - 1] + sizes[m]]
  <2>1. \A m \in 0..n : m # 0 => m \in 1..n
    OBVIOUS
  <2>2. g = [m \in 0..n |-> g[m]]
    BY DEF Sums
  <2> QED BY <2>1, <2>2 DEF Sums
<1>2. upTo = [m \in 0..n |-> IF m = 0 THEN 0 ELSE upTo[m - 1] + sizes[m]]
  BY <1>1
<1>3. Delta!Total(sizes) = upTo[n]
  BY DEF Delta!Total
<1> HIDE DEF upTo
<1> DEFINE R == {m \in 0..n : upTo[m] = g[m]}
<1>4. 0 \in R
  BY <1>2 DEF Sums
<1>5. ASSUME NEW m \in 0..(n - 1), m \in R PROVE m + 1 \in R
  <2>1. m + 1 \in 0..n /\ m + 1 # 0 /\ (m + 1) - 1 = m /\ m + 1 \in 1..n
    OBVIOUS
  <2>2. upTo[m + 1] = upTo[m] + sizes[m + 1] /\ g[m + 1] = g[m] + sizes[m + 1]
    BY <1>2, <2>1 DEF Sums
  <2> QED BY <1>5, <2>1, <2>2
<1> HIDE DEF R
<1>6. \A m \in 0..n : m \in R
  <2>1. \A m \in 0..(n - 1) : m \in R => m + 1 \in R
    BY <1>5
  <2> QED BY <1>4, <2>1, InductionUpTo
<1>7. n \in R
  BY <1>6
<1> QED BY <1>3, <1>7 DEF R

\* Tuples account for the bytes of their blocks, and for what they make.
LEMMA TuplesSum ==
  ASSUME NEW o, NEW s, NEW t, NEW x, NEW y, NEW x2, NEW y2, Writes(o, s, t, x, y, x2, y2)
  PROVE  /\ Delta!DiffBytes(o.ctrl) = Len(o.diff) /\ Delta!ExtraBytes(o.ctrl) = Len(o.extra)
         /\ y2 = (y + Len(o.diff)) + Len(o.extra)
<1>1. o \in BlockSet /\ o.ctrl \in Seq(TupleSet)
  BY DEF Writes, BlockSet
<1>2. PICK f : WritesBy(o, f, s, t, x, y, x2, y2)
  BY DEF Writes
<1>3. PICK n \in Nat : n = Len(o.ctrl)
  BY <1>1, LenProperties
<1>4. /\ f \in [0..n -> PlaceSet] /\ f[0] = Place(0, 0, x, y)
      /\ f[n] = Place(Len(o.diff), Len(o.extra), x2, y2)
  BY <1>2, <1>3 DEF WritesBy
<1>5. \A m \in 1..n :
        /\ o.ctrl[m] \in TupleSet /\ f[m - 1] \in PlaceSet /\ f[m] \in PlaceSet
        /\ f[m].d = f[m - 1].d + o.ctrl[m].diff /\ f[m].e = f[m - 1].e + o.ctrl[m].extra
        /\ f[m].y = (f[m - 1].y + o.ctrl[m].diff) + o.ctrl[m].extra
  BY <1>1, <1>2, <1>3, StepOfPlaces
<1>6. f[0].d = 0 /\ f[0].e = 0 /\ f[0].y = y
  BY <1>4 DEF Place
<1>7. f[n].d = Len(o.diff) /\ f[n].e = Len(o.extra) /\ f[n].y = y2
  BY <1>4 DEF Place
<1>8. Delta!DiffBytes(o.ctrl) = Len(o.diff)
  <2> DEFINE sizes == [m \in 1..n |-> o.ctrl[m].diff]
             g == [m \in 0..n |-> f[m].d]
  <2>1. Len(sizes) = n /\ \A m \in 1..n : sizes[m] = o.ctrl[m].diff
    <3>1. sizes \in [1..n -> Nat]
      BY <1>5 DEF TupleSet
    <3> QED BY <3>1, FunctionIsSeq
  <2>2. g \in [0..n -> Int] /\ \A m \in 0..n : g[m] = f[m].d
    BY <1>4 DEF PlaceSet
  <2>3. Delta!DiffBytes(o.ctrl) = Delta!Total(sizes)
    BY <1>3 DEF Delta!DiffBytes
  <2> HIDE DEF sizes, g
  <2>4. \A m \in 1..n : g[m] = g[m - 1] + sizes[m]
    <3>1. \A m \in 1..n : m \in 0..n /\ m - 1 \in 0..n
      OBVIOUS
    <3> QED BY <1>5, <2>1, <2>2, <3>1
  <2>5. g[0] = 0 /\ g[n] = Len(o.diff)
    BY <1>6, <1>7, <2>2
  <2>6. Sums(g, 0, sizes, n)
    BY <2>2, <2>4, <2>5 DEF Sums
  <2>7. Delta!Total(sizes) = g[n]
    BY <2>1, <2>6, TotalIs
  <2> QED BY <2>3, <2>5, <2>7
<1>9. Delta!ExtraBytes(o.ctrl) = Len(o.extra)
  <2> DEFINE sizes == [m \in 1..n |-> o.ctrl[m].extra]
             g == [m \in 0..n |-> f[m].e]
  <2>1. Len(sizes) = n /\ \A m \in 1..n : sizes[m] = o.ctrl[m].extra
    <3>1. sizes \in [1..n -> Nat]
      BY <1>5 DEF TupleSet
    <3> QED BY <3>1, FunctionIsSeq
  <2>2. g \in [0..n -> Int] /\ \A m \in 0..n : g[m] = f[m].e
    BY <1>4 DEF PlaceSet
  <2>3. Delta!ExtraBytes(o.ctrl) = Delta!Total(sizes)
    BY <1>3 DEF Delta!ExtraBytes
  <2> HIDE DEF sizes, g
  <2>4. \A m \in 1..n : g[m] = g[m - 1] + sizes[m]
    <3>1. \A m \in 1..n : m \in 0..n /\ m - 1 \in 0..n
      OBVIOUS
    <3> QED BY <1>5, <2>1, <2>2, <3>1
  <2>5. g[0] = 0 /\ g[n] = Len(o.extra)
    BY <1>6, <1>7, <2>2
  <2>6. Sums(g, 0, sizes, n)
    BY <2>2, <2>4, <2>5 DEF Sums
  <2>7. Delta!Total(sizes) = g[n]
    BY <2>1, <2>6, TotalIs
  <2> QED BY <2>3, <2>5, <2>7
<1>10. f[n].y = (y + f[n].d) + f[n].e
  <2> DEFINE R == {m \in 0..n : f[m].y = (y + f[m].d) + f[m].e}
  <2>1. 0 \in R
    <3>1. f[0] \in PlaceSet
      BY <1>4
    <3>2. y \in Nat
      BY <1>6, <3>1 DEF PlaceSet
    <3> QED BY <1>6, <3>2
  <2>2. ASSUME NEW m \in 0..(n - 1), m \in R PROVE m + 1 \in R
    <3>1. m + 1 \in 1..n /\ m + 1 \in 0..n /\ (m + 1) - 1 = m
      OBVIOUS
    <3>2. /\ o.ctrl[m + 1] \in TupleSet /\ f[m] \in PlaceSet
          /\ f[m + 1].d = f[m].d + o.ctrl[m + 1].diff
          /\ f[m + 1].e = f[m].e + o.ctrl[m + 1].extra
          /\ f[m + 1].y = (f[m].y + o.ctrl[m + 1].diff) + o.ctrl[m + 1].extra
      BY <1>5, <3>1
    <3>3. PICK u \in Nat, v \in Nat, p \in Nat, q \in Nat, r \in Nat, l \in Nat :
            /\ u = o.ctrl[m + 1].diff /\ v = o.ctrl[m + 1].extra
            /\ p = f[m].d /\ q = f[m].e /\ r = f[m].y /\ l = y
      <4>1. f[0] \in PlaceSet
        BY <1>4
      <4> QED BY <1>6, <3>2, <4>1 DEF PlaceSet, TupleSet
    <3>4. r = (l + p) + q
      BY <2>2, <3>3
    <3>5. (r + u) + v = (l + (p + u)) + (q + v)
      BY <3>4
    <3> QED BY <3>1, <3>2, <3>3, <3>5
  <2> HIDE DEF R
  <2>3. \A m \in 0..n : m \in R
    <3>1. \A m \in 0..(n - 1) : m \in R => m + 1 \in R
      BY <2>2
    <3> QED BY <2>1, <3>1, InductionUpTo
  <2>4. n \in R
    BY <2>3
  <2> QED BY <2>4 DEF R
<1> QED BY <1>7, <1>8, <1>9, <1>10

-------------------------------------------------------------------------------
(* The invariant of the delta, phase by phase. *)

\* diff(): n opcodes have been read into o and c.
ReadSoFar(said, n, o, c, s, t) ==
  /\ said \in Seq(OpcodeSet) /\ ReachedInB(said) = Len(t) /\ n \in 0..Len(said)
  /\ \E f : /\ LeadsTo(f, said)
            /\ \A m \in 1..Len(said) : JumpTrue(f, said, m, s, t)
            /\ Gathering(o, c, s, t, f[n], IF n = 0 THEN 0 ELSE said[n].j2)

\* _optimize_patch: what has been rewritten leads to where the rest begins.
Optimised(cs, u, v, o, s, t, x) ==
  \E y, x2 : /\ Writes(o, s, t, 0, 0, x, y)
             /\ Writes([ctrl |-> cs, diff |-> u, extra |-> v], s, t, x, y, x2, Len(t))

\* The control block as it is stored.
Encoded(cs) ==
  [n \in DOMAIN cs |->
     <<Delta!WriteOff(cs[n].diff), Delta!WriteOff(cs[n].extra), Delta!WriteOff(cs[n].seek)>>]

\* w is how t begins, and goes on with p.
Begins(w, t) ==
  w \in Seq(Octets) /\ Len(w) <= Len(t) /\ \A r \in 1..Len(w) : w[r] = t[r]

GoesOn(w, p, n, t) ==
  p \in Seq(Octets) /\ Len(p) = n /\ \A r \in 1..n : p[r] = t[Len(w) + r]

\* patch(): w is the beginning of t, and what is left of the patch makes the rest of it.
Patching(enc, u, v, s, t, x, w) ==
  /\ Begins(w, t)
  /\ \E cs, x2 :
       /\ enc = Encoded(cs)
       /\ Writes([ctrl |-> cs, diff |-> u, extra |-> v], s, t, x, Len(w), x2, Len(t))

DeltaPhases == {"emitted", "optimise", "patch", "patched", "raised"}

DeltaInv ==
  engine \in ByteEngines =>
    /\ a \in Seq(Octets) /\ b \in Seq(Octets) /\ Len(a) <= MaxBytes /\ Len(b) <= MaxBytes
    /\ pc # "raised"
    /\ pc \notin DeltaPhases => Delta!Start
    /\ pc \in {"emitted", "optimise"} => made = <<>>
    /\ pc = "emitted" => ReadSoFar(ops, taken, out, current, a, b)
    /\ pc = "optimise" => Optimised(ctrl, diff, extra, out, a, b, oldPos)
    /\ pc = "patch" => Patching(ctrl, diff, extra, a, b, oldPos, made)
    /\ pc = "patched" => made = b

\* A matcher has the first word, and the files are short enough for their offsets.
LEMMA DeltaInvInit == Init => DeltaInv
<1> SUFFICES ASSUME Init, engine \in ByteEngines PROVE DeltaInv
  BY DEF DeltaInv
<1>1. engine \notin TextEngines
  BY DEF TextEngines, ByteEngines
<1>2. a \in Upto(MaxBytes) /\ b \in Upto(MaxBytes) /\ Delta!Start
  BY <1>1 DEF Init
<1>3. \A s \in Upto(MaxBytes) : s \in Seq(Octets) /\ Len(s) <= MaxBytes
  <2> SUFFICES ASSUME NEW s \in Upto(MaxBytes) PROVE s \in Seq(Octets) /\ Len(s) <= MaxBytes
    OBVIOUS
  <2>1. PICK m \in 0..MaxBytes : s \in [1..m -> Entries]
    BY DEF Upto
  <2>2. Entries \subseteq Octets /\ MaxBytes \in Nat
    BY EngineAssumption DEF Octets
  <2>3. s \in [1..m -> Octets] /\ m \in Nat /\ m <= MaxBytes
    BY <2>1, <2>2
  <2> QED BY <2>3, FunctionIsSeq
<1>4. pc \in {"scan", "start"}
  <2>1. engine = "chunk" \/ engine = "rolling"
    BY DEF ByteEngines
  <2>2. engine = "chunk" => pc = "scan"
    BY DEF Init, Chunk!Start
  <2>3. engine = "rolling" => pc = "start"
    BY DEF Init, Rolling!Start
  <2> QED BY <2>1, <2>2, <2>3
<1> QED BY <1>2, <1>3, <1>4 DEF DeltaInv, DeltaPhases

\* One more opcode is read.
LEMMA ReadOpcodeKeeps ==
  ASSUME DeltaInv, engine \in ByteEngines, Delta!ReadOpcode, engine' = engine
  PROVE  DeltaInv'
<1>1. /\ a \in Seq(Octets) /\ b \in Seq(Octets) /\ Len(a) <= MaxBytes /\ Len(b) <= MaxBytes
      /\ pc = "emitted" /\ made = <<>> /\ ReadSoFar(ops, taken, out, current, a, b)
  BY DEF DeltaInv, Delta!ReadOpcode
<1>2. /\ taken < Len(ops) /\ taken' = taken + 1 /\ UNCHANGED <<a, b, ops, made, pc>>
      /\ out' = IF Delta!MustFlush(ops[taken + 1], current)
                THEN Delta!WithTuple(out, current) ELSE out
      /\ current' = Delta!Gathered(ops[taken + 1],
                      IF Delta!MustFlush(ops[taken + 1], current) THEN Delta!Nothing ELSE current)
  BY DEF Delta!ReadOpcode
<1>3. PICK n \in Nat, l \in Nat : n = taken /\ l = Len(ops) /\ n + 1 \in 1..l
  BY <1>1, <1>2, LenProperties DEF ReadSoFar
<1>4. PICK f : /\ LeadsTo(f, ops) /\ \A m \in 1..l : JumpTrue(f, ops, m, a, b)
               /\ Gathering(out, current, a, b, f[n], IF n = 0 THEN 0 ELSE ops[n].j2)
  BY <1>1, <1>3 DEF ReadSoFar
<1>5. PICK op \in OpcodeSet : op = ops[n + 1]
  BY <1>1, <1>3, ElementOfSeq DEF ReadSoFar
<1>6. PICK y : y = IF n = 0 THEN 0 ELSE ops[n].j2
  OBVIOUS
<1>7. op.j1 = y /\ JumpSays(op, a, b, f[n], f[n + 1])
  <2>1. JumpTrue(f, ops, n + 1, a, b) /\ (n + 1) - 1 = n /\ (n + 1 = 1 <=> n = 0)
    BY <1>3, <1>4
  <2> QED BY <1>5, <1>6, <2>1 DEF JumpTrue
<1>8. f[n + 1] \in Nat /\ f[n + 1] = f[n] + (op.i2 - op.i1)
  <2>1. n + 1 \in 0..l /\ (n + 1) - 1 = n
    BY <1>3
  <2> QED BY <1>3, <1>4, <1>5, <2>1 DEF LeadsTo
<1>9. Gathering(out', current', a, b, f[n + 1], op.j2)
  <2>1. Gathering(out, current, a, b, f[n], y)
    BY <1>4, <1>6
  <2>2. CASE Delta!MustFlush(op, current)
    <3>1. Len(a) \in Nat /\ Len(b) \in Nat
      BY <1>1, LenProperties
    <3>2. Gathering(Delta!WithTuple(out, current), Delta!Nothing, a, b, f[n], y)
      BY <2>1, <3>1, Flushed
    <3>3. ~Delta!MustFlush(op, Delta!Nothing)
      BY DEF Delta!MustFlush, Delta!Nothing
    <3>4. Gathering(Delta!WithTuple(out, current), Delta!Gathered(op, Delta!Nothing), a, b,
                    f[n + 1], op.j2)
      BY <1>1, <1>7, <1>8, <3>2, <3>3, GatheredKeeps
    <3> QED BY <1>2, <1>3, <1>5, <2>2, <3>4
  <2>3. CASE ~Delta!MustFlush(op, current)
    <3>1. Gathering(out, Delta!Gathered(op, current), a, b, f[n + 1], op.j2)
      BY <1>1, <1>7, <1>8, <2>1, <2>3, GatheredKeeps
    <3> QED BY <1>2, <1>3, <1>5, <2>3, <3>1
  <2> QED BY <2>2, <2>3
<1>10. ReadSoFar(ops, n + 1, out', current', a, b)
  <2>1. n + 1 # 0 /\ n + 1 \in 0..Len(ops) /\ Len(ops) = l
    BY <1>3
  <2>2. Gathering(out', current', a, b, f[n + 1], IF n + 1 = 0 THEN 0 ELSE ops[n + 1].j2)
    BY <1>5, <1>9, <2>1
  <2> QED BY <1>1, <1>4, <2>1, <2>2 DEF ReadSoFar
<1>11. ReadSoFar(ops', taken', out', current', a', b')
  BY <1>2, <1>3, <1>10
<1> QED BY <1>1, <1>2, <1>11 DEF DeltaInv, DeltaPhases

\* The last tuple is written.
LEMMA FlushLastKeeps ==
  ASSUME DeltaInv, engine \in ByteEngines, Delta!FlushLast, engine' = engine
  PROVE  DeltaInv'
<1>1. /\ a \in Seq(Octets) /\ b \in Seq(Octets) /\ Len(a) <= MaxBytes /\ Len(b) <= MaxBytes
      /\ pc = "emitted" /\ made = <<>> /\ ReadSoFar(ops, taken, out, current, a, b)
  BY DEF DeltaInv, Delta!FlushLast
<1> DEFINE o == IF current = Delta!Nothing THEN out ELSE Delta!WithTuple(out, current)
<1>2. /\ taken = Len(ops) /\ ctrl' = o.ctrl /\ diff' = o.diff /\ extra' = o.extra
      /\ out' = Delta!Empty /\ oldPos' = 0 /\ pc' = "optimise" /\ UNCHANGED <<a, b, made>>
  BY DEF Delta!FlushLast
<1>3. Len(a) \in Nat /\ Len(b) \in Nat
  BY <1>1, LenProperties
<1>4. PICK x : Gathering(out, current, a, b, x, Len(b))
  <2>1. PICK f : Gathering(out, current, a, b, f[taken], IF taken = 0 THEN 0 ELSE ops[taken].j2)
    BY <1>1 DEF ReadSoFar
  <2>2. (IF taken = 0 THEN 0 ELSE ops[taken].j2) = Len(b)
    <3>1. ops \in Seq(OpcodeSet) /\ ReachedInB(ops) = Len(b)
      BY <1>1 DEF ReadSoFar
    <3>2. taken = 0 <=> ops = <<>>
      BY <1>2, <3>1, EmptySeq
    <3> QED BY <1>2, <3>1, <3>2 DEF ReachedInB
  <2> QED BY <2>1, <2>2
<1>5. Gathering(o, Delta!Nothing, a, b, x, Len(b))
  <2>1. Gathering(Delta!WithTuple(out, current), Delta!Nothing, a, b, x, Len(b))
    BY <1>3, <1>4, Flushed
  <2> QED BY <1>4, <2>1
<1> HIDE DEF o
<1>6. Writes(o, a, b, 0, 0, x, Len(b))
  <2>1. PICK x0 \in Nat, y0 \in Nat :
          /\ Writes(o, a, b, 0, 0, x0, y0)
          /\ x = (x0 + Len(Delta!Nothing.diff)) + Delta!Nothing.seek
          /\ Len(b) = (y0 + Len(Delta!Nothing.diff)) + Len(Delta!Nothing.extra)
    BY <1>5 DEF Gathering
  <2>2. /\ Len(Delta!Nothing.diff) = 0 /\ Len(Delta!Nothing.extra) = 0
        /\ Delta!Nothing.seek = 0
    BY DEF Delta!Nothing
  <2>3. x = x0 /\ Len(b) = y0
    BY <2>1, <2>2
  <2> QED BY <2>1, <2>3
<1>7. o = [ctrl |-> ctrl', diff |-> diff', extra |-> extra']
  BY <1>2, <1>6 DEF Writes, BlockSet
<1>8. Writes(Delta!Empty, a, b, 0, 0, 0, 0)
  BY WritesNothing
<1>9. Optimised(ctrl', diff', extra', out', a', b', oldPos')
  <2>1. Optimised(ctrl', diff', extra', Delta!Empty, a, b, 0)
    BY <1>6, <1>7, <1>8 DEF Optimised
  <2> QED BY <1>2, <2>1
<1> QED BY <1>1, <1>2, <1>9 DEF DeltaInv, DeltaPhases

\* p is the first n of v, and q the rest of it.
Parted(p, q, v, n) ==
  /\ p \in Seq(Octets) /\ Len(p) = n /\ \A r \in 1..n : p[r] = v[r]
  /\ q \in Seq(Octets) /\ Len(q) = Len(v) - n /\ \A r \in 1..(Len(v) - n) : q[r] = v[n + r]

\* The first n of what a tuple inserts, p, may as well be written over old bytes that
\* it would skip, if there are so many; q is what it then inserts.
LEMMA MergeMakes ==
  ASSUME NEW s \in Seq(Octets), NEW t, Len(t) \in Nat, NEW x \in Nat, NEW y \in Nat,
         NEW u, NEW v, NEW z, Makes(u, v, z, s, t, x, y),
         NEW n \in Nat, n <= Len(v), (x + Len(u)) + n <= Len(s),
         NEW p, NEW q, Parted(p, q, v, n)
  PROVE  LET w == u \o Delta!Minus(p, Delta!Bytes(s, x + Len(u), (x + Len(u)) + n))
         IN  Len(w) = Len(u) + n /\ Makes(w, q, z - n, s, t, x, y)
<1>1. u \in Seq(Octets) /\ v \in Seq(Octets) /\ z \in Int
  BY DEF Makes
<1>2. PICK lu \in Nat, lv \in Nat, ls \in Nat, lt \in Nat :
        lu = Len(u) /\ lv = Len(v) /\ ls = Len(s) /\ lt = Len(t)
  BY <1>1, LenProperties
<1>0. /\ p \in Seq(Octets) /\ Len(p) = n /\ \A r \in 1..n : p[r] = v[r]
      /\ q \in Seq(Octets) /\ Len(q) = lv - n /\ \A r \in 1..(lv - n) : q[r] = v[n + r]
  BY <1>2 DEF Parted
<1> DEFINE olds == Delta!Bytes(s, x + lu, (x + lu) + n)
           delta == Delta!Minus(p, olds)
           w == u \o delta
<1>3. /\ olds \in Seq(Octets) /\ Len(olds) = n
      /\ \A r \in 1..n : olds[r] = s[(x + lu) + r]
  <2>1. PICK h \in Nat, l \in Nat : h = x + lu /\ l = (x + lu) + n
    OBVIOUS
  <2>2. h <= l
    BY <2>1
  <2>3. l <= Len(s)
    BY <1>2, <2>1
  <2>4. /\ Delta!Bytes(s, h, l) \in Seq(Octets) /\ Len(Delta!Bytes(s, h, l)) = l - h
        /\ \A r \in 1..(l - h) : Delta!Bytes(s, h, l)[r] = s[h + r]
    BY <2>2, <2>3, BytesAre
  <2>5. l - h = n
    BY <2>1
  <2> QED BY <2>1, <2>4, <2>5
<1> HIDE DEF olds
<1>4. /\ delta \in Seq(Octets) /\ Len(delta) = n
      /\ \A r \in 1..n : (s[(x + lu) + r] + delta[r]) % Byte = v[r]
  <2>1. Len(olds) = Len(p)
    BY <1>0, <1>3
  <2>2. /\ delta \in Seq(Octets) /\ Len(delta) = Len(p)
        /\ \A r \in 1..Len(p) : (olds[r] + delta[r]) % Byte = p[r]
    BY <1>0, <1>3, <2>1, MinusIs
  <2> QED BY <1>0, <1>3, <2>2
<1> HIDE DEF delta
<1>5. /\ w \in Seq(Octets) /\ Len(w) = lu + n
      /\ \A r \in 1..(lu + n) : w[r] = IF r <= lu THEN u[r] ELSE delta[r - lu]
  <2>1. delta \in Seq(Octets)
    BY <1>4
  <2>2. Len(delta) = n /\ Len(u) = lu
    BY <1>2, <1>4
  <2>3. u \in Seq(Octets)
    BY <1>1
  <2> QED BY <2>1, <2>2, <2>3, EndToEnd, SMTT(60)
<1> HIDE DEF w
<1>6. /\ x + lu <= ls /\ (y + lu) + lv <= lt
      /\ 0 <= (x + lu) + z /\ (x + lu) + z <= ls
      /\ \A r \in 1..lu : (s[x + r] + u[r]) % Byte = t[y + r]
      /\ \A r \in 1..lv : v[r] = t[(y + lu) + r]
  BY <1>2 DEF Makes
<1>7. \A r \in 1..(lu + n) : (s[x + r] + w[r]) % Byte = t[y + r]
  <2> SUFFICES ASSUME NEW r \in 1..(lu + n) PROVE (s[x + r] + w[r]) % Byte = t[y + r]
    OBVIOUS
  <2>1. CASE r <= lu
    <3>1. r \in 1..lu /\ w[r] = u[r]
      BY <1>5, <2>1
    <3> QED BY <1>6, <3>1
  <2>2. CASE ~(r <= lu)
    <3>1. PICK l \in 1..n : l = r - lu
      BY <2>2
    <3>2. (x + lu) + l = x + r /\ (y + lu) + l = y + r /\ w[r] = delta[l]
      BY <1>5, <2>2, <3>1
    <3>3. l \in 1..lv
      BY <1>2, <3>1
    <3>4. (s[(x + lu) + l] + delta[l]) % Byte = v[l] /\ v[l] = t[(y + lu) + l]
      BY <1>4, <1>6, <3>1, <3>3
    <3> QED BY <3>2, <3>4
  <2> QED BY <2>1, <2>2
<1>8. \A r \in 1..(lv - n) : q[r] = t[(y + (lu + n)) + r]
  <2> SUFFICES ASSUME NEW r \in 1..(lv - n) PROVE q[r] = t[(y + (lu + n)) + r]
    OBVIOUS
  <2>1. n + r \in 1..lv /\ (y + lu) + (n + r) = (y + (lu + n)) + r
    OBVIOUS
  <2>2. q[r] = v[n + r] /\ v[n + r] = t[(y + lu) + (n + r)]
    BY <1>0, <1>6, <2>1
  <2> QED BY <2>1, <2>2
<1>9. /\ x + (lu + n) <= ls /\ (y + (lu + n)) + (lv - n) <= lt
      /\ 0 <= (x + (lu + n)) + (z - n) /\ (x + (lu + n)) + (z - n) <= ls /\ z - n \in Int
  <2>1. (x + lu) + n <= ls
    BY <1>2
  <2> QED BY <1>1, <1>6, <2>1
<1>10. Makes(w, q, z - n, s, t, x, y)
  <2>1. Len(q) = lv - n
    BY <1>0
  <2> QED BY <1>0, <1>2, <1>5, <1>7, <1>8, <1>9, <2>1 DEF Makes
<1> QED BY <1>2, <1>5, <1>10 DEF w, delta, olds

\* How many bytes are merged: no more than the tuple inserts, and than there are.
LEMMA MergedIs ==
  ASSUME a \in Seq(Octets), oldPos \in Nat, NEW c \in TupleSet,
         oldPos + c.diff <= Len(a)
  PROVE  /\ Delta!Merged(c) \in Nat /\ Delta!Merged(c) <= c.extra
         /\ (oldPos + c.diff) + Delta!Merged(c) <= Len(a)
<1>1. PICK l \in Nat, x \in Nat : l = Len(a) /\ x = oldPos + c.diff /\ x <= l
  BY LenProperties DEF TupleSet
<1>2. PICK e \in Nat, z \in Int : e = c.extra /\ z = c.seek
  BY DEF TupleSet
<1>3. PICK m \in Nat : m = MinMerge
  BY EngineAssumption
<1>4. PICK h \in Int : h = Delta!Smaller(e, z) /\ h <= e
  BY DEF Delta!Smaller
<1>5. PICK g \in Nat : g = Delta!Larger(0, l - x) /\ x + g <= l
  <2>1. Delta!Larger(0, l - x) = l - x
    BY <1>1 DEF Delta!Larger
  <2> QED BY <1>1, <2>1
<1>6. PICK n \in Int : n = Delta!Smaller(h, g) /\ n <= h /\ n <= g /\ (n = h \/ n = g)
  BY DEF Delta!Smaller
<1>7. Delta!Merged(c) = IF e > 0 /\ z > 0 /\ h > m THEN n ELSE 0
  BY <1>1, <1>2, <1>3, <1>4, <1>5, <1>6 DEF Delta!Merged
<1>8. CASE e > 0 /\ z > 0 /\ h > m
  <2>1. n \in Nat /\ n <= e /\ x + n <= l
    BY <1>4, <1>5, <1>6, <1>8
  <2> QED BY <1>1, <1>2, <1>7, <1>8, <2>1
<1>9. CASE ~(e > 0 /\ z > 0 /\ h > m)
  <2>1. x + 0 <= l
    BY <1>1
  <2> QED BY <1>1, <1>2, <1>7, <1>9, <2>1
<1> QED BY <1>8, <1>9

\* A tuple is rewritten.
LEMMA OptimiseKeeps ==
  ASSUME DeltaInv, engine \in ByteEngines, Delta!Optimise, engine' = engine
  PROVE  DeltaInv'
<1>1. /\ a \in Seq(Octets) /\ b \in Seq(Octets) /\ Len(a) <= MaxBytes /\ Len(b) <= MaxBytes
      /\ pc = "optimise" /\ made = <<>> /\ Optimised(ctrl, diff, extra, out, a, b, oldPos)
  BY DEF DeltaInv, Delta!Optimise
<1> DEFINE c == Head(ctrl)
           n == Delta!Merged(c)
           p == SubSeq(extra, 1, n)
           q == SubSeq(extra, n + 1, c.extra)
           u == SubSeq(diff, 1, c.diff)
           v == SubSeq(extra, 1, c.extra)
           olds == Delta!Bytes(a, oldPos + c.diff, oldPos + c.diff + n)
           w == Delta!Minus(p, olds)
           rest == [ctrl |-> Tail(ctrl),
                    diff |-> SubSeq(diff, c.diff + 1, Len(diff)),
                    extra |-> SubSeq(extra, c.extra + 1, Len(extra))]
<1>2. /\ ctrl # <<>>
      /\ out' = [ctrl |-> Append(out.ctrl, Delta!MergedTuple(c, n)),
                 diff |-> out.diff \o u \o w, extra |-> out.extra \o q]
      /\ diff' = SubSeq(diff, c.diff + 1, Len(diff))
      /\ extra' = SubSeq(extra, c.extra + 1, Len(extra))
      /\ oldPos' = (oldPos + c.diff) + c.seek
      /\ ctrl' = Tail(ctrl) /\ pc' = pc /\ UNCHANGED <<a, b, made>>
  BY DEF Delta!Optimise
<1>3. PICK y, x2 : /\ Writes(out, a, b, 0, 0, oldPos, y)
                   /\ Writes([ctrl |-> ctrl, diff |-> diff, extra |-> extra],
                             a, b, oldPos, y, x2, Len(b))
  BY <1>1 DEF Optimised
<1>4. Len(a) \in Nat /\ Len(b) \in Nat
  BY <1>1, LenProperties
<1>5. /\ oldPos \in Nat /\ y \in Nat
      /\ c \in TupleSet /\ c.diff <= Len(diff) /\ c.extra <= Len(extra)
      /\ Len(u) = c.diff /\ Len(v) = c.extra
      /\ Makes(u, v, c.seek, a, b, oldPos, y)
      /\ Writes(rest, a, b, (oldPos + c.diff) + c.seek, (y + c.diff) + c.extra, x2, Len(b))
  <2> DEFINE old == [ctrl |-> ctrl, diff |-> diff, extra |-> extra]
  <2>1. old.ctrl = ctrl /\ old.diff = diff /\ old.extra = extra
    OBVIOUS
  <2>2. Writes(old, a, b, oldPos, y, x2, Len(b))
    BY <1>3
  <2> HIDE DEF old
  <2>3. old.ctrl # <<>>
    BY <1>2, <2>1
  <2>4. LET h   == Head(old.ctrl)
            u1  == SubSeq(old.diff, 1, h.diff)
            v1  == SubSeq(old.extra, 1, h.extra)
            r   == [ctrl |-> Tail(old.ctrl),
                    diff |-> SubSeq(old.diff, h.diff + 1, Len(old.diff)),
                    extra |-> SubSeq(old.extra, h.extra + 1, Len(old.extra))]
        IN  /\ oldPos \in Nat /\ y \in Nat
            /\ h \in TupleSet /\ h.diff <= Len(old.diff) /\ h.extra <= Len(old.extra)
            /\ Len(u1) = h.diff /\ Len(v1) = h.extra
            /\ Makes(u1, v1, h.seek, a, b, oldPos, y)
            /\ Writes(r, a, b, (oldPos + h.diff) + h.seek, (y + h.diff) + h.extra, x2, Len(b))
    BY <1>4, <2>2, <2>3, FirstTuple
  <2> QED BY <2>1, <2>4
<1>6. /\ diff \in Seq(Octets) /\ extra \in Seq(Octets)
      /\ out \in BlockSet /\ out.diff \in Seq(Octets)
  BY <1>3 DEF Writes, BlockSet
<1>7. PICK cd \in Nat, ce \in Nat, z \in Int : cd = c.diff /\ ce = c.extra /\ z = c.seek
  BY <1>5 DEF TupleSet
<1>8. n \in Nat /\ n <= ce /\ (oldPos + cd) + n <= Len(a)
  <2>1. oldPos + c.diff <= Len(a)
    BY <1>5 DEF Makes
  <2>2. oldPos \in Nat /\ c \in TupleSet
    BY <1>5
  <2> HIDE DEF c
  <2>3. /\ Delta!Merged(c) \in Nat /\ Delta!Merged(c) <= c.extra
        /\ (oldPos + c.diff) + Delta!Merged(c) <= Len(a)
    BY <1>1, <2>1, <2>2, MergedIs
  <2> QED BY <1>7, <2>3
<1> HIDE DEF n, c
<1>9. v \in Seq(Octets) /\ \A r \in 1..ce : v[r] = extra[r]
  <2>1. ce <= Len(extra)
    BY <1>5, <1>7
  <2>2. /\ SubSeq(extra, 1, ce) \in Seq(Octets) /\ Len(SubSeq(extra, 1, ce)) = ce
        /\ \A r \in 1..ce : SubSeq(extra, 1, ce)[r] = extra[r]
    BY <1>6, <2>1, FirstOf
  <2> QED BY <1>7, <2>2
<1>10. p \in Seq(Octets) /\ Len(p) = n /\ \A r \in 1..n : p[r] = v[r]
  <2>1. n <= Len(extra)
    <3>1. PICK l \in Nat : l = Len(extra) /\ ce <= l
      BY <1>5, <1>6, <1>7, LenProperties
    <3> QED BY <1>8, <3>1
  <2>2. p \in Seq(Octets) /\ Len(p) = n /\ \A r \in 1..n : p[r] = extra[r]
    BY <1>6, <1>8, <2>1, FirstOf
  <2>3. \A r \in 1..n : r \in 1..ce
    BY <1>8
  <2> QED BY <1>9, <2>2, <2>3
<1>11. q \in Seq(Octets) /\ Len(q) = ce - n /\ \A r \in 1..(ce - n) : q[r] = v[n + r]
  <2>1. ce <= Len(extra)
    BY <1>5, <1>7
  <2>2. n <= ce
    BY <1>8
  <2>3. /\ SubSeq(extra, n + 1, ce) \in Seq(Octets) /\ Len(SubSeq(extra, n + 1, ce)) = ce - n
        /\ \A r \in 1..(ce - n) : SubSeq(extra, n + 1, ce)[r] = extra[n + r]
    BY <1>6, <1>8, <2>1, <2>2, RestOf
  <2>4. \A r \in 1..(ce - n) : n + r \in 1..ce
    BY <1>8
  <2> QED BY <1>7, <1>9, <2>3, <2>4
<1> HIDE DEF p, q, u, v, rest
<1>12. Len(u \o w) = cd + n /\ Makes(u \o w, q, z - n, a, b, oldPos, y)
  <2>1. Len(u) = cd /\ Len(v) = ce /\ Makes(u, v, z, a, b, oldPos, y)
    BY <1>5, <1>7
  <2>2. n <= Len(v)
    BY <1>8, <2>1
  <2>3. (oldPos + Len(u)) + n <= Len(a)
    BY <1>8, <2>1
  <2>4. Parted(p, q, v, n)
    BY <1>10, <1>11, <2>1 DEF Parted
  <2>5. oldPos \in Nat
    BY <1>5
  <2>6. y \in Nat
    BY <1>5
  <2>7. n \in Nat
    BY <1>8
  <2>8. Makes(u, v, z, a, b, oldPos, y)
    BY <2>1
  <2>9. a \in Seq(Octets) /\ Len(b) \in Nat
    BY <1>1, <1>4
  <2>10. LET w1 == u \o Delta!Minus(p, Delta!Bytes(a, oldPos + Len(u), (oldPos + Len(u)) + n))
         IN  Len(w1) = Len(u) + n /\ Makes(w1, q, z - n, a, b, oldPos, y)
    BY <2>2, <2>3, <2>4, <2>5, <2>6, <2>7, <2>8, <2>9, MergeMakes
  <2>11. Delta!Minus(p, Delta!Bytes(a, oldPos + Len(u), (oldPos + Len(u)) + n)) = w
    BY <1>7, <2>1
  <2> QED BY <2>1, <2>10, <2>11
<1>13. w \in Seq(Octets) /\ u \in Seq(Octets)
  <2>1. u \in Seq(Octets)
    BY <1>5 DEF Makes
  <2>2. DOMAIN p = 1..n
    BY <1>10, LenProperties
  <2>3. \A r \in 1..n : (p[r] - olds[r]) % Byte \in Octets
    <3>1. /\ olds \in Seq(Octets) /\ Len(olds) = n
      <4>1. PICK h \in Nat, l \in Nat : h = oldPos + cd /\ l = (oldPos + cd) + n
        BY <1>5, <1>8
      <4>2. h <= l /\ l - h = n
        BY <1>8, <4>1
      <4>3. l <= Len(a)
        BY <1>8, <4>1
      <4>4. Delta!Bytes(a, h, l) \in Seq(Octets) /\ Len(Delta!Bytes(a, h, l)) = l - h
        BY <1>1, <4>2, <4>3, BytesAre
      <4> QED BY <1>7, <4>1, <4>2, <4>4
    <3> HIDE DEF olds
    <3>2. \A r \in 1..n : p[r] \in Octets /\ olds[r] \in Octets
      BY <1>8, <1>10, <3>1, ElementOfSeq
    <3> QED BY <3>2, ByteBack
  <2>4. w = [r \in 1..n |-> (p[r] - olds[r]) % Byte]
    BY <2>2 DEF Delta!Minus
  <2> HIDE DEF w, olds
  <2>5. w \in [1..n -> Octets]
    BY <2>3, <2>4
  <2> QED BY <1>8, <2>1, <2>5, FunctionIsSeq
<1> HIDE DEF w
<1>14. Writes(out', a, b, 0, 0, (oldPos + cd) + z, (y + cd) + ce)
  <2>1. Writes([ctrl |-> Append(out.ctrl, Delta!Tuple(Len(u \o w), Len(q), z - n)),
                diff |-> out.diff \o (u \o w), extra |-> out.extra \o q],
               a, b, 0, 0, (oldPos + Len(u \o w)) + (z - n), (y + Len(u \o w)) + Len(q))
    BY <1>3, <1>4, <1>5, <1>12, WritesOne
  <2>2. (out.diff \o u) \o w = out.diff \o (u \o w)
    <3>1. out.diff \in Seq(Octets)
      BY <1>6
    <3>2. u \in Seq(Octets)
      BY <1>13
    <3>3. w \in Seq(Octets)
      BY <1>13
    <3>4. PICK g \in Seq(Octets), h \in Seq(Octets), l \in Seq(Octets) :
            g = out.diff /\ h = u /\ l = w
      BY <3>1, <3>2, <3>3
    <3>5. (g \o h) \o l = g \o (h \o l)
      BY ConcatAssociative
    <3> QED BY <3>4, <3>5
  <2>3. Delta!Tuple(Len(u \o w), Len(q), z - n) = Delta!MergedTuple(c, n)
    BY <1>7, <1>11, <1>12 DEF Delta!MergedTuple
  <2>4. /\ (oldPos + (cd + n)) + (z - n) = (oldPos + cd) + z
        /\ (y + (cd + n)) + (ce - n) = (y + cd) + ce
    BY <1>5, <1>8
  <2>5. Len(u \o w) = cd + n /\ Len(q) = ce - n
    BY <1>11, <1>12
  <2> HIDE DEF p, q, u, v
  <2>6. out' = [ctrl |-> Append(out.ctrl, Delta!Tuple(Len(u \o w), Len(q), z - n)),
                diff |-> out.diff \o (u \o w), extra |-> out.extra \o q]
    BY <1>2, <2>2, <2>3
  <2> QED BY <2>1, <2>4, <2>5, <2>6
<1>15. Writes([ctrl |-> ctrl', diff |-> diff', extra |-> extra'], a, b,
              (oldPos + cd) + z, (y + cd) + ce, x2, Len(b))
  <2>1. rest = [ctrl |-> ctrl', diff |-> diff', extra |-> extra']
    BY <1>2 DEF rest
  <2> QED BY <1>5, <1>7, <2>1
<1>16. Optimised(ctrl', diff', extra', out', a', b', oldPos')
  <2>1. Optimised(ctrl', diff', extra', out', a, b, (oldPos + cd) + z)
    BY <1>14, <1>15 DEF Optimised
  <2>2. oldPos' = (oldPos + cd) + z /\ a' = a /\ b' = b
    BY <1>2, <1>7
  <2> QED BY <2>1, <2>2
<1>17. pc' = "optimise" /\ made' = <<>> /\ a' = a /\ b' = b
  BY <1>1, <1>2
<1> QED BY <1>1, <1>16, <1>17 DEF DeltaInv, DeltaPhases

\* The patch is written.
LEMMA SerialiseKeeps ==
  ASSUME DeltaInv, engine \in ByteEngines, Delta!Serialise, engine' = engine
  PROVE  DeltaInv'
<1>1. /\ a \in Seq(Octets) /\ b \in Seq(Octets) /\ Len(a) <= MaxBytes /\ Len(b) <= MaxBytes
      /\ pc = "optimise" /\ Optimised(ctrl, diff, extra, out, a, b, oldPos)
  BY DEF DeltaInv, Delta!Serialise
<1>2. /\ ctrl = <<>> /\ ctrl' = Encoded(out.ctrl) /\ diff' = out.diff /\ extra' = out.extra
      /\ oldPos' = 0 /\ made' = <<>> /\ pc' = "patch" /\ UNCHANGED <<a, b>>
  BY DEF Delta!Serialise, Encoded
<1>3. PICK y, x2 : /\ Writes(out, a, b, 0, 0, oldPos, y)
                   /\ Writes([ctrl |-> ctrl, diff |-> diff, extra |-> extra],
                             a, b, oldPos, y, x2, Len(b))
  BY <1>1 DEF Optimised
<1>4. Len(b) = y
  <2> DEFINE o == [ctrl |-> ctrl, diff |-> diff, extra |-> extra]
  <2>1. o.ctrl = <<>>
    BY <1>2
  <2>2. Writes(o, a, b, oldPos, y, x2, Len(b))
    BY <1>3
  <2> HIDE DEF o
  <2> QED BY <2>1, <2>2, NoTuple
<1>5. out = [ctrl |-> out.ctrl, diff |-> out.diff, extra |-> out.extra]
  BY <1>3 DEF Writes, BlockSet
<1>6. Len(b) \in Nat
  BY <1>1, LenProperties
<1>7. Patching(Encoded(out.ctrl), out.diff, out.extra, a, b, 0, <<>>)
  <2>1. Writes([ctrl |-> out.ctrl, diff |-> out.diff, extra |-> out.extra],
               a, b, 0, Len(<<>>), oldPos, Len(b))
    BY <1>3, <1>4, <1>5
  <2>2. Begins(<<>>, b)
    BY <1>6 DEF Begins
  <2> QED BY <2>1, <2>2 DEF Patching
<1>8. Patching(ctrl', diff', extra', a', b', oldPos', made')
  BY <1>2, <1>7
<1> QED BY <1>1, <1>2, <1>8 DEF DeltaInv, DeltaPhases

\* The length of the new file is read as it was written.
LEMMA NewSizeIs ==
  ASSUME b \in Seq(Octets), Len(b) <= MaxBytes
  PROVE  Delta!NewSize = Len(b)
<1>1. PICK n \in Nat : n = Len(b)
  BY LenProperties
<1>2. n \in Int /\ ~(n < 0) /\ n <= MaxBytes
  BY <1>1
<1>3. Delta!ReadOff(Delta!WriteOff(n)) = n
  BY <1>2, OffsetBack
<1> QED BY <1>1, <1>3 DEF Delta!NewSize

\* A number is read as it was written.
Kept(z) == Delta!ReadOff(Delta!WriteOff(z)) = z

\* The numbers of a tuple are read as they were written: none is larger than a file.
LEMMA TupleBack ==
  ASSUME NEW s \in Seq(Octets), NEW t \in Seq(Octets), Len(s) <= MaxBytes, Len(t) <= MaxBytes,
         NEW u, NEW v, NEW z, NEW x \in Nat, NEW y \in Nat, Makes(u, v, z, s, t, x, y)
  PROVE  Kept(Len(u)) /\ Kept(Len(v)) /\ Kept(z)
<1>1. PICK lu \in Nat, lv \in Nat, ls \in Nat, lt \in Nat :
        lu = Len(u) /\ lv = Len(v) /\ ls = Len(s) /\ lt = Len(t)
  BY LenProperties DEF Makes
<1>2. PICK m \in Nat : m = MaxBytes /\ ls <= m /\ lt <= m
  BY <1>1, EngineAssumption
<1>3. /\ x + lu <= ls /\ (y + lu) + lv <= lt
      /\ 0 <= (x + lu) + z /\ (x + lu) + z <= ls /\ z \in Int
  BY <1>1 DEF Makes
<1>4. Delta!ReadOff(Delta!WriteOff(lu)) = lu
  <2>1. lu \in Int /\ ~(lu < 0) /\ lu <= MaxBytes
    BY <1>2, <1>3
  <2> QED BY <2>1, OffsetBack
<1>5. Delta!ReadOff(Delta!WriteOff(lv)) = lv
  <2>1. lv \in Int /\ ~(lv < 0) /\ lv <= MaxBytes
    BY <1>2, <1>3
  <2> QED BY <2>1, OffsetBack
<1>6. Delta!ReadOff(Delta!WriteOff(z)) = z
  <2>1. z \in Int /\ z <= m /\ -z <= m
    BY <1>2, <1>3
  <2>2. LET n == IF z < 0 THEN -z ELSE z IN n <= MaxBytes
    BY <1>2, <2>1
  <2>3. z \in Int
    BY <2>1
  <2> QED BY <2>2, <2>3, OffsetBack
<1> QED BY <1>1, <1>4, <1>5, <1>6 DEF Kept

\* A tuple that is applied makes the next bytes.
LEMMA AppliedMakes ==
  ASSUME NEW w, NEW s, NEW t \in Seq(Octets), Begins(w, t),
         NEW x, NEW u, NEW v, NEW z, Makes(u, v, z, s, t, x, Len(w)),
         NEW p, GoesOn(w, p, Len(u), t)
  PROVE  Begins((w \o p) \o v, t) /\ Len((w \o p) \o v) = (Len(w) + Len(u)) + Len(v)
<1>1. PICK lw \in Nat, lu \in Nat, lv \in Nat, lt \in Nat :
        lw = Len(w) /\ lu = Len(u) /\ lv = Len(v) /\ lt = Len(t)
  BY LenProperties DEF Makes, Begins
<1>0. /\ w \in Seq(Octets) /\ \A r \in 1..lw : w[r] = t[r]
      /\ p \in Seq(Octets) /\ Len(p) = lu /\ \A r \in 1..lu : p[r] = t[lw + r]
  BY <1>1 DEF Begins, GoesOn
<1>2. /\ v \in Seq(Octets) /\ (lw + lu) + lv <= lt
      /\ \A r \in 1..lv : v[r] = t[(lw + lu) + r]
  BY <1>1 DEF Makes
<1> DEFINE g == w \o p
           more == g \o v
<1>3. /\ g \in Seq(Octets) /\ Len(g) = lw + lu
      /\ \A r \in 1..(lw + lu) : g[r] = IF r <= lw THEN w[r] ELSE p[r - lw]
  <2>1. Len(w) = lw
    BY <1>1
  <2>2. Len(p) = lu
    BY <1>0
  <2>3. w \in Seq(Octets)
    BY <1>0
  <2>4. p \in Seq(Octets)
    BY <1>0
  <2> QED BY <2>1, <2>2, <2>3, <2>4, EndToEnd
<1> HIDE DEF g
<1>4. /\ more \in Seq(Octets) /\ Len(more) = (lw + lu) + lv
      /\ \A r \in 1..((lw + lu) + lv) : more[r] = IF r <= lw + lu THEN g[r] ELSE v[r - (lw + lu)]
  <2>1. Len(g) = lw + lu
    BY <1>3
  <2>2. Len(v) = lv
    BY <1>1
  <2>3. g \in Seq(Octets)
    BY <1>3
  <2>4. v \in Seq(Octets)
    BY <1>2
  <2>5. PICK m \in Nat : m = lw + lu
    OBVIOUS
  <2>6. Len(g) = m
    BY <2>1, <2>5
  <2>7. /\ more \in Seq(Octets) /\ Len(more) = m + lv
        /\ \A r \in 1..(m + lv) : more[r] = IF r <= m THEN g[r] ELSE v[r - m]
    BY <2>2, <2>3, <2>4, <2>6, EndToEnd, SMTT(20)
  <2> HIDE DEF more
  <2> QED BY <2>5, <2>7
<1> HIDE DEF more
<1>5. \A r \in 1..(lw + lu) : g[r] = t[r]
  <2> SUFFICES ASSUME NEW r \in 1..(lw + lu) PROVE g[r] = t[r]
    OBVIOUS
  <2>1. CASE r <= lw
    <3>1. r \in 1..lw /\ g[r] = w[r]
      BY <1>3, <2>1
    <3> QED BY <1>0, <3>1
  <2>2. CASE ~(r <= lw)
    <3>1. PICK l \in 1..lu : l = r - lw
      BY <2>2
    <3>2. g[r] = p[l] /\ lw + l = r
      BY <1>3, <2>2, <3>1
    <3> QED BY <1>0, <3>1, <3>2
  <2> QED BY <2>1, <2>2
<1>6. \A r \in 1..((lw + lu) + lv) : more[r] = t[r]
  <2> SUFFICES ASSUME NEW r \in 1..((lw + lu) + lv) PROVE more[r] = t[r]
    OBVIOUS
  <2>1. CASE r <= lw + lu
    <3>1. r \in 1..(lw + lu) /\ more[r] = g[r]
      BY <1>4, <2>1
    <3> QED BY <1>5, <3>1
  <2>2. CASE ~(r <= lw + lu)
    <3>1. PICK l \in 1..lv : l = r - (lw + lu)
      BY <2>2
    <3>2. more[r] = v[r - (lw + lu)]
      BY <1>4, <2>2
    <3>3. (lw + lu) + l = r
      BY <3>1
    <3>4. v[l] = t[(lw + lu) + l]
      BY <1>2, <3>1
    <3> QED BY <3>1, <3>2, <3>3, <3>4
  <2> QED BY <2>1, <2>2
<1>7. Len(more) <= Len(t)
  BY <1>1, <1>2, <1>4
<1>8. Begins(more, t)
  BY <1>4, <1>6, <1>7 DEF Begins
<1>9. Len(more) = (Len(w) + Len(u)) + Len(v)
  BY <1>1, <1>4
<1> QED BY <1>8, <1>9 DEF more, g

\* A tuple is applied.
LEMMA ApplyKeeps ==
  ASSUME DeltaInv, engine \in ByteEngines, Delta!ApplyTuple, engine' = engine
  PROVE  DeltaInv'
<1>1. /\ a \in Seq(Octets) /\ b \in Seq(Octets) /\ Len(a) <= MaxBytes /\ Len(b) <= MaxBytes
      /\ pc = "patch" /\ Patching(ctrl, diff, extra, a, b, oldPos, made)
  BY DEF DeltaInv, Delta!ApplyTuple, Delta!Applying
<1>2. PICK cs, x2 :
        /\ ctrl = Encoded(cs)
        /\ Writes([ctrl |-> cs, diff |-> diff, extra |-> extra], a, b, oldPos, Len(made), x2, Len(b))
  BY <1>1 DEF Patching
<1> DEFINE c == Head(cs)
           u == SubSeq(diff, 1, c.diff)
           v == SubSeq(extra, 1, c.extra)
           rest == [ctrl |-> Tail(cs),
                    diff |-> SubSeq(diff, c.diff + 1, Len(diff)),
                    extra |-> SubSeq(extra, c.extra + 1, Len(extra))]
<1>3. cs \in Seq(TupleSet) /\ diff \in Seq(Octets) /\ extra \in Seq(Octets)
  BY <1>2 DEF Writes, BlockSet
<1>4. ctrl # <<>> /\ ctrl' = Tail(ctrl) /\ UNCHANGED <<a, b>>
  BY DEF Delta!ApplyTuple, Delta!Applying
<1> DEFINE enc == [m \in 1..Len(cs) |-> <<Delta!WriteOff(cs[m].diff), Delta!WriteOff(cs[m].extra),
                                         Delta!WriteOff(cs[m].seek)>>]
<1>5. DOMAIN cs = 1..Len(cs) /\ Len(cs) \in Nat
  BY <1>3, LenProperties
<1>6. ctrl = enc
  BY <1>2, <1>5 DEF Encoded
<1>7. cs # <<>> /\ Len(cs) # 0 /\ 1 \in 1..Len(cs)
  <2>1. CASE Len(cs) = 0
    <3>1. enc = <<>>
      BY <2>1
    <3> QED BY <1>4, <1>6, <3>1
  <2>2. CASE Len(cs) # 0
    BY <1>3, <1>5, <2>2, EmptySeq
  <2> QED BY <2>1, <2>2
<1>8. /\ Head(ctrl) = <<Delta!WriteOff(c.diff), Delta!WriteOff(c.extra), Delta!WriteOff(c.seek)>>
      /\ Tail(ctrl) = Encoded(Tail(cs))
  <2>0. PICK l \in Nat : l = Len(cs) /\ l >= 1
    <3>1. PICK l \in Nat : l = Len(cs)
      BY <1>5
    <3>2. l # 0
      BY <1>7, <3>1
    <3>3. l >= 1
      BY <3>2
    <3> QED BY <3>1, <3>3
  <2>1. PICK n \in Nat : n + 1 = Len(cs)
    <3>1. l - 1 \in Nat /\ (l - 1) + 1 = l
      BY <2>0
    <3> QED BY <2>0, <3>1
  <2>2. PICK S : enc \in [1..l -> S]
    <3>1. enc \in [1..l -> {enc[m] : m \in 1..l}]
      BY <2>0
    <3> QED BY <3>1
  <2>4. enc[1] = <<Delta!WriteOff(cs[1].diff), Delta!WriteOff(cs[1].extra),
                   Delta!WriteOff(cs[1].seek)>>
    BY <1>7
  <2>5. \A m \in 1..n : enc[m + 1] = <<Delta!WriteOff(cs[m + 1].diff),
                                      Delta!WriteOff(cs[m + 1].extra),
                                      Delta!WriteOff(cs[m + 1].seek)>>
    <3>1. \A m \in 1..n : m + 1 \in 1..Len(cs)
      BY <2>1
    <3> QED BY <3>1
  <2> HIDE DEF enc
  <2>3. enc \in Seq(S) /\ Len(enc) = n + 1
    <3>1. enc \in Seq(S) /\ Len(enc) = l
      BY <2>2, FunctionIsSeq
    <3> QED BY <2>0, <2>1, <3>1
  <2>6. enc # <<>> /\ n + 1 - 1 = n
    BY <1>4, <1>6, <2>1
  <2>7. /\ Head(enc) = enc[1] /\ Tail(enc) \in Seq(S) /\ Len(Tail(enc)) = n
        /\ \A m \in 1..n : Tail(enc)[m] = enc[m + 1]
    BY <2>3, <2>6, HeadTailProperties
  <2>8. /\ Head(cs) = cs[1] /\ Tail(cs) \in Seq(TupleSet) /\ Len(Tail(cs)) = n
        /\ \A m \in 1..n : Tail(cs)[m] = cs[m + 1]
    BY <1>3, <1>7, <2>1, <2>6, HeadTailProperties
  <2>9. Tail(enc) = [m \in 1..n |-> enc[m + 1]]
    <3>1. DOMAIN Tail(enc) = 1..n /\ Tail(enc) = [m \in DOMAIN Tail(enc) |-> Tail(enc)[m]]
      BY <2>7, LenProperties
    <3> QED BY <2>7, <3>1
  <2>10. Encoded(Tail(cs)) = [m \in 1..n |-> enc[m + 1]]
    <3>1. DOMAIN Tail(cs) = 1..n
      BY <2>8, LenProperties
    <3> QED BY <2>5, <2>8, <3>1 DEF Encoded
  <2> QED BY <1>6, <2>4, <2>7, <2>8, <2>9, <2>10
<1> HIDE DEF enc
<1>9. Len(a) \in Nat /\ Len(b) \in Nat /\ Len(made) \in Nat /\ made \in Seq(Octets)
  BY <1>1, LenProperties DEF Patching, Begins
<1>10. /\ oldPos \in Nat
       /\ c \in TupleSet /\ c.diff <= Len(diff) /\ c.extra <= Len(extra)
       /\ Len(u) = c.diff /\ Len(v) = c.extra
       /\ Makes(u, v, c.seek, a, b, oldPos, Len(made))
       /\ Writes(rest, a, b, (oldPos + c.diff) + c.seek, (Len(made) + c.diff) + c.extra, x2, Len(b))
  <2> DEFINE old == [ctrl |-> cs, diff |-> diff, extra |-> extra]
  <2>1. old.ctrl = cs /\ old.diff = diff /\ old.extra = extra
    OBVIOUS
  <2>2. Writes(old, a, b, oldPos, Len(made), x2, Len(b))
    BY <1>2
  <2> HIDE DEF old
  <2>3. old.ctrl # <<>>
    BY <1>7, <2>1
  <2>4. LET h   == Head(old.ctrl)
            u1  == SubSeq(old.diff, 1, h.diff)
            v1  == SubSeq(old.extra, 1, h.extra)
            r   == [ctrl |-> Tail(old.ctrl),
                    diff |-> SubSeq(old.diff, h.diff + 1, Len(old.diff)),
                    extra |-> SubSeq(old.extra, h.extra + 1, Len(old.extra))]
        IN  /\ oldPos \in Nat /\ Len(made) \in Nat
            /\ h \in TupleSet /\ h.diff <= Len(old.diff) /\ h.extra <= Len(old.extra)
            /\ Len(u1) = h.diff /\ Len(v1) = h.extra
            /\ Makes(u1, v1, h.seek, a, b, oldPos, Len(made))
            /\ Writes(r, a, b, (oldPos + h.diff) + h.seek, (Len(made) + h.diff) + h.extra, x2, Len(b))
    BY <1>9, <2>2, <2>3, FirstTuple
  <2> QED BY <2>1, <2>4
<1>11. /\ Delta!ReadOff(Head(ctrl)[1]) = c.diff /\ Delta!ReadOff(Head(ctrl)[2]) = c.extra
       /\ Delta!ReadOff(Head(ctrl)[3]) = c.seek
  <2>1. Kept(Len(u)) /\ Kept(Len(v)) /\ Kept(c.seek)
    <3> HIDE DEF u, v, c
    <3>1. a \in Seq(Octets)
      BY <1>1
    <3>2. b \in Seq(Octets)
      BY <1>1
    <3>3. Len(a) <= MaxBytes
      BY <1>1
    <3>4. Len(b) <= MaxBytes
      BY <1>1
    <3>5. oldPos \in Nat
      BY <1>10
    <3>6. Len(made) \in Nat
      BY <1>9
    <3>7. Makes(u, v, c.seek, a, b, oldPos, Len(made))
      BY <1>10
    <3> QED BY <3>1, <3>2, <3>3, <3>4, <3>5, <3>6, <3>7, TupleBack
  <2> HIDE DEF u, v, c
  <2>2. /\ Head(ctrl)[1] = Delta!WriteOff(c.diff) /\ Head(ctrl)[2] = Delta!WriteOff(c.extra)
        /\ Head(ctrl)[3] = Delta!WriteOff(c.seek)
    BY <1>8
  <2> QED BY <1>10, <2>1, <2>2 DEF Kept
<1> DEFINE w == Delta!Plus(Delta!OldBytes(c.diff), u)
<1>12. /\ made' = (made \o w) \o v
       /\ diff' = SubSeq(diff, c.diff + 1, Len(diff))
       /\ extra' = SubSeq(extra, c.extra + 1, Len(extra))
       /\ oldPos' = (oldPos + c.diff) + c.seek /\ pc' = pc
  <2> DEFINE h == Delta!Tuple(Delta!ReadOff(Head(ctrl)[1]), Delta!ReadOff(Head(ctrl)[2]),
                             Delta!ReadOff(Head(ctrl)[3]))
  <2>1. h.diff = c.diff /\ h.extra = c.extra /\ h.seek = c.seek
    BY <1>11 DEF Delta!Tuple
  <2>2. /\ IF h.diff > Len(diff) \/ h.extra > Len(extra)
           THEN pc' = "raised" /\ UNCHANGED <<diff, extra, oldPos, made>>
           ELSE /\ made' = made \o Delta!Plus(Delta!OldBytes(h.diff), SubSeq(diff, 1, h.diff))
                                \o SubSeq(extra, 1, h.extra)
                /\ diff' = SubSeq(diff, h.diff + 1, Len(diff))
                /\ extra' = SubSeq(extra, h.extra + 1, Len(extra))
                /\ oldPos' = oldPos + h.diff + h.seek
                /\ UNCHANGED pc
    BY DEF Delta!ApplyTuple
  <2>3. ~(c.diff > Len(diff) \/ c.extra > Len(extra))
    <3>1. PICK p \in Nat, q \in Nat, l \in Nat, m \in Nat :
            p = c.diff /\ q = c.extra /\ l = Len(diff) /\ m = Len(extra)
      BY <1>3, <1>10, LenProperties DEF TupleSet
    <3>2. p <= l /\ q <= m
      BY <1>10, <3>1
    <3>3. ~(p > l \/ q > m)
      BY <3>2
    <3> QED BY <3>1, <3>3
  <2> HIDE DEF h, c
  <2> QED BY <2>1, <2>2, <2>3
<1> HIDE DEF c
<1>13. PICK cd \in Nat, z \in Int : cd = c.diff /\ z = c.seek
  BY <1>10 DEF TupleSet
<1>14. w \in Seq(Octets) /\ Len(w) = cd /\ \A r \in 1..cd : w[r] = b[Len(made) + r]
  <2>1. /\ u \in Seq(Octets) /\ Len(u) = cd /\ oldPos + cd <= Len(a)
        /\ Len(made) + cd <= Len(b)
        /\ \A r \in 1..cd : (a[oldPos + r] + u[r]) % Byte = b[Len(made) + r]
    <3>1. PICK lv \in Nat : lv = Len(v)
      BY <1>10 DEF TupleSet
    <3>2. Len(u) = cd
      BY <1>10, <1>13
    <3>3. (Len(made) + cd) + lv <= Len(b)
      BY <1>10, <3>1, <3>2 DEF Makes
    <3>4. Len(made) + cd <= Len(b)
      BY <1>9, <3>3
    <3> HIDE DEF u, v
    <3> QED BY <1>10, <3>2, <3>4 DEF Makes
  <2> HIDE DEF u
  <2>2. \A r \in 1..cd : oldPos + r \in 1..Len(a) /\ Len(made) + r \in 1..Len(b)
    BY <1>9, <1>10, <2>1, SMTT(60)
  <2>3. DOMAIN u = 1..cd
    BY <2>1, LenProperties
  <2>4. w = [r \in 1..cd |-> (a[oldPos + r] + u[r]) % Byte]
    BY <1>13, <2>2, <2>3 DEF Delta!Plus, Delta!OldBytes
  <2>5. \A r \in 1..cd : b[Len(made) + r] \in Octets
    BY <1>1, <2>2, ElementOfSeq
  <2> HIDE DEF w
  <2>6. w \in [1..cd -> Octets] /\ \A r \in 1..cd : w[r] = b[Len(made) + r]
    BY <2>1, <2>4, <2>5
  <2> QED BY <2>6, FunctionIsSeq
<1> HIDE DEF w, u, v
<1>15. Begins(made', b) /\ Len(made') = (Len(made) + c.diff) + c.extra
  <2>1. b \in Seq(Octets)
    BY <1>1
  <2>2. Begins(made, b)
    BY <1>1 DEF Patching
  <2>3. Makes(u, v, c.seek, a, b, oldPos, Len(made))
    BY <1>10
  <2>4. GoesOn(made, w, Len(u), b)
    BY <1>10, <1>13, <1>14 DEF GoesOn
  <2>5. Begins((made \o w) \o v, b) /\ Len((made \o w) \o v) = (Len(made) + Len(u)) + Len(v)
    BY <2>1, <2>2, <2>3, <2>4, AppliedMakes
  <2> QED BY <1>10, <1>12, <2>5
<1>16. Patching(ctrl', diff', extra', a', b', oldPos', made')
  <2>1. rest = [ctrl |-> Tail(cs), diff |-> diff', extra |-> extra']
    BY <1>12 DEF rest
  <2>2. Writes([ctrl |-> Tail(cs), diff |-> diff', extra |-> extra'],
               a, b, oldPos', Len(made'), x2, Len(b))
    BY <1>10, <1>12, <1>15, <2>1
  <2>3. Patching(Encoded(Tail(cs)), diff', extra', a, b, oldPos', made')
    BY <1>15, <2>2 DEF Patching
  <2>4. ctrl' = Encoded(Tail(cs)) /\ a' = a /\ b' = b
    BY <1>4, <1>8
  <2> QED BY <2>3, <2>4
<1>17. pc' = "patch" /\ a' = a /\ b' = b
  BY <1>1, <1>4, <1>12
<1> QED BY <1>1, <1>16, <1>17 DEF DeltaInv, DeltaPhases

\* patch() returns when it has made all of the new file.
LEMMA ReturnKeeps ==
  ASSUME DeltaInv, engine \in ByteEngines, Delta!Return, engine' = engine
  PROVE  DeltaInv'
<1>1. /\ a \in Seq(Octets) /\ b \in Seq(Octets) /\ Len(a) <= MaxBytes /\ Len(b) <= MaxBytes
      /\ pc = "patch" /\ Patching(ctrl, diff, extra, a, b, oldPos, made)
  BY DEF DeltaInv, Delta!Return
<1>2. /\ ~Delta!Applying /\ UNCHANGED <<a, b, made>>
      /\ pc' = IF Len(made) = Delta!NewSize THEN "patched" ELSE "raised"
  BY DEF Delta!Return
<1>3. Delta!NewSize = Len(b)
  BY <1>1, NewSizeIs
<1>4. /\ made \in Seq(Octets) /\ Len(made) <= Len(b) /\ Len(made) \in Nat /\ Len(b) \in Nat
      /\ \A r \in 1..Len(made) : made[r] = b[r]
  BY <1>1, LenProperties DEF Patching, Begins
<1>5. Len(made) = Len(b)
  <2>1. CASE ctrl = <<>>
    <3>1. PICK cs, x2 :
            /\ ctrl = Encoded(cs)
            /\ Writes([ctrl |-> cs, diff |-> diff, extra |-> extra], a, b, oldPos, Len(made), x2, Len(b))
      BY <1>1 DEF Patching
    <3> DEFINE o == [ctrl |-> cs, diff |-> diff, extra |-> extra]
    <3>2. Writes(o, a, b, oldPos, Len(made), x2, Len(b)) /\ o.ctrl = cs
      BY <3>1
    <3>3. cs \in Seq(TupleSet)
      BY <3>1 DEF Writes, BlockSet
    <3>4. DOMAIN cs = DOMAIN <<>>
      <4>1. DOMAIN Encoded(cs) = DOMAIN cs
        BY DEF Encoded
      <4> QED BY <2>1, <3>1, <4>1
    <3>5. cs = <<>>
      <4>1. DOMAIN cs = 1..Len(cs) /\ Len(cs) \in Nat
        BY <3>3, LenProperties
      <4>2. Len(cs) = 0
        <5>1. DOMAIN <<>> = {}
          OBVIOUS
        <5>2. 1 \notin 1..Len(cs)
          BY <3>4, <4>1, <5>1
        <5> QED BY <4>1, <5>2
      <4> QED BY <3>3, <4>2, EmptySeq
    <3> HIDE DEF o
    <3>6. o.ctrl = <<>>
      BY <3>2, <3>5
    <3> QED BY <3>2, <3>6, NoTuple
  <2>2. CASE ctrl # <<>>
    <3>1. ~(Len(made) < Len(b))
      BY <1>1, <1>2, <1>3, <2>2 DEF Delta!Applying
    <3> QED BY <1>4, <3>1
  <2> QED BY <2>1, <2>2
<1>6. made = b
  BY <1>1, <1>4, <1>5, SeqEqual
<1>7. pc' = "patched"
  BY <1>2, <1>3, <1>5
<1> QED BY <1>1, <1>2, <1>6, <1>7 DEF DeltaInv, DeltaPhases

\* A matcher leaves the files alone, and comes to the delta only when it has emitted all
\* of its opcodes.
LEMMA ChunkLeaves ==
  ASSUME Chunk!Next
  PROVE  /\ UNCHANGED <<a, b>>
         /\ pc \notin DeltaPhases /\ (pc' \notin DeltaPhases \/ pc' = "emitted")
<1>1. CASE Chunk!Walk
  <2>1. UNCHANGED <<a, b>> /\ Chunk!Coarse!Next
    BY <1>1 DEF Chunk!Walk
  <2>2. pc = "scan" /\ pc' \in {"scan", "done"}
    BY <2>1 DEF Chunk!Coarse!Next, Chunk!Coarse!Match, Chunk!Coarse!Synchronise,
                Chunk!Coarse!GiveUp, Chunk!Coarse!Finish, Chunk!Coarse!MoveTo
  <2> QED BY <2>1, <2>2 DEF DeltaPhases
<1>2. CASE Chunk!Emit
  <2>1. UNCHANGED <<a, b>> /\ pc = "done" /\ pc' \in {"done", "fine", "anchor"}
    BY <1>2 DEF Chunk!Emit
  <2> QED BY <2>1 DEF DeltaPhases
<1>3. ASSUME Chunk!DifflibSays \/ Chunk!AnchorBInA \/ Chunk!AnchorAInB \/ Chunk!ReplaceStep
      PROVE  UNCHANGED <<a, b, pc>> /\ pc \in {"fine", "anchor"}
  BY <1>3 DEF Chunk!DifflibSays, Chunk!AnchorBInA, Chunk!AnchorAInB, Chunk!ReplaceStep,
              Chunk!Refined, Chunk!Anchoring
<1>4. CASE Chunk!DifflibSays \/ Chunk!AnchorBInA \/ Chunk!AnchorAInB \/ Chunk!ReplaceStep
  BY <1>3, <1>4 DEF DeltaPhases
<1>5. CASE Chunk!BlockDone \/ Chunk!Finish
  <2>1. UNCHANGED <<a, b>> /\ pc \in {"fine", "anchor", "done"} /\ pc' \in {"done", "emitted"}
    BY <1>5 DEF Chunk!BlockDone, Chunk!Finish
  <2> QED BY <2>1 DEF DeltaPhases
<1> QED BY <1>1, <1>2, <1>4, <1>5 DEF Chunk!Next

\* The rolling matcher, too.
LEMMA RollingLeaves ==
  ASSUME Rolling!Next
  PROVE  /\ UNCHANGED <<a, b>>
         /\ pc \notin DeltaPhases /\ (pc' \notin DeltaPhases \/ pc' = "emitted")
<1>1. CASE Rolling!Begin
  <2>1. UNCHANGED <<a, b>> /\ pc = "start" /\ pc' \in {"roll", "end"}
    BY <1>1 DEF Rolling!Begin, Rolling!ResetWindow
  <2> QED BY <2>1 DEF DeltaPhases
<1>2. CASE Rolling!Copy
  <2>1. UNCHANGED <<a, b>> /\ pc = "roll" /\ pc' \in {"roll", "end"}
    BY <1>2 DEF Rolling!Copy, Rolling!ResetWindow
  <2> QED BY <2>1 DEF DeltaPhases
<1>3. CASE Rolling!Roll
  <2>1. UNCHANGED <<a, b>> /\ pc = "roll" /\ pc' \in {"roll", "end"}
    BY <1>3 DEF Rolling!Roll
  <2> QED BY <2>1 DEF DeltaPhases
<1>4. CASE Rolling!Finish
  <2>1. UNCHANGED <<a, b>> /\ pc = "end" /\ pc' = "emitted"
    BY <1>4 DEF Rolling!Finish
  <2> QED BY <2>1 DEF DeltaPhases
<1> QED BY <1>1, <1>2, <1>3, <1>4 DEF Rolling!Next

\* What a matcher has emitted is what the delta begins to read.
LEMMA EmittedIsRead ==
  ASSUME NEW said, NEW s, NEW t, NEW x, Len(s) \in Nat, Len(t) \in Nat,
         JumpedTo(said, s, t, x, Len(t))
  PROVE  ReadSoFar(said, 0, Delta!Empty, Delta!Nothing, s, t)
<1>1. PICK f : LeadsTo(f, said) /\ \A m \in 1..Len(said) : JumpTrue(f, said, m, s, t)
  BY DEF JumpedTo
<1>2. said \in Seq(OpcodeSet) /\ ReachedInB(said) = Len(t) /\ Len(said) \in Nat
  BY LenProperties DEF JumpedTo
<1>3. Gathering(Delta!Empty, Delta!Nothing, s, t, f[0], 0)
  <2>1. f[0] = 0
    BY <1>1 DEF LeadsTo
  <2> QED BY <2>1, NothingGathered
<1>4. 0 \in 0..Len(said)
  BY <1>2
<1> QED BY <1>1, <1>2, <1>3, <1>4 DEF ReadSoFar

\* When a matcher makes a step, the delta has not begun, and finds what it needs when it
\* does.
LEMMA MatcherKeeps ==
  ASSUME DeltaInv, engine \in ByteEngines, engine' = engine, UNCHANGED deltaVars,
         UNCHANGED <<a, b>>, pc \notin DeltaPhases, pc' \notin DeltaPhases \/ pc' = "emitted",
         pc' = "emitted" => \E x : JumpedTo(ops', a, b, x, Len(b))
  PROVE  DeltaInv'
<1>1. /\ a \in Seq(Octets) /\ b \in Seq(Octets) /\ Len(a) <= MaxBytes /\ Len(b) <= MaxBytes
      /\ Delta!Start
  BY DEF DeltaInv
<1>2. /\ taken' = 0 /\ current' = Delta!Nothing /\ out' = Delta!Empty /\ made' = <<>>
      /\ Delta!Start'
  BY <1>1 DEF deltaVars, Delta!Start
<1>3. Len(a) \in Nat /\ Len(b) \in Nat
  BY <1>1, LenProperties
<1>4. CASE pc' = "emitted"
  <2>1. PICK x : JumpedTo(ops', a, b, x, Len(b))
    BY <1>4
  <2>2. ReadSoFar(ops', 0, Delta!Empty, Delta!Nothing, a, b)
    BY <1>3, <2>1, EmittedIsRead
  <2>3. ReadSoFar(ops', taken', out', current', a', b')
    BY <1>2, <2>2
  <2> QED BY <1>1, <1>2, <1>4, <2>3 DEF DeltaInv, DeltaPhases
<1>5. CASE pc' \notin DeltaPhases
  BY <1>1, <1>2, <1>5 DEF DeltaInv, DeltaPhases
<1> QED BY <1>4, <1>5

\* The invariant of the delta rests on those of the two matchers, which make what it reads.
LEMMA DeltaInvNext ==
  RollingInv' /\ ChunkInv' /\ DeltaInv /\ [Next]_vars => DeltaInv'
<1> SUFFICES ASSUME RollingInv', ChunkInv', DeltaInv, [Next]_vars, engine' \in ByteEngines
             PROVE  DeltaInv'
  BY DEF DeltaInv
<1>1. engine' = engine
  BY DEF Next, vars, RunGreedy, RunMyers, RunDmp, RunSes, RunDifflib, RunChunk, RunRolling,
         WriteAndApply
<1>2. engine \in ByteEngines
  BY <1>1
<1>3. CASE RunChunk
  <2>1. engine = "chunk" /\ Chunk!Next /\ UNCHANGED deltaVars
    BY <1>3 DEF RunChunk
  <2>2. UNCHANGED <<a, b>> /\ pc \notin DeltaPhases
    BY <2>1, ChunkLeaves
  <2>3. pc' \notin DeltaPhases \/ pc' = "emitted"
    BY <2>1, ChunkLeaves
  <2>4. pc' = "emitted" => \E x : JumpedTo(ops', a, b, x, Len(b))
    <3> SUFFICES ASSUME pc' = "emitted" PROVE \E x : JumpedTo(ops', a, b, x, Len(b))
      OBVIOUS
    <3>1. SaidUpTo(ops', a', b', Len(a'), Len(b'))
      BY <1>1, <2>1 DEF ChunkInv
    <3>2. SaidUpTo(ops', a, b, Len(a), Len(b))
      BY <2>2, <3>1
    <3> QED BY <3>2, SaidIsJumped
  <2> QED BY <1>1, <1>2, <2>1, <2>2, <2>3, <2>4, MatcherKeeps
<1>4. CASE RunRolling
  <2>1. engine = "rolling" /\ Rolling!Next /\ UNCHANGED deltaVars
    BY <1>4 DEF RunRolling
  <2>2. UNCHANGED <<a, b>> /\ pc \notin DeltaPhases
    BY <2>1, RollingLeaves
  <2>3. pc' \notin DeltaPhases \/ pc' = "emitted"
    BY <2>1, RollingLeaves
  <2>4. pc' = "emitted" => \E x : JumpedTo(ops', a, b, x, Len(b))
    <3> SUFFICES ASSUME pc' = "emitted" PROVE \E x : JumpedTo(ops', a, b, x, Len(b))
      OBVIOUS
    <3>1. JumpedTo(ops', a', b', oldEnd', Len(b'))
      BY <1>1, <2>1 DEF RollingInv
    <3> QED BY <2>2, <3>1
  <2> QED BY <1>1, <1>2, <2>1, <2>2, <2>3, <2>4, MatcherKeeps
<1>5. CASE WriteAndApply
  <2>1. Delta!Next
    BY <1>5 DEF WriteAndApply
  <2> QED BY <1>1, <1>2, <2>1, ReadOpcodeKeeps, FlushLastKeeps, OptimiseKeeps, SerialiseKeeps,
             ApplyKeeps, ReturnKeeps DEF Delta!Next
<1>6. CASE UNCHANGED vars
  <2>1. UNCHANGED <<engine, a, b, ops, pc, deltaVars>>
    BY <1>6 DEF vars
  <2>2. Delta!Start' = Delta!Start
    BY <2>1 DEF deltaVars, Delta!Start
  <2>3. UNCHANGED <<taken, current, ctrl, diff, extra, out, oldPos, made>>
    BY <2>1 DEF deltaVars
  <2> QED BY <1>2, <2>1, <2>2, <2>3 DEF DeltaInv
<1>7. CASE RunGreedy \/ RunMyers \/ RunDmp \/ RunSes \/ RunDifflib
  <2>1. engine \notin ByteEngines
    BY <1>7 DEF RunGreedy, RunMyers, RunDmp, RunSes, RunDifflib, ByteEngines
  <2> QED BY <1>2, <2>1
<1> QED BY <1>3, <1>4, <1>5, <1>6, <1>7 DEF Next

-------------------------------------------------------------------------------
(* The theorems. *)

\* diff(), _optimize_patch and patch() of pybsdiff.py: whatever the two files are, however
\* the matcher that was chosen cut them up, whatever tuples were gathered and whichever of
\* them were merged, a patch that is written and read back makes the new file from the
\* old one: at every tuple what has been made is how the new file begins, when patch()
\* returns it is all of it, and no patch of diff() is refused.
THEOREM PatchIsRight == Spec => []PatchRestores
<1>1. DeltaInv => PatchRestores
  <2> SUFFICES ASSUME DeltaInv, engine \in ByteEngines PROVE Delta!PatchRestores
    BY DEF PatchRestores
  <2>1. a \in Seq(Octets) /\ b \in Seq(Octets) /\ pc # "raised" /\ (pc = "patched" => made = b)
    BY DEF DeltaInv
  <2>2. Begins(made, b)
    <3>1. Begins(<<>>, b) /\ Begins(b, b)
      BY <2>1, LenProperties DEF Begins
    <3>2. CASE pc \notin DeltaPhases
      BY <3>1, <3>2 DEF DeltaInv, Delta!Start
    <3>3. CASE pc \in DeltaPhases
      BY <3>1, <3>3 DEF DeltaInv, DeltaPhases, Patching
    <3> QED BY <3>2, <3>3
  <2>3. \E m \in 0..Len(b) : made = SubSeq(b, 1, m)
    <3>1. /\ made \in Seq(Octets) /\ Len(made) \in Nat /\ Len(b) \in Nat /\ Len(made) <= Len(b)
          /\ \A r \in 1..Len(made) : made[r] = b[r]
      BY <2>1, <2>2, LenProperties DEF Begins
    <3>2. SubSeq(b, 1, Len(made)) = made
      <4>1. SubSeq(b, 1, Len(made)) \in Seq(Octets) /\ Len(SubSeq(b, 1, Len(made))) = Len(made)
            /\ \A r \in 1..Len(made) : SubSeq(b, 1, Len(made))[r] = b[r]
        BY <2>1, <3>1, SubSeqProperties
      <4> QED BY <3>1, <4>1, SeqEqual
    <3>3. Len(made) \in 0..Len(b)
      BY <3>1
    <3> WITNESS Len(made) \in 0..Len(b)
    <3> QED BY <3>2
  <2> QED BY <2>1, <2>3 DEF Delta!PatchRestores
<1>2. RollingInv /\ ChunkInv /\ DeltaInv /\ [Next]_vars => RollingInv' /\ ChunkInv' /\ DeltaInv'
  BY RollingInvNext, ChunkInvNext, DeltaInvNext
<1>3. Init => RollingInv /\ ChunkInv /\ DeltaInv
  BY RollingInvInit, ChunkInvInit, DeltaInvInit
<1> QED BY <1>1, <1>2, <1>3, PTL DEF Spec

\* While the optimiser runs, what it has written and what it has still to read account
\* for the bytes of their blocks and together for the whole of the new file: it moves
\* bytes from one block to another, and loses none and writes none twice.
THEOREM TuplesAccount == Spec => []TuplesAddUp
<1>1. DeltaInv => TuplesAddUp
  <2> SUFFICES ASSUME DeltaInv, engine \in ByteEngines, pc = "optimise"
               PROVE  /\ Delta!DiffBytes(ctrl) = Len(diff) /\ Delta!ExtraBytes(ctrl) = Len(extra)
                      /\ Delta!DiffBytes(out.ctrl) = Len(out.diff)
                      /\ Delta!ExtraBytes(out.ctrl) = Len(out.extra)
                      /\ Delta!DiffBytes(ctrl) + Delta!ExtraBytes(ctrl)
                           + Delta!DiffBytes(out.ctrl) + Delta!ExtraBytes(out.ctrl) = Len(b)
    BY DEF TuplesAddUp, Delta!TuplesAddUp
  <2>1. Optimised(ctrl, diff, extra, out, a, b, oldPos)
    BY DEF DeltaInv
  <2> DEFINE o == [ctrl |-> ctrl, diff |-> diff, extra |-> extra]
  <2>2. PICK y, x2 : Writes(out, a, b, 0, 0, oldPos, y) /\ Writes(o, a, b, oldPos, y, x2, Len(b))
    BY <2>1 DEF Optimised
  <2>3. /\ o.ctrl = ctrl /\ o.diff = diff /\ o.extra = extra
        /\ o \in BlockSet /\ out \in BlockSet
    BY <2>2 DEF Writes
  <2>4. diff \in Seq(Octets) /\ extra \in Seq(Octets)
        /\ out.diff \in Seq(Octets) /\ out.extra \in Seq(Octets)
    BY <2>3 DEF BlockSet
  <2> HIDE DEF o
  <2>5. /\ Delta!DiffBytes(out.ctrl) = Len(out.diff) /\ Delta!ExtraBytes(out.ctrl) = Len(out.extra)
        /\ y = (0 + Len(out.diff)) + Len(out.extra)
    BY <2>2, TuplesSum
  <2>6. /\ Delta!DiffBytes(o.ctrl) = Len(o.diff) /\ Delta!ExtraBytes(o.ctrl) = Len(o.extra)
        /\ Len(b) = (y + Len(o.diff)) + Len(o.extra)
    BY <2>2, TuplesSum
  <2>7. PICK p \in Nat, q \in Nat, u \in Nat, v \in Nat :
          p = Len(diff) /\ q = Len(extra) /\ u = Len(out.diff) /\ v = Len(out.extra)
    BY <2>4, LenProperties
  <2>8. p + q + u + v = ((0 + u + v) + p) + q
    OBVIOUS
  <2> QED BY <2>3, <2>5, <2>6, <2>7, <2>8
<1>2. RollingInv /\ ChunkInv /\ DeltaInv /\ [Next]_vars => RollingInv' /\ ChunkInv' /\ DeltaInv'
  BY RollingInvNext, ChunkInvNext, DeltaInvNext
<1>3. Init => RollingInv /\ ChunkInv /\ DeltaInv
  BY RollingInvInit, ChunkInvInit, DeltaInvInit
<1> QED BY <1>1, <1>2, <1>3, PTL DEF Spec

===============================================================================
