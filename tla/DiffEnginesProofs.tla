--------------------------- MODULE DiffEnginesProofs ----------------------------
(***************************************************************************)
(* Matchers of lines, for every two texts.  The one a store falls back to, *)
(* Myers' own, the bisecting one and difflib's: what they say is true, in  *)
(* order, says something, and accounts for both; of the second and third   *)
(* it is as few edits as there can be.  No place that the second reaches   *)
(* is behind the first line, for all texts but one kind; and what the      *)
(* third has left to do tiles what is left of both.                        *)
(***************************************************************************)
EXTENDS DiffEngines, OpcodesProofs

-------------------------------------------------------------------------------
(* The matcher a store falls back to. *)

\* Where the walk stands, and that all it has said leads there.
GreedyInv ==
  engine = "greedy" =>
    /\ a \in Seq(Entries) /\ b \in Seq(Entries)
    /\ i \in 0..Len(a) /\ j \in 0..Len(b)
    /\ pc \in {"scan", "done"}
    /\ NoneEmpty(ops)
    /\ IF pc = "scan" THEN SaidUpTo(ops, a, b, i, j)
                      ELSE SaidUpTo(ops, a, b, Len(a), Len(b))

\* It begins there with nothing said and nothing compared.
LEMMA GreedyInvInit == Init => GreedyInv
<1> SUFFICES ASSUME Init, engine = "greedy" PROVE GreedyInv
  BY DEF GreedyInv
<1>1. engine \in TextEngines
  BY DEF TextEngines
<1>2. a \in Upto(MaxText) /\ b \in Upto(MaxText) /\ Greedy!Start
  BY <1>1 DEF Init
<1>3. a \in Seq(Entries) /\ b \in Seq(Entries)
  <2>1. \A m \in 0..MaxText : [1..m -> Entries] \subseteq Seq(Entries)
    OBVIOUS
  <2> QED BY <1>2, <2>1 DEF Upto
<1>4. i = 0 /\ j = 0 /\ ops = <<>> /\ pc = "scan"
  BY <1>2 DEF Greedy!Start
<1>5. i \in 0..Len(a) /\ j \in 0..Len(b)
  BY <1>3, <1>4
<1> QED BY <1>3, <1>4, <1>5, NothingSaid DEF GreedyInv

\* The matcher speaks of the same opcodes as the composition.
LEMMA SameWords ==
  /\ \A p, q, r, s : Greedy!Change(p, q, r, s) = Change(p, q, r, s)
  /\ \A p, q, r, s, t : Greedy!Opcode(p, q, r, s, t) = Opcode(p, q, r, s, t)
  /\ \A p, q, r, s, t : Greedy!MatchesExactly(p, q, r, s, t) => Matches(p, q, r, s, t)
<1>1. \A p, q, r, s, t : Greedy!Opcode(p, q, r, s, t) = Opcode(p, q, r, s, t)
  BY DEF Greedy!Opcode, Opcode
<1>2. \A p, q, r, s : Greedy!Change(p, q, r, s) = Change(p, q, r, s)
  BY <1>1 DEF Greedy!Change, Change
<1>3. \A p, q, r, s, t : Greedy!MatchesExactly(p, q, r, s, t) => Matches(p, q, r, s, t)
  BY DEF Greedy!MatchesExactly, Greedy!Matches, Matches
<1> QED BY <1>1, <1>2, <1>3

\* Each step of the walk keeps it.
LEMMA GreedyStep ==
  ASSUME GreedyInv, engine = "greedy", Greedy!Next, engine' = engine
  PROVE  GreedyInv'
<1>1. /\ a \in Seq(Entries) /\ b \in Seq(Entries)
      /\ i \in Nat /\ i <= Len(a) /\ j \in Nat /\ j <= Len(b)
      /\ Len(a) \in Nat /\ Len(b) \in Nat
  BY DEF GreedyInv
<1>2. NoneEmpty(ops) /\ (pc = "scan" => SaidUpTo(ops, a, b, i, j))
  BY DEF GreedyInv
<1>3. CASE Greedy!Match
  <2>1. PICK x \in i..(Len(a) - 1), n \in 1..Len(b) :
          /\ Matches(a, b, x, j, n)
          /\ Greedy!MoveTo(x + n, j + n,
               Change(i, x, j, j) \o <<Opcode("equal", x, x + n, j, j + n)>>)
    BY <1>3, SameWords DEF Greedy!Match
  <2>2. x \in Nat /\ i <= x /\ n \in Nat \ {0} /\ pc = "scan"
    BY <1>1, <1>3 DEF Greedy!Match
  <2> DEFINE more == ops \o (Change(i, x, j, j) \o <<Opcode("equal", x, x + n, j, j + n)>>)
  <2>3. SaidUpTo(more, a, b, x + n, j + n) /\ NoneEmpty(more)
    BY <1>1, <1>2, <2>1, <2>2, SayMatch
  <2>4. ops' = more /\ i' = x + n /\ j' = j + n /\ a' = a /\ b' = b /\ pc' = pc
    BY <2>1 DEF Greedy!MoveTo
  <2>5. x + n \in 0..Len(a) /\ j + n \in 0..Len(b)
    BY <1>1, <2>2, <2>1 DEF Matches
  <2> HIDE DEF more
  <2> QED BY <1>1, <2>2, <2>3, <2>4, <2>5 DEF GreedyInv
<1>4. CASE Greedy!Synchronise
  <2>1. PICK y \in (j + 1)..(Len(b) - 1), x \in i..(Len(a) - 1) :
          Greedy!MoveTo(x, y, Change(i, x, j, y))
    BY <1>4, SameWords DEF Greedy!Synchronise
  <2>2. x \in i..Len(a) /\ y \in j..Len(b) /\ x \in 0..Len(a) /\ y \in 0..Len(b)
    BY <1>1
  <2>3. SaidUpTo(ops \o Change(i, x, j, y), a, b, x, y) /\ NoneEmpty(ops \o Change(i, x, j, y))
    BY <1>1, <1>2, <1>4, <2>2, SayChange DEF Greedy!Synchronise
  <2> QED BY <1>1, <1>4, <2>1, <2>2, <2>3 DEF GreedyInv, Greedy!Synchronise, Greedy!MoveTo
<1>5. CASE Greedy!GiveUp
  <2>1. Len(a) \in i..Len(a) /\ Len(b) \in j..Len(b)
        /\ Len(a) \in 0..Len(a) /\ Len(b) \in 0..Len(b)
    BY <1>1
  <2> DEFINE more == ops \o Change(i, Len(a), j, Len(b))
  <2>2. SaidUpTo(more, a, b, Len(a), Len(b)) /\ NoneEmpty(more)
    BY <1>1, <1>2, <1>5, <2>1, SayChange DEF Greedy!GiveUp
  <2> QED BY <1>1, <1>5, <2>1, <2>2, SameWords DEF GreedyInv, Greedy!GiveUp, Greedy!MoveTo
<1>6. CASE Greedy!Finish
  <2>1. Len(a) \in i..Len(a) /\ j \in j..Len(b) /\ j = Len(b) /\ pc = "scan"
    BY <1>1, <1>6 DEF Greedy!Finish
  <2> DEFINE more == ops \o Change(i, Len(a), j, j)
  <2>2. SaidUpTo(more, a, b, Len(a), j) /\ NoneEmpty(more)
    BY <1>1, <1>2, <2>1, SayChange
  <2> QED BY <1>1, <1>6, <2>1, <2>2, SameWords DEF GreedyInv, Greedy!Finish
<1> QED BY <1>3, <1>4, <1>5, <1>6 DEF Greedy!Next

\* No other engine runs once this one is chosen.
LEMMA GreedyInvNext == GreedyInv /\ [Next]_vars => GreedyInv'
<1> SUFFICES ASSUME GreedyInv, [Next]_vars PROVE GreedyInv'
  OBVIOUS
<1>1. engine' = engine
  BY DEF Next, vars, RunGreedy, RunMyers, RunDmp, RunSes, RunDifflib, RunChunk, RunRolling,
         WriteAndApply
<1>2. CASE engine # "greedy"
  BY <1>1, <1>2 DEF GreedyInv
<1>3. CASE engine = "greedy"
  <2>1. CASE RunGreedy
    BY <1>1, <1>3, <2>1, GreedyStep DEF RunGreedy
  <2>2. CASE UNCHANGED vars
    BY <2>2 DEF vars, GreedyInv
  <2> QED
    BY <1>3, <2>1, <2>2 DEF Next, RunMyers, RunDmp, RunSes, RunDifflib, RunChunk, RunRolling,
                            WriteAndApply, ByteEngines
<1> QED BY <1>2, <1>3

\* The fallback matcher is exact: what it says is so of both sequences, in order and
\* without a gap, and when it is done it has accounted for all of them.
THEOREM GreedyIsExact == Spec => []GreedyExact
<1>1. GreedyInv => GreedyExact
  BY DEF GreedyInv, GreedyExact, SaidUpTo, Covers
<1> QED BY <1>1, GreedyInvInit, GreedyInvNext, PTL DEF Spec

-------------------------------------------------------------------------------
(* The Myers engine. *)

\* The engine speaks of the same opcodes as the composition.
LEMMA MyersWords ==
  /\ \A p, q, r, s : Myers!Change(p, q, r, s) = Change(p, q, r, s)
  /\ \A p, q, r, s, t : Myers!Opcode(p, q, r, s, t) = Opcode(p, q, r, s, t)
  /\ \A p, q, r, s : Myers!Extent(p, q, r, s) = Extent(p, q, r, s)
<1>1. \A p, q, r, s, t : Myers!Opcode(p, q, r, s, t) = Opcode(p, q, r, s, t)
  BY DEF Myers!Opcode, Opcode
<1>2. \A p, q, r, s : Myers!Change(p, q, r, s) = Change(p, q, r, s)
  BY <1>1 DEF Myers!Change, Change
<1>3. \A p, q, r, s : Myers!Extent(p, q, r, s) = Extent(p, q, r, s)
  BY DEF Myers!Extent, Extent, Myers!Smaller, Smaller, Myers!MatchesExactly, MatchesExactly,
         Myers!Matches, Matches
<1> QED BY <1>1, <1>2, <1>3

\* One edit more, on the diagonal of c deletions: the place is reached by c of them, lies
\* beside the places it may come from, and its history leads to it.
LEMMA FurthestIs ==
  ASSUME Len(a) \in Nat, Len(b) \in Nat, d \in 1..Myers!MaxD, NEW c \in 0..d, k = 2 * c - d,
         Row(frontier, d - 1, a, b), MayGoOn(frontier, d - 1, d, a, b)
  PROVE  LET e == Myers!Furthest(k)
             y == e.x - k
         IN  /\ e.x \in Nat /\ y \in Nat /\ c <= e.x
             /\ e.x >= Len(a) /\ y >= Len(b) => e.x = Len(a) /\ y = Len(b)
             /\ LedTo(e.history, a, b, 0, 0, e.x, y)
             /\ Beside(frontier, d, c, e.x, a, b)
             /\ \E u \in Nat : /\ u - k \in Nat /\ Chosen(frontier, d, c, u)
                              /\ e.x = u + Extent(a, b, u, u - k)
             /\ \/ c < d /\ e.history = Append(frontier[k + 1].history, "i")
                \/ c > 0 /\ e.history = Append(frontier[k - 1].history, "d")
<1> DEFINE L == frontier[k - 1]
           G == frontier[k + 1]
           down == k = -d \/ (k # d /\ Myers!Below(k).x < G.x)
           u == IF down THEN G.x ELSE Myers!Below(k).x + 1
           h == IF down THEN Append(G.history, "i") ELSE Append(Myers!Below(k).history, "d")
           l == Extent(a, b, u, u - k)
           x == u + l
<1>0. Myers!MaxD = Len(a) + Len(b) /\ d \in Nat \ {0} /\ k \in Int
  BY DEF Myers!MaxD
<1>1. Myers!Furthest(k) = [x |-> x, history |-> h]
  BY MyersWords DEF Myers!Furthest
<1>2. c > 0 => Myers!Below(k) = L
  <2>1. c > 0 => ~(k - 1 < -Myers!MaxD)
    BY <1>0
  <2> QED BY <2>1 DEF Myers!Below
<1>3. /\ c > 0 => 2 * (c - 1) - (d - 1) = k - 1 /\ c - 1 \in 0..(d - 1)
      /\ c < d => 2 * c - (d - 1) = k + 1 /\ c \in 0..(d - 1)
      /\ k = -d <=> c = 0
      /\ k = d <=> c = d
      /\ 2 * c - d - 1 = k - 1 /\ 2 * c - d + 1 = k + 1
  BY <1>0
<1>4. c > 0 => L.x \in Nat /\ LedTo(L.history, a, b, 0, 0, L.x, L.x - (k - 1))
  <2> SUFFICES ASSUME c > 0
               PROVE  L.x \in Nat /\ LedTo(L.history, a, b, 0, 0, L.x, L.x - (k - 1))
    OBVIOUS
  <2>1. Reached(frontier, d - 1, c - 1, a, b)
    BY <1>3 DEF Row
  <2>2. c - 1 \in 0..(d - 1) /\ 2 * (c - 1) - (d - 1) = k - 1
    BY <1>3
  <2>3. LedTo(frontier[2 * (c - 1) - (d - 1)].history, a, b, 0, 0,
              frontier[2 * (c - 1) - (d - 1)].x,
              frontier[2 * (c - 1) - (d - 1)].x - (2 * (c - 1) - (d - 1)))
    BY <2>2 DEF MayGoOn
  <2> QED BY <2>1, <2>2, <2>3 DEF Reached
<1>5. c < d => G.x \in Nat /\ LedTo(G.history, a, b, 0, 0, G.x, G.x - (k + 1))
  <2> SUFFICES ASSUME c < d
               PROVE  G.x \in Nat /\ LedTo(G.history, a, b, 0, 0, G.x, G.x - (k + 1))
    OBVIOUS
  <2>1. Reached(frontier, d - 1, c, a, b)
    BY <1>3 DEF Row
  <2>2. c \in 0..(d - 1) /\ 2 * c - (d - 1) = k + 1
    BY <1>3
  <2>3. LedTo(frontier[2 * c - (d - 1)].history, a, b, 0, 0, frontier[2 * c - (d - 1)].x,
              frontier[2 * c - (d - 1)].x - (2 * c - (d - 1)))
    BY <2>2 DEF MayGoOn
  <2> QED BY <2>1, <2>2, <2>3 DEF Reached
<1>6. \/ (c = 0 \/ (c < d /\ L.x < G.x)) /\ down /\ u = G.x /\ c < d
      \/ c > 0 /\ (c < d => G.x <= L.x) /\ ~down /\ u = L.x + 1
  <2>1. CASE c = 0
    <3>1. down /\ c < d
      BY <1>0, <1>3, <2>1
    <3> QED BY <2>1, <3>1
  <2>2. CASE c = d /\ c > 0
    <3>1. ~down
      BY <1>3, <2>2
    <3> QED BY <1>2, <2>2, <3>1
  <2>3. CASE c # 0 /\ c # d
    <3>1. c > 0 /\ c < d /\ Myers!Below(k) = L /\ k # -d /\ k # d
      BY <1>2, <1>3, <2>3
    <3>2. down <=> L.x < G.x
      BY <3>1
    <3>3. (down => u = G.x) /\ (~down => u = L.x + 1)
      BY <3>1
    <3> HIDE DEF down, u
    <3>4. L.x \in Nat /\ G.x \in Nat
      BY <1>4, <1>5, <3>1
    <3>5. CASE down
      BY <3>1, <3>2, <3>3, <3>5
    <3>6. CASE ~down
      <4>1. G.x <= L.x
        BY <3>2, <3>4, <3>6
      <4> QED BY <3>1, <3>3, <3>6, <4>1
    <3> QED BY <3>5, <3>6
  <2> QED BY <1>0, <2>1, <2>2, <2>3
<1>7. Chosen(frontier, d, c, u)
  BY <1>3, <1>6 DEF Chosen
<1> HIDE DEF u
<1>8. Short(frontier, d - 1, d, a, b)
  BY DEF MayGoOn
<1>9. /\ u \in Nat /\ u - k \in Nat /\ l \in Nat
      /\ x \in Nat /\ x - k \in Nat /\ c <= x
      /\ x >= Len(a) /\ x - k >= Len(b) => x = Len(a) /\ x - k = Len(b)
      /\ Beside(frontier, d, c, x, a, b)
  BY <1>0, <1>7, <1>8, OneFurther
<1> HIDE DEF l
<1>10. LedTo(h, a, b, 0, 0, x, x - k)
  <2>0. x - k = (u - k) + l
    BY <1>0, <1>9
  <2>1. CASE down /\ u = G.x /\ c < d
    <3>1. /\ G.x = u /\ u - (k + 1) \in Nat
          /\ LedTo(G.history, a, b, 0, 0, u, u - (k + 1))
      <4>1. G.x = u /\ LedTo(G.history, a, b, 0, 0, u, u - (k + 1))
        BY <1>5, <2>1
      <4>2. c <= u
        <5>1. Reached(frontier, d - 1, c, a, b)
          BY <1>3, <2>1 DEF Row
        <5> QED BY <1>3, <2>1, <5>1 DEF Reached
      <4>3. u - (k + 1) \in Nat
        <5>1. c < d
          BY <2>1
        <5> QED BY <1>0, <1>9, <4>2, <5>1
      <4> QED BY <4>1, <4>3
    <3>2. LET p == u + InFirst("i")
              q == (u - (k + 1)) + InSecond("i")
          IN LedTo(Append(G.history, "i"), a, b, 0, 0, p + Extent(a, b, p, q), q + Extent(a, b, p, q))
      BY <1>9, <3>1, LedFurther DEF Edits
    <3>3. u + InFirst("i") = u /\ (u - (k + 1)) + InSecond("i") = u - k
      BY <1>0, <1>9 DEF InFirst, InSecond
    <3> QED BY <2>0, <2>1, <3>2, <3>3 DEF l
  <2>2. CASE ~down /\ u = L.x + 1 /\ c > 0
    <3>1. /\ L.x = u - 1 /\ u - 1 \in Nat
          /\ LedTo(L.history, a, b, 0, 0, u - 1, u - k)
      <4>1. L.x = u - 1 /\ L.x \in Nat
        <5>1. PICK z \in Nat : z = L.x
          BY <1>4, <2>2
        <5>2. u = z + 1
          BY <2>2, <5>1
        <5> QED BY <5>1, <5>2
      <4>2. (u - 1) - (k - 1) = u - k
        BY <1>0, <1>9
      <4> QED BY <1>4, <1>9, <2>2, <4>1, <4>2
    <3>2. LET p == (u - 1) + InFirst("d")
              q == (u - k) + InSecond("d")
          IN LedTo(Append(L.history, "d"), a, b, 0, 0, p + Extent(a, b, p, q), q + Extent(a, b, p, q))
      BY <1>9, <3>1, LedFurther DEF Edits
    <3>3. (u - 1) + InFirst("d") = u /\ (u - k) + InSecond("d") = u - k
      BY <1>0, <1>9 DEF InFirst, InSecond
    <3> QED BY <1>2, <2>0, <2>2, <3>2, <3>3 DEF l
  <2> QED BY <1>6, <2>1, <2>2
<1>11. \/ c < d /\ h = Append(G.history, "i")
       \/ c > 0 /\ h = Append(L.history, "d")
  BY <1>2, <1>6
<1> HIDE DEF h
<1>12. \E z \in Nat : /\ z - k \in Nat /\ Chosen(frontier, d, c, z)
                      /\ x = z + Extent(a, b, z, z - k)
  BY <1>7, <1>9 DEF l
<1>13. Myers!Furthest(k).x = x /\ Myers!Furthest(k).history = h
  BY <1>1
<1> HIDE DEF x
<1> QED BY <1>9, <1>10, <1>11, <1>12, <1>13

\* Where a search stands: the row that is being made, and that nothing has been replayed.
Searching ==
  /\ i = 0 /\ j = 0 /\ history = <<>>
  /\ \/ d = 0
     \/ /\ d \in 1..Myers!MaxD
        /\ \E c \in 0..d : /\ k = 2 * c - d
                           /\ Row(frontier, d - 1, a, b) /\ MayGoOn(frontier, d - 1, d, a, b)
                           /\ RowSoFar(frontier, d, c, a, b) /\ MayGoOn(frontier, d, c, a, b)

\* A search ends with edits that lead to the end of both sequences; what remains of them
\* leads there from where the replay stands, and what has been said leads to where the
\* change it has not said yet begins.
MyersInv ==
  engine = "myers" =>
    /\ a \in Seq(Entries) /\ b \in Seq(Entries)
    /\ frontier \in [(-Myers!MaxD)..Myers!MaxD -> [x : Int, history : Seq(Edits)]]
    /\ i \in Nat /\ j \in Nat /\ from \in Nat \X Nat /\ from[1] <= i /\ from[2] <= j
    /\ pc \in {"search", "replay", "flush", "done", "raised"}
    /\ NoneEmpty(ops)
    /\ pc # "done" => SaidUpTo(ops, a, b, from[1], from[2])
    /\ pc = "search" => Searching
    /\ pc = "replay" => LedTo(history, a, b, i, j, Len(a), Len(b))
    /\ pc = "flush" => i = Len(a) /\ j = Len(b)
    /\ pc = "done" => SaidUpTo(ops, a, b, Len(a), Len(b))
    /\ pc = "raised" => b = <<>> /\ a # <<>>

\* Before its first place a row says nothing.
LEMMA NoPlaces ==
  ASSUME NEW F, NEW r, NEW s, NEW t
  PROVE  RowSoFar(F, r, 0, s, t) /\ Short(F, r, 0, s, t) /\ MayGoOn(F, r, 0, s, t)
<1>1. 0..(0 - 1) = {}
  OBVIOUS
<1> QED BY <1>1 DEF RowSoFar, Short, MayGoOn

\* It begins with nothing found and nothing said.
LEMMA MyersInvInit == Init => MyersInv
<1> SUFFICES ASSUME Init, engine = "myers" PROVE MyersInv
  BY DEF MyersInv
<1>1. engine \in TextEngines
  BY DEF TextEngines
<1>2. a \in Upto(MaxText) /\ b \in Upto(MaxText) /\ Myers!Start
  BY <1>1 DEF Init
<1>3. a \in Seq(Entries) /\ b \in Seq(Entries)
  <2>1. \A m \in 0..MaxText : [1..m -> Entries] \subseteq Seq(Entries)
    OBVIOUS
  <2> QED BY <1>2, <2>1 DEF Upto
<1>4. /\ d = 0 /\ history = <<>> /\ i = 0 /\ j = 0 /\ from = <<0, 0>> /\ ops = <<>>
      /\ pc = "search" /\ frontier = [m \in (-Myers!MaxD)..Myers!MaxD |-> Myers!Unreached]
  BY <1>2 DEF Myers!Start
<1>5. frontier \in [(-Myers!MaxD)..Myers!MaxD -> [x : Int, history : Seq(Edits)]]
  <2>1. Myers!Unreached \in [x : Int, history : Seq(Edits)]
    BY DEF Myers!Unreached
  <2> QED BY <1>4, <2>1
<1>6. from \in Nat \X Nat /\ from[1] = 0 /\ from[2] = 0
  BY <1>4
<1>7. Searching
  BY <1>4 DEF Searching
<1> QED BY <1>3, <1>4, <1>5, <1>6, <1>7, NothingSaid DEF MyersInv

\* The first run of equals makes the first row, of one place, or is all there is.
LEMMA MyersFirst ==
  ASSUME MyersInv, engine = "myers", Myers!FirstSnake, engine' = engine
  PROVE  MyersInv'
<1> DEFINE x == Extent(a, b, 0, 0)
<1>1. /\ a \in Seq(Entries) /\ b \in Seq(Entries) /\ Len(a) \in Nat /\ Len(b) \in Nat
      /\ pc = "search" /\ d = 0 /\ i = 0 /\ j = 0 /\ history = <<>>
      /\ frontier \in [(-Myers!MaxD)..Myers!MaxD -> [x : Int, history : Seq(Edits)]]
      /\ Myers!MaxD = Len(a) + Len(b)
  BY DEF MyersInv, Searching, Myers!FirstSnake, Myers!MaxD
<1>2. /\ frontier' = [frontier EXCEPT ![0] = [x |-> x, history |-> <<>>]]
      /\ pc' = IF Myers!AtEnd(x, x) THEN "replay" ELSE "search"
      /\ d' = 1 /\ k' = -1
      /\ UNCHANGED <<a, b, history, i, j, from, ops>>
  BY MyersWords DEF Myers!FirstSnake, Myers!replay
<1>3. x \in Nat /\ x <= Len(a) /\ x <= Len(b)
  <2>1. /\ x \in Nat
        /\ x # 0 => 0 + x <= Len(a) /\ 0 + x <= Len(b)
    BY <1>1, ExtentAnywhere DEF Matches
  <2> HIDE DEF x
  <2> QED BY <1>1, <2>1
<1>4. LedTo(<<>>, a, b, 0, 0, x, x)
  <2>1. LedTo(<<>>, a, b, 0, 0, 0 + x, 0 + x)
    BY <1>1, LedNowhere
  <2> QED BY <1>3, <2>1
<1> HIDE DEF x
<1>5. 0 \in (-Myers!MaxD)..Myers!MaxD /\ Myers!MaxD' = Myers!MaxD
  BY <1>1, <1>2 DEF Myers!MaxD
<1>6. /\ frontier'[0] = [x |-> x, history |-> <<>>]
      /\ frontier' \in [(-Myers!MaxD)..Myers!MaxD -> [x : Int, history : Seq(Edits)]]
  <2>1. [x |-> x, history |-> <<>>] \in [x : Int, history : Seq(Edits)]
    BY <1>3
  <2> QED BY <1>1, <1>2, <1>5, <2>1
<1>7. CASE Myers!AtEnd(x, x)
  <2>1. x = Len(a) /\ x = Len(b) /\ pc' = "replay"
    BY <1>1, <1>2, <1>3, <1>7 DEF Myers!AtEnd
  <2>2. LedTo(history, a, b, i, j, Len(a), Len(b))
    BY <1>1, <1>4, <2>1
  <2> QED BY <1>1, <1>2, <1>5, <1>6, <2>1, <2>2 DEF MyersInv
<1>8. CASE ~Myers!AtEnd(x, x)
  <2>1. pc' = "search" /\ (x < Len(a) \/ x < Len(b))
    BY <1>1, <1>2, <1>3, <1>8 DEF Myers!AtEnd
  <2>2. 1 \in 1..Myers!MaxD /\ 0 \in 0..1 /\ 2 * 0 - 1 = -1 /\ 1 - 1 = 0
    <3>1. Len(a) + Len(b) >= 1
      BY <1>1, <1>3, <2>1
    <3> QED BY <1>1, <3>1
  <2>3. Row(frontier', 0, a, b) /\ MayGoOn(frontier', 0, 1, a, b)
    <3> SUFFICES ASSUME NEW c \in 0..0
                 PROVE  /\ Reached(frontier', 0, c, a, b)
                        /\ ~(Len(a) < frontier'[2 * c - 0].x)
                        /\ ~(Len(b) < frontier'[2 * c - 0].x - (2 * c - 0))
                        /\ frontier'[2 * c - 0].x < Len(a)
                           \/ frontier'[2 * c - 0].x - (2 * c - 0) < Len(b)
                        /\ LedTo(frontier'[2 * c - 0].history, a, b, 0, 0,
                                 frontier'[2 * c - 0].x, frontier'[2 * c - 0].x - (2 * c - 0))
      BY DEF Row, MayGoOn, Short
    <3>1. c = 0 /\ 2 * c - 0 = 0
      OBVIOUS
    <3>2. frontier'[2 * c - 0].x = x /\ frontier'[2 * c - 0].history = <<>>
      BY <1>6, <3>1
    <3>3. x - 0 = x /\ 0 <= x
      BY <1>3
    <3>4. Reached(frontier', 0, c, a, b)
      BY <1>1, <1>3, <3>1, <3>2, <3>3 DEF Reached
    <3>5. ~(Len(a) < x) /\ ~(Len(b) < x)
      BY <1>1, <1>3
    <3> QED BY <1>4, <2>1, <3>1, <3>2, <3>3, <3>4, <3>5
  <2>4. RowSoFar(frontier', 1, 0, a, b) /\ MayGoOn(frontier', 1, 0, a, b)
    BY NoPlaces
  <2>5. Searching'
    BY <1>1, <1>2, <1>5, <2>2, <2>3, <2>4 DEF Searching
  <2> QED BY <1>1, <1>2, <1>5, <1>6, <2>1, <2>5 DEF MyersInv
<1> QED BY <1>7, <1>8

\* One place more, in the row or in the next one, unless it is the end of both.
LEMMA MyersAdvance ==
  ASSUME MyersInv, engine = "myers", Myers!Advance, engine' = engine
  PROVE  MyersInv'
<1> DEFINE e == Myers!Furthest(k)
<1>1. /\ a \in Seq(Entries) /\ b \in Seq(Entries) /\ Len(a) \in Nat /\ Len(b) \in Nat
      /\ pc = "search" /\ i = 0 /\ j = 0 /\ history = <<>>
      /\ frontier \in [(-Myers!MaxD)..Myers!MaxD -> [x : Int, history : Seq(Edits)]]
      /\ Myers!MaxD \in Nat
  BY DEF MyersInv, Searching, Myers!Advance, Myers!MaxD
<1>2. d \in 1..Myers!MaxD /\ ~Myers!OutOfRange(k)
  BY DEF Myers!Advance
<1>3. PICK c \in 0..d : /\ k = 2 * c - d
                        /\ Row(frontier, d - 1, a, b) /\ MayGoOn(frontier, d - 1, d, a, b)
                        /\ RowSoFar(frontier, d, c, a, b) /\ MayGoOn(frontier, d, c, a, b)
  <2>1. d # 0 /\ Searching
    BY <1>1, <1>2 DEF MyersInv
  <2> QED BY <2>1 DEF Searching
<1>4. /\ frontier' = [frontier EXCEPT ![k] = e]
      /\ IF Myers!AtEnd(e.x, e.x - k) THEN history' = e.history /\ pc' = "replay"
                                      ELSE UNCHANGED <<history, pc>>
      /\ IF k = d THEN d' = d + 1 /\ k' = -(d + 1) ELSE k' = k + 2 /\ d' = d
      /\ UNCHANGED <<a, b, i, j, from, ops>>
  BY DEF Myers!Advance
<1>5. /\ e.x \in Nat /\ e.x - k \in Nat /\ c <= e.x
      /\ e.x >= Len(a) /\ e.x - k >= Len(b) => e.x = Len(a) /\ e.x - k = Len(b)
      /\ LedTo(e.history, a, b, 0, 0, e.x, e.x - k)
      /\ Beside(frontier, d, c, e.x, a, b)
  BY <1>1, <1>2, <1>3, FurthestIs
<1>6. Myers!MaxD' = Myers!MaxD /\ k \in (-Myers!MaxD)..Myers!MaxD
  BY <1>1, <1>2, <1>3, <1>4 DEF Myers!MaxD
<1>7. e \in [x : Int, history : Seq(Edits)]
  <2>1. PICK z, h : e = [x |-> z, history |-> h]
    BY DEF Myers!Furthest
  <2>2. z \in Int /\ h \in Seq(Edits)
    BY <1>5, <2>1 DEF LedTo
  <2> QED BY <2>1, <2>2
<1> HIDE DEF e
<1>8. /\ frontier'[k] = e
      /\ frontier' \in [(-Myers!MaxD)..Myers!MaxD -> [x : Int, history : Seq(Edits)]]
  BY <1>1, <1>4, <1>6, <1>7
<1>9. CASE Myers!AtEnd(e.x, e.x - k)
  <2>1. e.x = Len(a) /\ e.x - k = Len(b) /\ pc' = "replay" /\ history' = e.history
    BY <1>4, <1>5, <1>9 DEF Myers!AtEnd
  <2>2. LedTo(history', a, b, i, j, Len(a), Len(b))
    BY <1>1, <1>5, <2>1
  <2> QED BY <1>1, <1>4, <1>6, <1>8, <2>1, <2>2 DEF MyersInv
<1>10. CASE ~Myers!AtEnd(e.x, e.x - k)
  <2>1. pc' = "search" /\ history' = <<>> /\ (e.x < Len(a) \/ e.x - k < Len(b))
    BY <1>1, <1>4, <1>5, <1>10 DEF Myers!AtEnd
  <2>2. Reached(frontier', d, c, a, b)
    BY <1>3, <1>5, <1>8 DEF Reached
  <2>3. /\ d \in Nat \ {0} /\ c \in 0..d
        /\ \A m \in 0..d : 2 * m - d \in (-Myers!MaxD)..Myers!MaxD
        /\ \A m \in 0..(d - 1) : 2 * m - (d - 1) \in (-Myers!MaxD)..Myers!MaxD
    BY <1>1, <1>2, <1>3, SMTT(30)
  <2>4. frontier' = [frontier EXCEPT ![2 * c - d] = e]
    BY <1>3, <1>4
  <2>5. Row(frontier', d - 1, a, b) /\ RowSoFar(frontier', d, c + 1, a, b)
    BY <1>1, <1>3, <1>5, <2>2, <2>3, <2>4, RowGrows
  <2>6. MayGoOn(frontier', d - 1, d, a, b)
    <3>1. \A m \in 0..(d - 1) : frontier'[2 * m - (d - 1)] = frontier[2 * m - (d - 1)]
      BY <1>1, <2>3, <2>4, PlacesStay
    <3> QED BY <1>3, <3>1 DEF MayGoOn, Short
  <2>7. MayGoOn(frontier', d, c + 1, a, b)
    <3> SUFFICES ASSUME NEW m \in 0..((c + 1) - 1)
                 PROVE  LET f == frontier'[2 * m - d] IN
                        /\ f.x < Len(a) \/ f.x - (2 * m - d) < Len(b)
                        /\ LedTo(f.history, a, b, 0, 0, f.x, f.x - (2 * m - d))
      BY DEF MayGoOn, Short
    <3>1. CASE m = c
      BY <1>3, <1>5, <1>8, <2>1, <3>1
    <3>2. CASE m # c
      <4>1. m \in 0..(c - 1)
        BY <3>2
      <4>2. frontier'[2 * m - d] = frontier[2 * m - d]
        BY <1>1, <2>3, <2>4, <4>1, PlacesStay
      <4> QED BY <1>3, <4>1, <4>2 DEF MayGoOn, Short
    <3> QED BY <3>1, <3>2
  <2>8. Searching'
    <3>1. CASE k = d
      <4>1. c = d /\ d' = d + 1 /\ k' = -(d + 1) /\ d \in Nat \ {0}
        BY <1>1, <1>2, <1>3, <1>4, <3>1
      <4>2. Row(frontier', d, a, b) /\ MayGoOn(frontier', d, d + 1, a, b)
        BY <1>1, <2>5, <2>7, <4>1, RowEnds
      <4>3. RowSoFar(frontier', d + 1, 0, a, b) /\ MayGoOn(frontier', d + 1, 0, a, b)
        BY NoPlaces
      <4>4. /\ d + 1 \in 1..Myers!MaxD /\ 0 \in 0..(d + 1) /\ 2 * 0 - (d + 1) = -(d + 1)
            /\ (d + 1) - 1 = d
        BY <1>1, <1>2, <3>1, <4>1 DEF Myers!OutOfRange
      <4> QED BY <1>1, <1>4, <1>6, <2>1, <4>1, <4>2, <4>3, <4>4 DEF Searching
    <3>2. CASE k # d
      <4>1. d' = d /\ k' = k + 2
        BY <1>4, <3>2
      <4>2. c + 1 \in 0..d /\ k + 2 = 2 * (c + 1) - d
        BY <1>1, <1>2, <1>3, <3>2
      <4> QED BY <1>1, <1>2, <1>4, <1>6, <2>1, <2>5, <2>6, <2>7, <4>1, <4>2 DEF Searching
    <3> QED BY <3>1, <3>2
  <2> QED BY <1>1, <1>4, <1>6, <1>8, <2>1, <2>8 DEF MyersInv
<1> QED BY <1>9, <1>10

\* The frontier is too short only for a search that has to delete all of a.
LEMMA MyersOverrun ==
  ASSUME MyersInv, engine = "myers", Myers!Overrun, engine' = engine
  PROVE  MyersInv'
<1>1. /\ a \in Seq(Entries) /\ b \in Seq(Entries) /\ Len(a) \in Nat /\ Len(b) \in Nat
      /\ pc = "search" /\ Myers!MaxD = Len(a) + Len(b)
  BY DEF MyersInv, Myers!Overrun, Myers!MaxD
<1>2. d \in 1..Myers!MaxD /\ k + 1 > Myers!MaxD
  BY DEF Myers!Overrun, Myers!OutOfRange
<1>3. PICK c \in 0..d : /\ k = 2 * c - d
                        /\ RowSoFar(frontier, d, c, a, b) /\ Short(frontier, d, c, a, b)
  <2>1. d # 0 /\ Searching
    BY <1>1, <1>2 DEF MyersInv
  <2> QED BY <2>1 DEF Searching, MayGoOn
<1>4. d = Myers!MaxD /\ c = d /\ d >= 1
  BY <1>1, <1>2, <1>3
<1>5. Len(b) = 0
  <2> SUFFICES ASSUME Len(b) # 0 PROVE FALSE
    OBVIOUS
  <2>1. Len(a) \in 0..(c - 1)
    BY <1>1, <1>4
  <2>2. Reached(frontier, d, Len(a), a, b)
    BY <1>3, <2>1 DEF RowSoFar
  <2>3. PICK x \in Nat : x = frontier[2 * Len(a) - d].x
    BY <2>2 DEF Reached
  <2>4. Len(a) <= x /\ (x < Len(a) \/ x - (2 * Len(a) - d) < Len(b))
    <3>1. Len(a) <= x
      BY <2>2, <2>3 DEF Reached
    <3> QED BY <1>3, <2>1, <2>3, <3>1 DEF Short
  <2>5. d = Len(a) + Len(b)
    BY <1>1, <1>4
  <2> QED BY <1>1, <2>4, <2>5
<1>6. b = <<>> /\ a # <<>>
  <2>1. b = <<>>
    BY <1>1, <1>5, EmptySeq
  <2>2. Len(a) # 0
    BY <1>1, <1>4, <1>5
  <2> QED BY <2>1, <2>2
<1>7. pc' = "raised" /\ UNCHANGED <<a, b, frontier, history, i, j, from, ops>>
  BY DEF Myers!Overrun, Myers!loops, Myers!replay
<1>8. Myers!MaxD' = Myers!MaxD
  BY <1>7 DEF Myers!MaxD
<1> QED BY <1>1, <1>6, <1>7, <1>8 DEF MyersInv

\* One turn of the replay: what it says is so, and the edits that remain lead on to the end.
LEMMA MyersReplay ==
  ASSUME MyersInv, engine = "myers", Myers!Replay, engine' = engine
  PROVE  MyersInv'
<1> DEFINE n == Extent(a, b, i, j)
           said == ops \o Change(from[1], i, from[2], j)
                       \o <<Opcode("equal", i, i + n, j, j + n)>>
<1>1. /\ a \in Seq(Entries) /\ b \in Seq(Entries) /\ Len(a) \in Nat /\ Len(b) \in Nat
      /\ pc = "replay" /\ i \in Nat /\ j \in Nat /\ NoneEmpty(ops)
      /\ from \in Nat \X Nat /\ from[1] <= i /\ from[2] <= j
      /\ frontier \in [(-Myers!MaxD)..Myers!MaxD -> [x : Int, history : Seq(Edits)]]
      /\ SaidUpTo(ops, a, b, from[1], from[2])
      /\ LedTo(history, a, b, i, j, Len(a), Len(b))
  BY DEF MyersInv, Myers!Replay
<1>2. /\ ops' = IF n = 0 THEN ops
                ELSE ops \o Change(from[1], i, from[2], j)
                         \o <<Opcode("equal", i, i + n, j, j + n)>>
      /\ from' = IF n = 0 THEN from ELSE <<i + n, j + n>>
      /\ IF Myers!AtEnd(i + n, j + n) \/ history = <<>>
         THEN i' = i + n /\ j' = j + n /\ pc' = "flush" /\ UNCHANGED history
         ELSE /\ i' = i + n + InFirst(Head(history)) /\ j' = j + n + InSecond(Head(history))
              /\ history' = Tail(history) /\ pc' = pc
      /\ UNCHANGED <<a, b, frontier>>
  BY MyersWords DEF Myers!Replay, Myers!loops, Myers!Pending, InFirst, InSecond
<1>3. /\ n \in Nat /\ i + n <= Len(a) /\ j + n <= Len(b)
      /\ history = <<>> => i + n = Len(a) /\ j + n = Len(b)
      /\ n # 0 => Matches(a, b, i, j, n)
  <2>1. Len(a) \in Nat /\ Len(b) \in Nat /\ i \in Nat /\ j \in Nat
    BY <1>1
  <2>2. LedTo(history, a, b, i, j, Len(a), Len(b))
    BY <1>1
  <2>3. n \in Nat /\ (n # 0 => Matches(a, b, i, j, n))
    BY <2>1, ExtentAnywhere
  <2>4. /\ i + n <= Len(a) /\ j + n <= Len(b)
        /\ history = <<>> => i + n = Len(a) /\ j + n = Len(b)
    BY <2>1, <2>2, LedForward
  <2> QED BY <2>3, <2>4
<1> HIDE DEF n
<1>4. Myers!MaxD' = Myers!MaxD
  BY <1>2 DEF Myers!MaxD
<1>5. /\ from' \in Nat \X Nat /\ NoneEmpty(ops')
      /\ from'[1] <= i + n /\ from'[2] <= j + n
      /\ SaidUpTo(ops', a, b, from'[1], from'[2])
  <2>1. CASE n = 0
    BY <1>1, <1>2, <1>3, <2>1
  <2>2. CASE n # 0
    <3>1. PICK x \in Nat, y \in Nat : x = from[1] /\ y = from[2]
      BY <1>1
    <3>2. i \in x..Len(a) /\ j \in y..Len(b)
      BY <1>1, <1>3, <3>1
    <3>3. SaidUpTo(ops \o Change(x, i, y, j), a, b, i, j) /\ NoneEmpty(ops \o Change(x, i, y, j))
      BY <1>1, <3>1, <3>2, SayChange
    <3>4. n \in Nat \ {0} /\ Matches(a, b, i, j, n)
      BY <1>3, <2>2
    <3>5. SaidUpTo(said, a, b, i + n, j + n) /\ NoneEmpty(said)
      BY <1>1, <3>1, <3>3, <3>4, SayEqual
    <3>6. ops' = said /\ from' = <<i + n, j + n>>
      BY <1>2, <2>2
    <3> HIDE DEF said
    <3> QED BY <1>1, <1>3, <3>5, <3>6
  <2> QED BY <2>1, <2>2
<1>6. CASE Myers!AtEnd(i + n, j + n) \/ history = <<>>
  <2>1. i' = i + n /\ j' = j + n /\ pc' = "flush"
    BY <1>2, <1>6
  <2>2. i + n = Len(a) /\ j + n = Len(b)
    BY <1>1, <1>3, <1>6 DEF Myers!AtEnd
  <2> QED BY <1>1, <1>2, <1>3, <1>4, <1>5, <2>1, <2>2 DEF MyersInv
<1>7. CASE ~(Myers!AtEnd(i + n, j + n) \/ history = <<>>)
  <2>1. /\ i' = i + n + InFirst(Head(history)) /\ j' = j + n + InSecond(Head(history))
        /\ history' = Tail(history) /\ pc' = "replay"
    BY <1>1, <1>2, <1>7
  <2>2. LedTo(Tail(history), a, b, i + n + InFirst(Head(history)),
              j + n + InSecond(Head(history)), Len(a), Len(b))
    BY <1>1, <1>7, LedRest DEF n
  <2>3. i' \in Nat /\ j' \in Nat /\ i + n <= i' /\ j + n <= j'
    BY <1>1, <1>3, <2>1 DEF InFirst, InSecond
  <2>4. from'[1] <= i' /\ from'[2] <= j'
    <3>1. PICK x \in Nat, y \in Nat : x = from'[1] /\ y = from'[2]
      BY <1>5
    <3> QED BY <1>1, <1>3, <1>5, <2>3, <3>1
  <2>5. LedTo(history', a, b, i', j', Len(a), Len(b))
    BY <2>1, <2>2
  <2> QED BY <1>1, <1>2, <1>4, <1>5, <2>1, <2>3, <2>4, <2>5 DEF MyersInv
<1> QED BY <1>6, <1>7

\* At the end the edits it has not said yet are said.
LEMMA MyersFlush ==
  ASSUME MyersInv, engine = "myers", Myers!Flush, engine' = engine
  PROVE  MyersInv'
<1>1. /\ a \in Seq(Entries) /\ b \in Seq(Entries) /\ Len(a) \in Nat /\ Len(b) \in Nat
      /\ i \in Nat /\ j \in Nat /\ NoneEmpty(ops)
      /\ from \in Nat \X Nat /\ from[1] <= i /\ from[2] <= j
      /\ frontier \in [(-Myers!MaxD)..Myers!MaxD -> [x : Int, history : Seq(Edits)]]
      /\ SaidUpTo(ops, a, b, from[1], from[2])
  BY DEF MyersInv, Myers!Flush
<1>2. i = Len(a) /\ j = Len(b)
  <2>1. CASE pc = "flush"
    BY <2>1 DEF MyersInv
  <2>2. CASE pc = "replay" /\ Myers!AtEnd(i, j)
    <3>1. LedTo(history, a, b, i, j, Len(a), Len(b)) /\ i >= Len(a) /\ j >= Len(b)
      BY <2>2 DEF MyersInv, Myers!AtEnd
    <3>2. PICK n \in Nat : i + n <= Len(a) /\ j + n <= Len(b)
      BY <1>1, <3>1, LedForward, ExtentAnywhere
    <3> QED BY <1>1, <3>1, <3>2
  <2> QED BY <2>1, <2>2 DEF Myers!Flush
<1>3. /\ ops' = ops \o Change(from[1], i, from[2], j) /\ pc' = "done"
      /\ UNCHANGED <<a, b, frontier, i, j, from>>
  BY MyersWords DEF Myers!Flush, Myers!loops, Myers!Pending
<1>4. Myers!MaxD' = Myers!MaxD
  BY <1>3 DEF Myers!MaxD
<1>5. SaidUpTo(ops', a, b, Len(a), Len(b)) /\ NoneEmpty(ops')
  <2>1. PICK x \in Nat, y \in Nat : x = from[1] /\ y = from[2]
    BY <1>1
  <2>2. i \in x..Len(a) /\ j \in y..Len(b)
    BY <1>1, <1>2, <2>1
  <2>3. /\ SaidUpTo(ops \o Change(x, i, y, j), a, b, i, j)
        /\ NoneEmpty(ops \o Change(x, i, y, j))
    BY <1>1, <2>1, <2>2, SayChange
  <2> QED BY <1>2, <1>3, <2>1, <2>3
<1> QED BY <1>1, <1>3, <1>4, <1>5 DEF MyersInv

\* No other engine runs once this one is chosen.
LEMMA MyersInvNext == MyersInv /\ [Next]_vars => MyersInv'
<1> SUFFICES ASSUME MyersInv, [Next]_vars, engine' = "myers" PROVE MyersInv'
  BY DEF MyersInv
<1>1. CASE RunMyers
  <2>1. engine = "myers" /\ Myers!Next /\ engine' = engine
    BY <1>1 DEF RunMyers
  <2> QED BY <2>1, MyersFirst, MyersAdvance, MyersOverrun, MyersReplay, MyersFlush
          DEF Myers!Next
<1>2. CASE UNCHANGED vars
  <2>1. UNCHANGED <<engine, a, b, i, j, ops, pc, d, k, frontier, history, from>>
    BY <1>2 DEF vars, myersVars
  <2> QED BY <2>1 DEF MyersInv, Searching, Myers!MaxD
<1>3. CASE RunGreedy \/ RunDmp \/ RunSes \/ RunDifflib \/ RunChunk \/ RunRolling \/ WriteAndApply
  <2>1. engine' # "myers"
    BY <1>3 DEF RunGreedy, RunDmp, RunSes, RunDifflib, RunChunk, RunRolling, WriteAndApply,
                ByteEngines
  <2> QED BY <2>1
<1> QED BY <1>1, <1>2, <1>3 DEF Next

\* What the Myers engine says is so, in order and without a gap, at every step, and each
\* opcode says something: whatever way through the two texts its frontier has taken, even
\* beyond the end of one of them.
THEOREM MyersOpcodesLegal == Spec => [](engine = "myers" => OpcodesLegal)
<1>1. MyersInv => (engine = "myers" => OpcodesLegal)
  BY DEF MyersInv, OpcodesLegal, SaidUpTo
<1> QED BY <1>1, MyersInvInit, MyersInvNext, PTL DEF Spec

\* When it is done, it has accounted for every line of both.
THEOREM MyersOpcodesCover == Spec => [](engine = "myers" => OpcodesCover)
<1>1. MyersInv => (engine = "myers" => OpcodesCover)
  BY DEF MyersInv, OpcodesCover, Compared, TextEngines, SaidUpTo, Covers
<1> QED BY <1>1, MyersInvInit, MyersInvNext, PTL DEF Spec

\* Its search comes to an IndexError only when the second text is empty and the first is
\* not: for all others the "mathematically safe" of its comment is right.
THEOREM FrontierHolds == Spec => []FrontierInRange
<1>1. MyersInv => FrontierInRange
  BY DEF MyersInv, FrontierInRange
<1> QED BY <1>1, MyersInvInit, MyersInvNext, PTL DEF Spec

-------------------------------------------------------------------------------
(* The Myers engine says as few edits as there can be. *)

\* While it searches, the frontier is as far as its edits lead, and fewer have not led to
\* the end; then what has been said and what remains of the edits it has found are as many
\* as there must be.
MyersLeast ==
  engine = "myers" =>
    /\ pc = "search" =>
         /\ ops = <<>>
         /\ d # 0 => /\ d <= LeastEdits(a, b)
                     /\ \E c \in 0..d : /\ k = 2 * c - d
                                        /\ Furthermost(frontier, d - 1, d, a, b)
                                        /\ Furthermost(frontier, d, c, a, b)
    /\ pc = "replay" =>
         EditsOf(ops) + (i - from[1]) + (j - from[2]) + Len(history) = LeastEdits(a, b)
    /\ pc = "flush" => EditsOf(ops) + (i - from[1]) + (j - from[2]) = LeastEdits(a, b)
    /\ pc = "done" => EditsOf(ops) = LeastEdits(a, b)

\* It begins with nothing said.
LEMMA MyersLeastInit == Init => MyersLeast
<1> SUFFICES ASSUME Init, engine = "myers" PROVE MyersLeast
  BY DEF MyersLeast
<1>1. Myers!Start
  BY DEF Init
<1>2. d = 0 /\ ops = <<>> /\ pc = "search"
  BY <1>1 DEF Myers!Start
<1> QED BY <1>2 DEF MyersLeast

\* Where no edit is needed the first run is all there is; elsewhere it leads as far as no
\* edit does.
LEMMA MyersLeastFirst ==
  ASSUME MyersInv, MyersLeast, engine = "myers", Myers!FirstSnake, engine' = engine
  PROVE  MyersLeast'
<1> DEFINE x == Extent(a, b, 0, 0)
<1>1. /\ Len(a) \in Nat /\ Len(b) \in Nat
      /\ pc = "search" /\ d = 0 /\ i = 0 /\ j = 0 /\ history = <<>> /\ ops = <<>>
      /\ from \in Nat \X Nat /\ from[1] <= 0 /\ from[2] <= 0
      /\ frontier \in [(-Myers!MaxD)..Myers!MaxD -> [x : Int, history : Seq(Edits)]]
      /\ Myers!MaxD = Len(a) + Len(b)
  BY DEF MyersInv, MyersLeast, Searching, Myers!FirstSnake, Myers!MaxD
<1>2. /\ frontier' = [frontier EXCEPT ![0] = [x |-> x, history |-> <<>>]]
      /\ pc' = IF Myers!AtEnd(x, x) THEN "replay" ELSE "search"
      /\ d' = 1 /\ k' = -1
      /\ UNCHANGED <<a, b, history, i, j, from, ops>>
  BY MyersWords DEF Myers!FirstSnake, Myers!replay
<1>3. /\ x \in Nat /\ x <= Len(a) /\ x <= Len(b)
      /\ FrontAt(x, 0, 0, a, b)
  <2>1. /\ x \in Nat
        /\ x # 0 => 0 + x <= Len(a) /\ 0 + x <= Len(b)
    BY <1>1, ExtentAnywhere DEF Matches
  <2>2. FrontAt(x, 0, 0, a, b)
    BY <1>1, FrontFirst
  <2> HIDE DEF x
  <2> QED BY <1>1, <2>1, <2>2
<1> HIDE DEF x
<1>4. frontier'[0] = [x |-> x, history |-> <<>>]
  <2>1. 0 \in (-Myers!MaxD)..Myers!MaxD
    BY <1>1
  <2> QED BY <1>1, <1>2, <2>1
<1>5. PICK e \in Nat : e = LeastEdits(a, b) /\ e = Least(a, b, Len(a), Len(b))
  BY <1>1, LeastIsNumber
<1>6. CASE Myers!AtEnd(x, x)
  <2>1. x = Len(a) /\ x = Len(b) /\ pc' = "replay"
    BY <1>1, <1>2, <1>3, <1>6 DEF Myers!AtEnd
  <2>2. e <= 0
    <3>1. Len(a) \in 0..Len(a) /\ Len(b) \in 0..Len(b) /\ Len(a) - Len(b) = 0 /\ Len(a) <= x
      BY <1>1, <2>1
    <3> QED BY <1>3, <1>5, <3>1 DEF FrontAt
  <2>3. from[1] = 0 /\ from[2] = 0 /\ Len(history) = 0
    BY <1>1
  <2>4. EditsOf(ops) + (i - from[1]) + (j - from[2]) + Len(history) = LeastEdits(a, b)
    BY <1>1, <1>5, <2>2, <2>3, NoEdits
  <2> QED BY <1>2, <2>1, <2>4 DEF MyersLeast
<1>7. CASE ~Myers!AtEnd(x, x)
  <2>1. pc' = "search" /\ (x < Len(a) \/ x < Len(b))
    BY <1>1, <1>2, <1>3, <1>7 DEF Myers!AtEnd
  <2>2. Furthermost(frontier', 0, 1, a, b)
    <3> SUFFICES ASSUME NEW c \in 0..(1 - 1)
                 PROVE  /\ FrontAt(frontier'[2 * c - 0].x, 2 * c - 0, 0, a, b)
                        /\ Len(frontier'[2 * c - 0].history) = 0
      BY DEF Furthermost, Fronts
    <3>1. 2 * c - 0 = 0
      OBVIOUS
    <3> QED BY <1>3, <1>4, <3>1
  <2>3. Furthermost(frontier', 1, 0, a, b)
    <3>1. 0..(0 - 1) = {}
      OBVIOUS
    <3> QED BY <3>1 DEF Furthermost, Fronts
  <2>4. 1 <= e
    <3>1. CASE Len(a) = Len(b)
      <4>1. Len(a) \in 0..Len(a) /\ Len(b) \in 0..Len(b) /\ Len(a) - Len(b) = 0 /\ ~(Len(a) <= x)
        BY <1>1, <1>3, <2>1, <3>1
      <4>2. ~(e <= 0)
        BY <1>3, <1>5, <4>1 DEF FrontAt
      <4> QED BY <4>2
    <3>2. CASE Len(a) # Len(b)
      <4>1. Len(a) - Len(b) <= e /\ Len(b) - Len(a) <= e
        <5>1. Len(a) \in 0..Len(a) /\ Len(b) \in 0..Len(b)
          BY <1>1
        <5> QED BY <1>1, <1>5, <5>1, LeastOff
      <4> QED BY <1>1, <3>2, <4>1
    <3> QED BY <3>1, <3>2
  <2>5. 0 \in 0..1 /\ -1 = 2 * 0 - 1 /\ 1 - 1 = 0 /\ 1 # 0
    OBVIOUS
  <2> QED BY <1>1, <1>2, <1>5, <2>1, <2>2, <2>3, <2>4, <2>5 DEF MyersLeast
<1> QED BY <1>6, <1>7

\* One place more is as far as its edits lead.
LEMMA FurthestFront ==
  ASSUME Len(a) \in Nat, Len(b) \in Nat, d \in 1..Myers!MaxD, NEW c \in 0..d, k = 2 * c - d,
         Row(frontier, d - 1, a, b), MayGoOn(frontier, d - 1, d, a, b),
         Furthermost(frontier, d - 1, d, a, b)
  PROVE  LET e == Myers!Furthest(k) IN
         /\ e.x \in Nat /\ FrontAt(e.x, k, d, a, b) /\ Len(e.history) = d
         /\ e.x >= Len(a) /\ e.x - k >= Len(b) => e.x = Len(a) /\ e.x - k = Len(b)
<1>0. Myers!MaxD \in Nat /\ d \in Nat \ {0} /\ k \in Int
  BY DEF Myers!MaxD
<1>1. PICK e : e = Myers!Furthest(k)
  OBVIOUS
<1>2. /\ e.x \in Nat
      /\ e.x >= Len(a) /\ e.x - k >= Len(b) => e.x = Len(a) /\ e.x - k = Len(b)
      /\ \E u \in Nat : /\ u - k \in Nat /\ Chosen(frontier, d, c, u)
                        /\ e.x = u + Extent(a, b, u, u - k)
      /\ \/ c < d /\ e.history = Append(frontier[k + 1].history, "i")
         \/ c > 0 /\ e.history = Append(frontier[k - 1].history, "d")
  BY <1>1, FurthestIs
<1>3. PICK u \in Nat : /\ u - k \in Nat /\ Chosen(frontier, d, c, u)
                       /\ e.x = u + Extent(a, b, u, u - k)
  BY <1>2
<1>4. c > 0 => /\ c - 1 \in 0..(d - 1) /\ 2 * (c - 1) - (d - 1) = k - 1 /\ 2 * c - d - 1 = k - 1
  BY <1>0
<1>5. c < d => /\ c \in 0..(d - 1) /\ 2 * c - (d - 1) = k + 1 /\ 2 * c - d + 1 = k + 1
  BY <1>0
<1>6. c > 0 => /\ frontier[k - 1].x \in Int /\ Len(frontier[k - 1].history) = d - 1
               /\ frontier[k - 1].history \in Seq(Edits)
  <2> SUFFICES ASSUME c > 0
               PROVE  /\ frontier[k - 1].x \in Int /\ Len(frontier[k - 1].history) = d - 1
                      /\ frontier[k - 1].history \in Seq(Edits)
    OBVIOUS
  <2>1. Reached(frontier, d - 1, c - 1, a, b)
    BY <1>4 DEF Row
  <2>2. Len(frontier[2 * (c - 1) - (d - 1)].history) = d - 1
    BY <1>4 DEF Furthermost
  <2>3. frontier[2 * (c - 1) - (d - 1)].history \in Seq(Edits)
    BY <1>4 DEF MayGoOn, LedTo
  <2> QED BY <1>4, <2>1, <2>2, <2>3 DEF Reached
<1>7. c < d => /\ frontier[k + 1].x \in Int /\ Len(frontier[k + 1].history) = d - 1
               /\ frontier[k + 1].history \in Seq(Edits)
  <2> SUFFICES ASSUME c < d
               PROVE  /\ frontier[k + 1].x \in Int /\ Len(frontier[k + 1].history) = d - 1
                      /\ frontier[k + 1].history \in Seq(Edits)
    OBVIOUS
  <2>1. Reached(frontier, d - 1, c, a, b)
    BY <1>5 DEF Row
  <2>2. Len(frontier[2 * c - (d - 1)].history) = d - 1
    BY <1>5 DEF Furthermost
  <2>3. frontier[2 * c - (d - 1)].history \in Seq(Edits)
    BY <1>5 DEF MayGoOn, LedTo
  <2> QED BY <1>5, <2>1, <2>2, <2>3 DEF Reached
<1>8. FrontAt(e.x, k, d, a, b)
  <2>1. PICK r \in Nat \ {0} : r = d
    BY <1>0
  <2>2. /\ Fronts(frontier, r - 1, r, a, b) /\ c \in 0..r
        /\ c > 0 => frontier[2 * c - r - 1].x \in Int
        /\ c < r => frontier[2 * c - r + 1].x \in Int
        /\ u - (2 * c - r) \in Nat /\ Chosen(frontier, r, c, u)
    BY <1>3, <1>4, <1>5, <1>6, <1>7, <2>1 DEF Furthermost
  <2>3. FrontAt(u + Extent(a, b, u, u - (2 * c - r)), 2 * c - r, r, a, b)
    BY <2>2, FrontFurther
  <2> QED BY <1>3, <2>1, <2>3
<1>9. Len(e.history) = d
  <2>1. \A h \in Seq(Edits), w \in Edits : Len(Append(h, w)) = Len(h) + 1
    BY AppendProperties
  <2>2. "i" \in Edits /\ "d" \in Edits /\ (d - 1) + 1 = d
    BY <1>0 DEF Edits
  <2> QED BY <1>2, <1>6, <1>7, <2>1, <2>2
<1> QED BY <1>1, <1>2, <1>8, <1>9

\* A diagonal is that of one number of deletions.
LEMMA OneDiagonal ==
  ASSUME NEW r \in Int, NEW p \in Int, NEW q \in Int, 2 * p - r = 2 * q - r
  PROVE  q = p
OBVIOUS

\* One more place of the frontier; at the end of both sequences its edits are as few as
\* there can be, and where a row ends without one there must be more.
LEMMA MyersLeastAdvance ==
  ASSUME MyersInv, MyersInv', MyersLeast, engine = "myers", Myers!Advance, engine' = engine
  PROVE  MyersLeast'
<1> DEFINE e == Myers!Furthest(k)
<1>1. /\ Len(a) \in Nat /\ Len(b) \in Nat /\ pc = "search" /\ i = 0 /\ j = 0 /\ ops = <<>>
      /\ from \in Nat \X Nat /\ from[1] <= 0 /\ from[2] <= 0
      /\ frontier \in [(-Myers!MaxD)..Myers!MaxD -> [x : Int, history : Seq(Edits)]]
      /\ Myers!MaxD \in Nat /\ d \in 1..Myers!MaxD /\ Searching
  <2>1. pc = "search" /\ d \in 1..Myers!MaxD
    BY DEF Myers!Advance
  <2>2. /\ Len(a) \in Nat /\ Len(b) \in Nat /\ Searching
        /\ from \in Nat \X Nat /\ from[1] <= i /\ from[2] <= j
        /\ frontier \in [(-Myers!MaxD)..Myers!MaxD -> [x : Int, history : Seq(Edits)]]
    BY <2>1 DEF MyersInv
  <2>3. i = 0 /\ j = 0
    BY <2>2 DEF Searching
  <2>4. ops = <<>>
    BY <2>1 DEF MyersLeast
  <2>5. Myers!MaxD \in Nat
    BY <2>2 DEF Myers!MaxD
  <2> QED BY <2>1, <2>2, <2>3, <2>4, <2>5
<1>2. PICK c \in 0..d : /\ k = 2 * c - d
                        /\ Row(frontier, d - 1, a, b) /\ MayGoOn(frontier, d - 1, d, a, b)
  BY <1>1 DEF Searching
<1>3. /\ Furthermost(frontier, d - 1, d, a, b) /\ Furthermost(frontier, d, c, a, b)
      /\ d <= LeastEdits(a, b)
  <2>1. PICK p \in 0..d : /\ k = 2 * p - d
                          /\ Furthermost(frontier, d - 1, d, a, b)
                          /\ Furthermost(frontier, d, p, a, b)
    BY <1>1 DEF MyersLeast
  <2>2. p = c
    <3>1. PICK r \in Int : r = d
      BY <1>1
    <3>2. 2 * c - r = 2 * p - r
      BY <1>2, <2>1, <3>1
    <3> QED BY <3>1, <3>2, OneDiagonal
  <2> QED BY <1>1, <2>1, <2>2 DEF MyersLeast
<1>4. /\ frontier' = [frontier EXCEPT ![k] = e]
      /\ IF Myers!AtEnd(e.x, e.x - k) THEN history' = e.history /\ pc' = "replay"
                                      ELSE UNCHANGED <<history, pc>>
      /\ IF k = d THEN d' = d + 1 /\ k' = -(d + 1) ELSE k' = k + 2 /\ d' = d
      /\ UNCHANGED <<a, b, i, j, from, ops>>
  BY DEF Myers!Advance
<1>5. /\ e.x \in Nat /\ FrontAt(e.x, k, d, a, b) /\ Len(e.history) = d
      /\ e.x >= Len(a) /\ e.x - k >= Len(b) => e.x = Len(a) /\ e.x - k = Len(b)
  BY <1>1, <1>2, <1>3, FurthestFront
<1> HIDE DEF e
<1>6. PICK l \in Nat : l = LeastEdits(a, b) /\ l = Least(a, b, Len(a), Len(b))
  BY <1>1, LeastIsNumber
<1>7. CASE Myers!AtEnd(e.x, e.x - k)
  <2>1. e.x = Len(a) /\ e.x - k = Len(b) /\ pc' = "replay" /\ history' = e.history
    BY <1>4, <1>5, <1>7 DEF Myers!AtEnd
  <2>2. l <= d
    <3>1. Len(a) \in 0..Len(a) /\ Len(b) \in 0..Len(b) /\ Len(a) - Len(b) = k /\ Len(a) <= e.x
      BY <1>1, <1>2, <1>5, <2>1
    <3> QED BY <1>5, <1>6, <3>1 DEF FrontAt
  <2>3. l = d
    BY <1>1, <1>3, <1>6, <2>2
  <2>4. from[1] = 0 /\ from[2] = 0
    BY <1>1
  <2>5. EditsOf(ops) + (i - from[1]) + (j - from[2]) + Len(history') = LeastEdits(a, b)
    <3>1. EditsOf(ops) = 0
      BY <1>1, NoEdits
    <3>2. i - from[1] = 0 /\ j - from[2] = 0
      BY <1>1, <2>4
    <3>3. Len(history') = l
      BY <1>5, <2>1, <2>3
    <3>4. 0 + 0 + 0 + l = l
      OBVIOUS
    <3> QED BY <1>6, <3>1, <3>2, <3>3, <3>4
  <2> QED BY <1>4, <2>1, <2>5 DEF MyersLeast
<1>8. CASE ~Myers!AtEnd(e.x, e.x - k)
  <2>1. pc' = "search"
    BY <1>1, <1>4, <1>8
  <2>2. /\ d \in Nat \ {0} /\ c \in 0..d
        /\ \A m \in 0..d : 2 * m - d \in (-Myers!MaxD)..Myers!MaxD
        /\ \A m \in 0..(d - 1) : 2 * m - (d - 1) \in (-Myers!MaxD)..Myers!MaxD
    BY <1>1, <1>2, SMTT(30)
  <2>3. frontier' = [frontier EXCEPT ![2 * c - d] = e]
    BY <1>2, <1>4
  <2>4. /\ Furthermost(frontier', d - 1, d, a, b)
        /\ Furthermost(frontier', d, c + 1, a, b)
    BY <1>1, <1>2, <1>3, <1>5, <2>2, <2>3, FurthermostGrows
  <2>5. CASE k = d
    <3>1. d' = d + 1 /\ k' = -(d + 1) /\ c = d
      BY <1>1, <1>2, <1>4, <2>5
    <3>2. Row(frontier', d, a, b) /\ MayGoOn(frontier', d, d + 1, a, b)
      <4>1. d' # 0 /\ d' - 1 = d
        BY <2>2, <3>1
      <4>2. Searching'
        BY <1>4, <2>1 DEF MyersInv
      <4>3. Row(frontier', d' - 1, a', b') /\ MayGoOn(frontier', d' - 1, d', a', b')
        BY <4>1, <4>2 DEF Searching
      <4> QED BY <1>4, <3>1, <4>1, <4>3
    <3>3. Furthermost(frontier', d, d + 1, a, b)
      BY <2>4, <3>1
    <3>4. l # d
      <4>1. PICK r \in Nat : r = d
        BY <2>2
      <4>2. \A m \in 0..r : frontier'[2 * m - r].x \in Int
        <5> SUFFICES ASSUME NEW m \in 0..r PROVE frontier'[2 * m - r].x \in Int
          OBVIOUS
        <5>1. Reached(frontier', r, m, a, b)
          BY <3>2, <4>1 DEF Row
        <5> QED BY <5>1 DEF Reached
      <4>3. Short(frontier', r, r + 1, a, b) /\ Fronts(frontier', r, r + 1, a, b)
        BY <3>2, <3>3, <4>1 DEF MayGoOn, Furthermost
      <4> QED BY <1>1, <1>6, <4>1, <4>2, <4>3, RowTooShort
    <3>5. d + 1 <= l
      BY <1>3, <1>6, <2>2, <3>4
    <3>6. Furthermost(frontier', d + 1, 0, a, b)
      <4>1. 0..(0 - 1) = {}
        OBVIOUS
      <4> QED BY <4>1 DEF Furthermost, Fronts
    <3>7. 0 \in 0..(d + 1) /\ -(d + 1) = 2 * 0 - (d + 1) /\ (d + 1) - 1 = d
      BY <2>2
    <3> QED BY <1>1, <1>4, <1>6, <2>1, <3>1, <3>3, <3>5, <3>6, <3>7 DEF MyersLeast
  <2>6. CASE k # d
    <3>1. d' = d /\ k' = k + 2
      BY <1>4, <2>6
    <3>2. c + 1 \in 0..d /\ k + 2 = 2 * (c + 1) - d
      BY <1>2, <2>2, <2>6
    <3> QED BY <1>1, <1>3, <1>4, <2>1, <2>4, <3>1, <3>2 DEF MyersLeast
  <2> QED BY <2>5, <2>6
<1> QED BY <1>7, <1>8

\* One turn of the replay says, or leaves for the next opcode, each edit it takes.
LEMMA MyersLeastReplay ==
  ASSUME MyersInv, MyersLeast, engine = "myers", Myers!Replay, engine' = engine
  PROVE  MyersLeast'
<1>0. Len(a) \in Nat /\ Len(b) \in Nat /\ i \in Nat /\ j \in Nat
  BY DEF MyersInv
<1>1. PICK n \in Nat : n = Extent(a, b, i, j)
  BY <1>0, ExtentAnywhere
<1>2. /\ Len(a) \in Nat /\ Len(b) \in Nat /\ pc = "replay" /\ i \in Nat /\ j \in Nat
      /\ ops \in Seq(OpcodeSet)
      /\ LedTo(history, a, b, i, j, Len(a), Len(b)) /\ history \in Seq(Edits)
  BY DEF MyersInv, Myers!Replay, SaidUpTo, LedTo
<1>3. PICK x \in 0..i, y \in 0..j : x = from[1] /\ y = from[2]
  BY DEF MyersInv
<1>4. /\ ops' = IF n = 0 THEN ops
                ELSE ops \o Change(x, i, y, j) \o <<Opcode("equal", i, i + n, j, j + n)>>
      /\ from' = IF n = 0 THEN from ELSE <<i + n, j + n>>
      /\ IF Myers!AtEnd(i + n, j + n) \/ history = <<>>
         THEN i' = i + n /\ j' = j + n /\ pc' = "flush" /\ UNCHANGED history
         ELSE /\ i' = i + n + InFirst(Head(history)) /\ j' = j + n + InSecond(Head(history))
              /\ history' = Tail(history) /\ pc' = pc
      /\ UNCHANGED <<a, b>>
  BY <1>1, <1>3, MyersWords DEF Myers!Replay, Myers!loops, Myers!Pending, InFirst, InSecond
<1>5. PICK e \in Int, l \in Nat : e = EditsOf(ops) /\ l = LeastEdits(a, b)
  BY <1>2, EditsAreNumber, LeastIsNumber
<1>6. PICK m \in Nat : m = Len(history)
  BY <1>2
<1>7. e + (i - x) + (j - y) + m = l
  BY <1>2, <1>3, <1>5, <1>6 DEF MyersLeast
<1>8. PICK f \in Int, p \in Nat, q \in Nat :
        /\ f = EditsOf(ops') /\ p = from'[1] /\ q = from'[2]
        /\ f + (i + n - p) + (j + n - q) = e + (i - x) + (j - y)
  <2>1. CASE n = 0
    <3>1. EditsOf(ops') = e /\ from'[1] = x /\ from'[2] = y
      BY <1>3, <1>4, <1>5, <2>1
    <3>2. x \in Nat /\ y \in Nat /\ e + (i + n - x) + (j + n - y) = e + (i - x) + (j - y)
      BY <1>0, <2>1
    <3> QED BY <3>1, <3>2
  <2>2. CASE n # 0
    <3>1. EditsOf(ops') = e + (i - x) + (j - y)
      <4>1. x \in Nat /\ y \in Nat /\ x <= i /\ y <= j
        BY <1>2
      <4>2. EditsOf(ops \o Change(x, i, y, j) \o <<Opcode("equal", i, i + n, j, j + n)>>)
              = e + (i - x) + (j - y)
        <5>1. PICK u \in Nat, v \in Nat, p \in Nat, q \in Nat, said \in Seq(OpcodeSet) :
                u = i /\ v = j /\ p = x /\ q = y /\ said = ops
          BY <1>2, <4>1
        <5>2. p <= u /\ q <= v
          BY <4>1, <5>1
        <5>3. PICK op \in OpcodeSet : op = Opcode("equal", u, u + n, v, v + n)
          <6>1. u + n \in Nat /\ v + n \in Nat
            OBVIOUS
          <6>2. Opcode("equal", u, u + n, v, v + n) \in OpcodeSet
            BY <6>1, OpcodeTyped DEF Tags
          <6> QED BY <6>2
        <5>4. op.tag = "equal"
          BY <5>3 DEF Opcode
        <5>5. PICK g \in Int : g = e + (u - p) + (v - q)
          OBVIOUS
        <5>6. g = EditsOf(said) + (u - p) + (v - q)
          BY <1>5, <5>1, <5>5
        <5>7. EditsOf(said \o Change(p, u, q, v) \o <<op>>) = g
          BY <5>2, <5>4, <5>6, EditsOfMatch
        <5> QED BY <5>1, <5>3, <5>5, <5>7
      <4> QED BY <1>4, <2>2, <4>2
    <3>2. from'[1] = i + n /\ from'[2] = j + n
      BY <1>4, <2>2
    <3>3. PICK g \in Int : g = e + (i - x) + (j - y)
      BY <1>2
    <3>4. i + n \in Nat /\ j + n \in Nat /\ g + (i + n - (i + n)) + (j + n - (j + n)) = g
      BY <1>2
    <3> QED BY <3>1, <3>2, <3>3, <3>4
  <2> QED BY <2>1, <2>2
<1>11. PICK g \in Int : /\ g = e + (i - x) + (j - y) /\ g + m = l
                       /\ f + (i + n - p) + (j + n - q) = g
  BY <1>2, <1>7, <1>8
<1>9. CASE Myers!AtEnd(i + n, j + n) \/ history = <<>>
  <2>1. i' = i + n /\ j' = j + n /\ pc' = "flush"
    BY <1>4, <1>9
  <2>2. m = 0
    <3>1. CASE Myers!AtEnd(i + n, j + n)
      <4>1. Len(a) <= i + n /\ Len(b) <= j + n
        BY <1>2, <3>1 DEF Myers!AtEnd
      <4>2. history = <<>>
        BY <1>1, <1>2, <4>1, NoEditsLeft
      <4> QED BY <1>6, <4>2
    <3>2. CASE history = <<>>
      BY <1>6, <3>2
    <3> QED BY <1>9, <3>1, <3>2
  <2>3. f + (i + n - p) + (j + n - q) = l
    BY <1>11, <2>2
  <2>4. EditsOf(ops') + (i' - from'[1]) + (j' - from'[2]) = LeastEdits(a', b')
    <3>1. LeastEdits(a', b') = l
      BY <1>4, <1>5
    <3> QED BY <1>0, <1>8, <2>1, <2>3, <3>1
  <2> QED BY <2>1, <2>4 DEF MyersLeast
<1>10. CASE ~(Myers!AtEnd(i + n, j + n) \/ history = <<>>)
  <2>1. PICK w \in Edits : w = Head(history)
    BY <1>2, <1>10, HeadTailProperties
  <2>2. PICK u \in 0..1, v \in 0..1 : u = InFirst(w) /\ v = InSecond(w) /\ u + v = 1
    BY EditsGoOn
  <2>3. /\ i' = i + n + u /\ j' = j + n + v /\ pc' = "replay" /\ history' = Tail(history)
    BY <1>2, <1>4, <1>10, <2>1, <2>2
  <2>4. Len(history') = m - 1
    BY <1>2, <1>6, <1>10, <2>3, HeadTailProperties
  <2>5. f + (i + n + u - p) + (j + n + v - q) + (m - 1) = l
    <3>1. f + (i + n + u - p) + (j + n + v - q) = g + (u + v)
      BY <1>2, <1>11
    <3>2. g + (u + v) + (m - 1) = g + m
      BY <2>2
    <3> QED BY <1>11, <3>1, <3>2
  <2>6. EditsOf(ops') + (i' - from'[1]) + (j' - from'[2]) + Len(history') = LeastEdits(a', b')
    <3>1. LeastEdits(a', b') = l
      BY <1>4, <1>5
    <3>2. PICK i2 \in Int, j2 \in Int : i2 = i + n + u /\ j2 = j + n + v
      BY <1>0, <2>2
    <3>3. i' = i2 /\ j' = j2
      BY <2>3, <3>2
    <3>4. f + (i2 - p) + (j2 - q) + (m - 1) = l
      BY <1>0, <2>5, <3>2
    <3> QED BY <1>8, <2>4, <3>1, <3>3, <3>4
  <2> QED BY <2>3, <2>6 DEF MyersLeast
<1> QED BY <1>9, <1>10

\* At the end those it has not said yet are said.
LEMMA MyersLeastFlush ==
  ASSUME MyersInv, MyersLeast, engine = "myers", Myers!Flush, engine' = engine
  PROVE  MyersLeast'
<1>1. /\ Len(a) \in Nat /\ Len(b) \in Nat /\ i \in Nat /\ j \in Nat /\ ops \in Seq(OpcodeSet)
      /\ from \in Nat \X Nat /\ from[1] <= i /\ from[2] <= j
  BY DEF MyersInv, Myers!Flush, SaidUpTo
<1>2. PICK x \in 0..i, y \in 0..j : x = from[1] /\ y = from[2]
  BY <1>1
<1>3. PICK e \in Int, l \in Nat : e = EditsOf(ops) /\ l = LeastEdits(a, b)
  BY <1>1, EditsAreNumber, LeastIsNumber
<1>4. e + (i - x) + (j - y) = l
  <2>1. CASE pc = "flush"
    BY <1>2, <1>3, <2>1 DEF MyersLeast
  <2>2. CASE pc = "replay" /\ Myers!AtEnd(i, j)
    <3>1. LedTo(history, a, b, i, j, Len(a), Len(b)) /\ Len(a) <= i /\ Len(b) <= j
      BY <1>1, <2>2 DEF MyersInv, Myers!AtEnd
    <3>2. PICK n \in Nat : n = Extent(a, b, i, j)
      BY <1>1, ExtentAnywhere
    <3>3. Len(a) <= i + n /\ Len(b) <= j + n
      BY <1>1, <3>1
    <3>4. history = <<>>
      BY <1>1, <3>1, <3>2, <3>3, NoEditsLeft
    <3>5. e + (i - x) + (j - y) + 0 = l
      BY <1>2, <1>3, <2>2, <3>4 DEF MyersLeast
    <3>6. PICK g \in Int : g = e + (i - x) + (j - y)
      BY <1>1
    <3>7. g + 0 = g
      OBVIOUS
    <3> QED BY <3>5, <3>6, <3>7
  <2> QED BY <2>1, <2>2 DEF Myers!Flush
<1>5. ops' = ops \o Change(x, i, y, j) /\ pc' = "done" /\ UNCHANGED <<a, b>>
  BY <1>2, MyersWords DEF Myers!Flush, Myers!loops, Myers!Pending
<1>6. EditsOf(ops') = e + (i - x) + (j - y)
  <2>1. x \in Nat /\ y \in Nat /\ x <= i /\ y <= j
    BY <1>1
  <2>2. PICK u \in Nat, v \in Nat, p \in Nat, q \in Nat, said \in Seq(OpcodeSet) :
          u = i /\ v = j /\ p = x /\ q = y /\ said = ops
    BY <1>1, <2>1
  <2>3. EditsOf(said \o Change(p, u, q, v)) = EditsOf(said) + (u - p) + (v - q)
    BY <2>1, <2>2, EditsOfChange
  <2>4. EditsOf(ops') = EditsOf(said \o Change(p, u, q, v)) /\ EditsOf(said) = e
    BY <1>3, <1>5, <2>2
  <2> QED BY <2>2, <2>3, <2>4
<1>7. EditsOf(ops') = LeastEdits(a', b')
  BY <1>3, <1>4, <1>5, <1>6
<1> QED BY <1>5, <1>7 DEF MyersLeast

\* No other engine runs once this one is chosen.
LEMMA MyersLeastNext == MyersInv /\ MyersInv' /\ MyersLeast /\ [Next]_vars => MyersLeast'
<1> SUFFICES ASSUME MyersInv, MyersInv', MyersLeast, [Next]_vars, engine' = "myers"
             PROVE  MyersLeast'
  BY DEF MyersLeast
<1>1. CASE RunMyers
  <2>1. engine = "myers" /\ Myers!Next /\ engine' = engine
    BY <1>1 DEF RunMyers
  <2>2. CASE Myers!Overrun
    BY <2>2 DEF Myers!Overrun, MyersLeast
  <2> QED BY <2>1, <2>2, MyersLeastFirst, MyersLeastAdvance, MyersLeastReplay, MyersLeastFlush
          DEF Myers!Next
<1>2. CASE UNCHANGED vars
  <2>1. UNCHANGED <<engine, a, b, i, j, ops, pc, d, k, frontier, history, from>>
    BY <1>2 DEF vars, myersVars
  <2> QED BY <2>1 DEF MyersLeast
<1>3. CASE RunGreedy \/ RunDmp \/ RunSes \/ RunDifflib \/ RunChunk \/ RunRolling \/ WriteAndApply
  <2>1. engine' # "myers"
    BY <1>3 DEF RunGreedy, RunDmp, RunSes, RunDifflib, RunChunk, RunRolling, WriteAndApply,
                ByteEngines
  <2> QED BY <2>1
<1> QED BY <1>1, <1>2, <1>3 DEF Next

\* When the Myers engine is done it has said as few edits as turn the first text into the
\* second, as its docstring claims: every place of its frontier is the furthest that its
\* edits lead to.
THEOREM MyersLeastEdits == Spec => [](engine = "myers" => LeastEditsFound)
<1>1. MyersLeast => (engine = "myers" => LeastEditsFound)
  BY DEF MyersLeast, LeastEditsFound, Compared, TextEngines
<1> QED BY <1>1, MyersInvInit, MyersInvNext, MyersLeastInit, MyersLeastNext, PTL DEF Spec

-------------------------------------------------------------------------------
(* The bisecting engine: what is still to be said tiles what is left of both. *)

BoxSet == [do : {"main", "compute", "equal", "delete", "insert"},
           aoff : Nat, alen : Nat, boff : Nat, blen : Nat]

\* A box is one of both sequences, and what is to be said of it is so.
BoxTrue(box, s, t) ==
  /\ box.aoff + box.alen <= Len(s) /\ box.boff + box.blen <= Len(t)
  /\ box.do = "equal" =>
       box.alen > 0 /\ box.blen = box.alen /\ Matches(s, t, box.aoff, box.boff, box.alen)
  /\ box.do = "delete" => box.alen > 0 /\ box.blen = 0
  /\ box.do = "insert" => box.alen = 0 /\ box.blen > 0

\* Boxes one after the other from (x, y) to the end of both sequences.
Tiles(w, s, t, x, y) ==
  /\ w \in Seq(BoxSet)
  /\ \A n \in 1..Len(w) :
       /\ BoxTrue(w[n], s, t)
       /\ w[n].aoff = IF n = 1 THEN x ELSE w[n - 1].aoff + w[n - 1].alen
       /\ w[n].boff = IF n = 1 THEN y ELSE w[n - 1].boff + w[n - 1].blen
  /\ IF w = <<>> THEN x = Len(s) /\ y = Len(t)
     ELSE /\ w[Len(w)].aoff + w[Len(w)].alen = Len(s)
          /\ w[Len(w)].boff + w[Len(w)].blen = Len(t)

\* After the first of them the others are boxes from its end on.
LEMMA TilesTail ==
  ASSUME NEW s, NEW t, NEW x, NEW y, NEW w, w # <<>>, Tiles(w, s, t, x, y)
  PROVE  /\ Head(w) \in BoxSet /\ BoxTrue(Head(w), s, t)
         /\ Head(w).aoff = x /\ Head(w).boff = y
         /\ Tiles(Tail(w), s, t, x + Head(w).alen, y + Head(w).blen)
<1>1. w \in Seq(BoxSet)
  BY DEF Tiles
<1>2. PICK n \in Nat \ {0} : n = Len(w)
  BY <1>1, LenProperties, EmptySeq
<1>3. Head(w) = w[1] /\ Head(w) \in BoxSet
  BY <1>1, HeadTailProperties
<1> DEFINE r == Tail(w)
<1>4. r \in Seq(BoxSet) /\ Len(r) = n - 1 /\ \A m \in 1..(n - 1) : r[m] = w[m + 1]
  BY <1>1, <1>2, HeadTailProperties
<1>5. BoxTrue(w[1], s, t) /\ w[1].aoff = x /\ w[1].boff = y
  BY <1>2 DEF Tiles
<1>6. \A m \in 1..(n - 1) :
        /\ BoxTrue(r[m], s, t)
        /\ r[m].aoff = IF m = 1 THEN x + w[1].alen ELSE r[m - 1].aoff + r[m - 1].alen
        /\ r[m].boff = IF m = 1 THEN y + w[1].blen ELSE r[m - 1].boff + r[m - 1].blen
  <2> HIDE DEF r
  <2> SUFFICES ASSUME NEW m \in 1..(n - 1)
               PROVE  /\ BoxTrue(r[m], s, t)
                      /\ r[m].aoff = IF m = 1 THEN x + w[1].alen ELSE r[m - 1].aoff + r[m - 1].alen
                      /\ r[m].boff = IF m = 1 THEN y + w[1].blen ELSE r[m - 1].boff + r[m - 1].blen
    OBVIOUS
  <2>1. m + 1 \in 1..n /\ m + 1 # 1 /\ (m + 1) - 1 = m
    OBVIOUS
  <2>2. /\ BoxTrue(w[m + 1], s, t)
        /\ w[m + 1].aoff = w[m].aoff + w[m].alen
        /\ w[m + 1].boff = w[m].boff + w[m].blen
    BY <1>2, <2>1 DEF Tiles
  <2>3. m # 1 => m - 1 \in 1..(n - 1) /\ r[m - 1] = w[m]
    <3>1. m # 1 => m - 1 \in 1..(n - 1) /\ (m - 1) + 1 = m
      OBVIOUS
    <3> QED BY <1>4, <3>1
  <2>4. CASE m = 1
    BY <1>4, <1>5, <2>2, <2>4
  <2>5. CASE m # 1
    BY <1>4, <2>2, <2>3, <2>5
  <2> QED BY <2>4, <2>5
<1>7. IF r = <<>> THEN x + w[1].alen = Len(s) /\ y + w[1].blen = Len(t)
      ELSE r[Len(r)].aoff + r[Len(r)].alen = Len(s) /\ r[Len(r)].boff + r[Len(r)].blen = Len(t)
  <2>1. w[n].aoff + w[n].alen = Len(s) /\ w[n].boff + w[n].blen = Len(t)
    BY <1>2 DEF Tiles
  <2> HIDE DEF r
  <2>2. CASE n = 1
    <3>1. r = <<>>
      BY <1>4, <2>2, EmptySeq
    <3> QED BY <1>5, <2>1, <2>2, <3>1
  <2>3. CASE n # 1
    <3>1. n - 1 \in 1..(n - 1) /\ (n - 1) + 1 = n
      BY <2>3
    <3>2. r # <<>> /\ r[n - 1] = w[n]
      BY <1>4, <2>3, <3>1, EmptySeq
    <3> QED BY <1>4, <2>1, <3>2
  <2> QED BY <2>2, <2>3
<1>8. Tiles(r, s, t, x + w[1].alen, y + w[1].blen)
  <2> HIDE DEF r
  <2> QED BY <1>4, <1>6, <1>7 DEF Tiles
<1> QED BY <1>3, <1>5, <1>8

\* One more box before them.
LEMMA TilesOneMore ==
  ASSUME NEW s, NEW t, NEW w, NEW box \in BoxSet, BoxTrue(box, s, t),
         Tiles(w, s, t, box.aoff + box.alen, box.boff + box.blen)
  PROVE  Tiles(<<box>> \o w, s, t, box.aoff, box.boff)
<1> DEFINE r == <<box>> \o w
<1>1. w \in Seq(BoxSet) /\ <<box>> \in Seq(BoxSet) /\ Len(<<box>>) = 1
  BY DEF Tiles
<1>2. PICK n \in Nat : n = Len(w)
  BY <1>1
<1>3. /\ r \in Seq(BoxSet) /\ Len(r) = 1 + n
      /\ \A m \in 1..(1 + n) : r[m] = IF m <= 1 THEN <<box>>[m] ELSE w[m - 1]
  BY <1>1, <1>2, EndToEnd
<1> HIDE DEF r
<1>4. r[1] = box /\ \A m \in 1..n : r[m + 1] = w[m]
  <2>1. 1 \in 1..(1 + n) /\ 1 <= 1 /\ <<box>>[1] = box
    BY <1>2
  <2>2. r[1] = box
    BY <1>3, <2>1
  <2>3. \A m \in 1..n : m + 1 \in 1..(1 + n) /\ ~(m + 1 <= 1) /\ (m + 1) - 1 = m
    BY <1>2
  <2> QED BY <1>3, <2>2, <2>3
<1>5. ASSUME NEW m \in 1..Len(r)
      PROVE  /\ BoxTrue(r[m], s, t)
             /\ r[m].aoff = IF m = 1 THEN box.aoff ELSE r[m - 1].aoff + r[m - 1].alen
             /\ r[m].boff = IF m = 1 THEN box.boff ELSE r[m - 1].boff + r[m - 1].blen
  <2>1. CASE m = 1
    BY <1>4, <2>1
  <2>2. CASE m # 1
    <3>1. PICK l \in 1..n : m = l + 1 /\ m - 1 = l
      <4>1. m - 1 \in 1..n /\ m = (m - 1) + 1
        BY <1>3, <2>2
      <4> QED BY <4>1
    <3>2. /\ BoxTrue(w[l], s, t)
          /\ w[l].aoff = IF l = 1 THEN box.aoff + box.alen ELSE w[l - 1].aoff + w[l - 1].alen
          /\ w[l].boff = IF l = 1 THEN box.boff + box.blen ELSE w[l - 1].boff + w[l - 1].blen
      BY <1>2, <3>1 DEF Tiles
    <3>3. r[m] = w[l] /\ r[m - 1] = r[l]
      BY <1>4, <3>1
    <3>4. CASE l = 1
      BY <1>4, <2>2, <3>2, <3>3, <3>4
    <3>5. CASE l # 1
      <4>1. l - 1 \in 1..n /\ (l - 1) + 1 = l
        BY <1>2, <3>5
      <4>2. r[l] = w[l - 1]
        BY <1>4, <4>1
      <4> QED BY <2>2, <3>2, <3>3, <3>5, <4>2
    <3> QED BY <3>4, <3>5
  <2> QED BY <2>1, <2>2
<1>6. r # <<>> /\ r[Len(r)].aoff + r[Len(r)].alen = Len(s) /\ r[Len(r)].boff + r[Len(r)].blen = Len(t)
  <2>1. CASE n = 0
    <3>1. w = <<>>
      BY <1>1, <1>2, <2>1, EmptySeq
    <3>2. box.aoff + box.alen = Len(s) /\ box.boff + box.blen = Len(t)
      BY <3>1 DEF Tiles
    <3>3. Len(r) = 1
      BY <1>3, <2>1
    <3>4. r # <<>>
      BY <3>3
    <3> QED BY <1>4, <3>2, <3>3, <3>4
  <2>2. CASE n # 0
    <3>1. w # <<>> /\ Len(r) = n + 1 /\ n \in 1..n
      BY <1>1, <1>2, <1>3, <2>2, EmptySeq
    <3>2. w[n].aoff + w[n].alen = Len(s) /\ w[n].boff + w[n].blen = Len(t)
      BY <1>2, <3>1 DEF Tiles
    <3>3. r[n + 1] = w[n]
      BY <1>4, <3>1
    <3>4. Len(r) # 0
      BY <3>1
    <3>5. r # <<>>
      BY <3>4
    <3> QED BY <3>1, <3>2, <3>3, <3>5
  <2> QED BY <2>1, <2>2
<1>7. Tiles(r, s, t, box.aoff, box.boff)
  BY <1>3, <1>5, <1>6 DEF Tiles
<1> QED BY <1>7 DEF r

\* What is said of a range, before them; of an empty one, nothing.
LEMMA SayTiles ==
  ASSUME NEW s, NEW t, NEW w, NEW tag \in {"equal", "delete", "insert"},
         NEW x \in Nat, NEW m \in Nat, NEW y \in Nat, NEW n \in Nat,
         x + m <= Len(s), y + n <= Len(t),
         tag = "equal" => m = n /\ Matches(s, t, x, y, m),
         tag = "delete" => n = 0,
         tag = "insert" => m = 0,
         Tiles(w, s, t, x + m, y + n)
  PROVE  /\ Tiles(Dmp!Say(tag, x, m, y, n) \o w, s, t, x, y)
         /\ Dmp!Say(tag, x, m, y, n) \in Seq(BoxSet)
<1> DEFINE e == [do |-> tag, aoff |-> x, alen |-> m, boff |-> y, blen |-> n]
<1>1. CASE m = 0 /\ n = 0
  <2>1. Dmp!Say(tag, x, m, y, n) = <<>>
    BY <1>1 DEF Dmp!Say
  <2>2. w \in Seq(BoxSet)
    BY DEF Tiles
  <2>3. <<>> \o w = w
    BY <2>2
  <2>4. x + m = x /\ y + n = y
    BY <1>1
  <2> QED BY <2>1, <2>3, <2>4
<1>2. CASE m # 0 \/ n # 0
  <2>1. Dmp!Say(tag, x, m, y, n) = <<e>>
    BY <1>2 DEF Dmp!Say, Dmp!Box
  <2>2. e.do = tag /\ e.aoff = x /\ e.alen = m /\ e.boff = y /\ e.blen = n /\ e \in BoxSet
    BY DEF BoxSet
  <2> HIDE DEF e
  <2>3. BoxTrue(e, s, t)
    BY <1>2, <2>2 DEF BoxTrue
  <2>4. Tiles(<<e>> \o w, s, t, x, y)
    BY <2>2, <2>3, TilesOneMore
  <2> QED BY <2>1, <2>2, <2>4
<1> QED BY <1>1, <1>2

\* The engine speaks of the same opcodes as the composition.
LEMMA DmpWords ==
  /\ \A p, q, r, s, t : Dmp!Opcode(p, q, r, s, t) = Opcode(p, q, r, s, t)
  /\ \A p, q, r, s, t : Dmp!Matches(p, q, r, s, t) = Matches(p, q, r, s, t)
  /\ \A p, q, r, s : Dmp!Extent(p, q, r, s) = Extent(p, q, r, s)
  /\ \A p, q : Dmp!Smaller(p, q) = Smaller(p, q)
  /\ \A p, q : Dmp!Larger(p, q) = Larger(p, q)
<1>1. \A p, q, r, s, t : Dmp!Opcode(p, q, r, s, t) = Opcode(p, q, r, s, t)
  BY DEF Dmp!Opcode, Opcode
<1>2. \A p, q, r, s, t : Dmp!Matches(p, q, r, s, t) = Matches(p, q, r, s, t)
  BY DEF Dmp!Matches, Matches
<1>3. \A p, q : Dmp!Smaller(p, q) = Smaller(p, q)
  BY DEF Dmp!Smaller, Smaller
<1>4. \A p, q : Dmp!Larger(p, q) = Larger(p, q)
  BY DEF Dmp!Larger, Larger
<1>5. \A p, q, r, s : Dmp!Extent(p, q, r, s) = Extent(p, q, r, s)
  BY DEF Dmp!Extent, Extent, Dmp!Smaller, Smaller, Dmp!MatchesExactly, MatchesExactly,
         Dmp!Matches, Matches
<1> QED BY <1>1, <1>2, <1>3, <1>4, <1>5

\* What two sequences have in common read from their ends.
LEMMA EndsAlike ==
  ASSUME NEW S, NEW s \in Seq(S), NEW t \in Seq(S)
  PROVE  LET l == Extent(Dmp!Reverse(s), Dmp!Reverse(t), 0, 0) IN
         /\ l \in Nat /\ l <= Len(s) /\ l <= Len(t)
         /\ Matches(s, t, Len(s) - l, Len(t) - l, l)
<1> DEFINE u == Dmp!Reverse(s)
           v == Dmp!Reverse(t)
           l == Extent(u, v, 0, 0)
<1>1. PICK m \in Nat, n \in Nat : m = Len(s) /\ n = Len(t)
  OBVIOUS
<1>2. Len(u) = m /\ \A z \in 1..m : u[z] = s[(m - z) + 1]
  BY <1>1 DEF Dmp!Reverse
<1>3. Len(v) = n /\ \A z \in 1..n : v[z] = t[(n - z) + 1]
  BY <1>1 DEF Dmp!Reverse
<1> HIDE DEF u, v
<1>4. l \in Nat /\ Matches(u, v, 0, 0, l)
  <2>1. 0 \in 0..Len(u) /\ 0 \in 0..Len(v) /\ Len(u) \in Nat /\ Len(v) \in Nat
    BY <1>2, <1>3
  <2> QED BY <2>1, ExtentMatches DEF MatchesExactly
<1> HIDE DEF l
<1>5. l <= m /\ l <= n /\ \A z \in 1..l : u[z] = v[z]
  <2>1. 0 + l <= Len(u) /\ 0 + l <= Len(v) /\ \A z \in 1..l : u[0 + z] = v[0 + z]
    BY <1>4 DEF Matches
  <2>2. \A z \in 1..l : 0 + z = z
    OBVIOUS
  <2> QED BY <1>2, <1>3, <1>4, <2>1, <2>2
<1>6. ASSUME NEW z \in 1..l PROVE s[(m - l) + z] = t[(n - l) + z]
  <2> DEFINE h == (l - z) + 1
  <2>1. /\ h \in 1..l /\ h \in 1..m /\ h \in 1..n
        /\ (m - h) + 1 = (m - l) + z /\ (n - h) + 1 = (n - l) + z
    BY <1>4, <1>5
  <2> HIDE DEF h
  <2>2. u[h] = s[(m - l) + z] /\ v[h] = t[(n - l) + z]
    BY <1>2, <1>3, <2>1
  <2> QED BY <1>5, <2>1, <2>2
<1>7. (m - l) + l <= m /\ (n - l) + l <= n
  BY <1>4, <1>5
<1>8. Matches(s, t, m - l, n - l, l)
  BY <1>1, <1>6, <1>7 DEF Matches
<1> QED BY <1>1, <1>4, <1>5, <1>8 DEF l, u, v

\* A box that is deleted and then inserted is said.
LEMMA DeletedInserted ==
  ASSUME a \in Seq(Entries), b \in Seq(Entries), NEW box \in BoxSet, BoxTrue(box, a, b), NEW w,
         Tiles(w, a, b, box.aoff + box.alen, box.boff + box.blen)
  PROVE  /\ Tiles(Dmp!Inserted(box) \o w, a, b, box.aoff + box.alen, box.boff)
         /\ Tiles((Dmp!Deleted(box) \o Dmp!Inserted(box)) \o w, a, b, box.aoff, box.boff)
         /\ box.blen = 0 => Tiles(Dmp!Deleted(box) \o w, a, b, box.aoff, box.boff)
<1>1. PICK x \in Nat, m \in Nat, y \in Nat, n \in Nat :
        x = box.aoff /\ m = box.alen /\ y = box.boff /\ n = box.blen
  BY DEF BoxSet
<1>2. x + m <= Len(a) /\ y + n <= Len(b) /\ Len(a) \in Nat /\ Len(b) \in Nat
  BY <1>1 DEF BoxTrue
<1> DEFINE ins == Dmp!Say("insert", x + m, 0, y, n)
           del == Dmp!Say("delete", x, m, y, 0)
<1>3. Dmp!Inserted(box) = ins /\ Dmp!Deleted(box) = del
  BY <1>1 DEF Dmp!Inserted, Dmp!Deleted
<1>4. /\ 0 \in Nat /\ x + m \in Nat /\ (x + m) + 0 = x + m /\ y + 0 = y
      /\ (x + m) + 0 <= Len(a) /\ y + 0 <= Len(b)
  BY <1>2
<1>5. ASSUME NEW v, Tiles(v, a, b, x + m, y + n)
      PROVE  Tiles(ins \o v, a, b, x + m, y) /\ ins \in Seq(BoxSet)
  <2>1. Tiles(v, a, b, (x + m) + 0, y + n)
    BY <1>4, <1>5
  <2> QED BY <1>2, <1>4, <2>1, SayTiles
<1>6. ASSUME NEW v, Tiles(v, a, b, x + m, y)
      PROVE  Tiles(del \o v, a, b, x, y) /\ del \in Seq(BoxSet)
  <2>1. Tiles(v, a, b, x + m, y + 0)
    BY <1>4, <1>6
  <2> QED BY <1>2, <1>4, <2>1, SayTiles
<1> HIDE DEF ins, del
<1>7. Tiles(ins \o w, a, b, x + m, y) /\ ins \in Seq(BoxSet)
  <2>1. Tiles(w, a, b, x + m, y + n)
    BY <1>1
  <2> QED BY <1>5, <2>1
<1>8. Tiles(del \o (ins \o w), a, b, x, y) /\ del \in Seq(BoxSet)
  BY <1>6, <1>7
<1>9. del \o (ins \o w) = (del \o ins) \o w
  <2>1. w \in Seq(BoxSet)
    BY DEF Tiles
  <2>2. Joins(BoxSet)
    BY ThreeJoin
  <2> QED BY <1>7, <1>8, <2>1, <2>2 DEF Joins
<1>10. n = 0 => Tiles(del \o w, a, b, x, y)
  <2>1. n = 0 => Tiles(w, a, b, x + m, y)
    BY <1>1, <1>4
  <2> QED BY <1>6, <2>1
<1> QED BY <1>1, <1>3, <1>7, <1>8, <1>9, <1>10

\* Three lists of boxes before the rest, one after the other or all at once.
LEMMA ThreePieces ==
  ASSUME NEW s, NEW t, NEW x, NEW y, NEW A \in Seq(BoxSet), NEW B \in Seq(BoxSet),
         NEW C \in Seq(BoxSet), NEW w, Tiles(A \o (B \o (C \o w)), s, t, x, y),
         w \in Seq(BoxSet)
  PROVE  Tiles((A \o B \o C) \o w, s, t, x, y)
<1> DEFINE u == C \o w
           v == A \o B
<1>1. Joins(BoxSet)
  BY ThreeJoin
<1>2. A \o (B \o u) = v \o u
  <2>1. u \in Seq(BoxSet)
    BY ConcatProperties
  <2> HIDE DEF u
  <2> QED BY <1>1, <2>1 DEF Joins
<1>3. v \o (C \o w) = (v \o C) \o w
  <2>1. v \in Seq(BoxSet)
    BY ConcatProperties
  <2> HIDE DEF v
  <2> QED BY <1>1, <2>1 DEF Joins
<1>4. A \o (B \o (C \o w)) = (A \o B \o C) \o w
  BY <1>2, <1>3
<1> HIDE DEF u, v
<1> QED BY <1>4

\* A box with equals at its ends and a box between them.
LEMMA TrimTiles ==
  ASSUME a \in Seq(Entries), b \in Seq(Entries), NEW x \in Nat, NEW m \in Nat, NEW y \in Nat,
         NEW n \in Nat, x + m <= Len(a), y + n <= Len(b), NEW p \in Nat, NEW s \in Nat,
         p + s <= m, p + s <= n, Matches(a, b, x, y, p),
         Matches(a, b, x + m - s, y + n - s, s), NEW w, Tiles(w, a, b, x + m, y + n)
  PROVE  LET prefix == Dmp!Say("equal", x, p, y, p)
             middle == Dmp!Box("compute", x + p, m - p - s, y + p, n - p - s)
             suffix == Dmp!Say("equal", x + m - s, s, y + n - s, s)
         IN  Tiles((prefix \o <<middle>> \o suffix) \o w, a, b, x, y)
<1> DEFINE prefix == Dmp!Say("equal", x, p, y, p)
           middle == Dmp!Box("compute", x + p, m - p - s, y + p, n - p - s)
           suffix == Dmp!Say("equal", x + m - s, s, y + n - s, s)
<1>0. Len(a) \in Nat /\ Len(b) \in Nat
  OBVIOUS
<1>1. /\ x + p \in Nat /\ y + p \in Nat /\ m - p - s \in Nat /\ n - p - s \in Nat
      /\ x + m - s \in Nat /\ y + n - s \in Nat
      /\ (x + p) + (m - p - s) = x + m - s /\ (y + p) + (n - p - s) = y + n - s
      /\ (x + m - s) + s = x + m /\ (y + n - s) + s = y + n
      /\ x + p <= Len(a) /\ y + p <= Len(b) /\ x + m - s <= Len(a) /\ y + n - s <= Len(b)
      /\ (x + m - s) + s <= Len(a) /\ (y + n - s) + s <= Len(b)
  BY <1>0
<1>2. /\ middle.aoff = x + p /\ middle.alen = m - p - s /\ middle.boff = y + p
      /\ middle.blen = n - p - s /\ middle \in BoxSet /\ middle.do = "compute"
  BY <1>1 DEF Dmp!Box, BoxSet
<1>3. Tiles(suffix \o w, a, b, x + m - s, y + n - s) /\ suffix \in Seq(BoxSet)
  <2>1. Tiles(w, a, b, (x + m - s) + s, (y + n - s) + s)
    BY <1>1
  <2> DEFINE x2 == x + m - s
             y2 == y + n - s
  <2>2. x2 \in Nat /\ y2 \in Nat /\ x2 + s <= Len(a) /\ y2 + s <= Len(b)
    BY <1>1
  <2>3. Tiles(w, a, b, x2 + s, y2 + s) /\ Matches(a, b, x2, y2, s)
    BY <2>1
  <2> HIDE DEF x2, y2
  <2>4. Tiles(Dmp!Say("equal", x2, s, y2, s) \o w, a, b, x2, y2)
        /\ Dmp!Say("equal", x2, s, y2, s) \in Seq(BoxSet)
    BY <2>2, <2>3, SayTiles
  <2> QED BY <2>4 DEF x2, y2
<1> HIDE DEF middle, suffix
<1>4. Tiles(<<middle>> \o (suffix \o w), a, b, x + p, y + p)
  <2>1. Tiles(suffix \o w, a, b, middle.aoff + middle.alen, middle.boff + middle.blen)
    BY <1>1, <1>2, <1>3
  <2>2. BoxTrue(middle, a, b)
    BY <1>1, <1>2 DEF BoxTrue
  <2> QED BY <1>2, <2>1, <2>2, TilesOneMore
<1>5. Tiles(prefix \o (<<middle>> \o (suffix \o w)), a, b, x, y) /\ prefix \in Seq(BoxSet)
  BY <1>1, <1>4, SayTiles
<1> HIDE DEF prefix
<1>6. Tiles((prefix \o <<middle>> \o suffix) \o w, a, b, x, y)
  <2>1. <<middle>> \in Seq(BoxSet) /\ w \in Seq(BoxSet)
    BY <1>2 DEF Tiles
  <2> QED BY <1>3, <1>5, <2>1, ThreePieces
<1> QED BY <1>6 DEF prefix, middle, suffix

\* The shorter side within the longer one, n entries after its beginning and h before its
\* end: w says what stands before it, it, and what stands after it.
WithinFirst(w, s, t, x, m, y, l, n, h) ==
  /\ n \in Nat /\ h \in Nat /\ n + l + h = m /\ Matches(s, t, x + n, y, l)
  /\ w = Dmp!Say("delete", x, n, y, 0) \o Dmp!Say("equal", x + n, l, y, l)
            \o Dmp!Say("delete", x + n + l, h, y + l, 0)
WithinSecond(w, s, t, x, m, y, l, n, h) ==
  /\ n \in Nat /\ h \in Nat /\ n + m + h = l /\ Matches(s, t, x, y + n, m)
  /\ w = Dmp!Say("insert", x, 0, y, n) \o Dmp!Say("equal", x, m, y + n, m)
            \o Dmp!Say("insert", x + m, 0, y + n + m, h)

\* The shorter side first occurs after n entries of the longer one.
Occurs(box, n) ==
  n \in IF box.alen > box.blen THEN Dmp!FirstOccurrence(Dmp!InA(box), Dmp!InB(box))
       ELSE Dmp!FirstOccurrence(Dmp!InB(box), Dmp!InA(box))

\* The box that x, m, y and l are the numbers of.
Measures(box, x, m, y, l) == x = box.aoff /\ m = box.alen /\ y = box.boff /\ l = box.blen

\* As many entries are in them.
LEMMA InBox ==
  ASSUME a \in Seq(Entries), b \in Seq(Entries), NEW box, NEW x \in Nat, NEW m \in Nat,
         NEW y \in Nat, NEW l \in Nat, Measures(box, x, m, y, l), x + m <= Len(a), y + l <= Len(b)
  PROVE  /\ Cut(Dmp!InA(box), a, x, m) /\ Dmp!InA(box) \in Seq(Entries) /\ Len(Dmp!InA(box)) = m
         /\ Cut(Dmp!InB(box), b, y, l) /\ Dmp!InB(box) \in Seq(Entries) /\ Len(Dmp!InB(box)) = l
<1>1. Dmp!InA(box) = SubSeq(a, x + 1, x + m) /\ Dmp!InB(box) = SubSeq(b, y + 1, y + l)
  BY DEF Measures, Dmp!InA, Dmp!InB
<1>2. SubSeq(a, x + 1, x + m) \in Seq(Entries) /\ Len(SubSeq(a, x + 1, x + m)) = m
  BY Slice
<1>3. SubSeq(b, y + 1, y + l) \in Seq(Entries) /\ Len(SubSeq(b, y + 1, y + l)) = l
  BY Slice
<1> QED BY <1>1, <1>2, <1>3 DEF Cut

\* Where the one is found in the other.
LEMMA WithinIs ==
  ASSUME a \in Seq(Entries), b \in Seq(Entries), NEW box \in BoxSet, BoxTrue(box, a, b),
         NEW n, Occurs(box, n),
         NEW x \in Nat, NEW m \in Nat, NEW y \in Nat, NEW l \in Nat, Measures(box, x, m, y, l)
  PROVE  \E h : \/ WithinFirst(Dmp!Within(box, n), a, b, x, m, y, l, n, h)
               \/ WithinSecond(Dmp!Within(box, n), a, b, x, m, y, l, n, h)
<1>1. x = box.aoff /\ m = box.alen /\ y = box.boff /\ l = box.blen
  BY DEF Measures
<1>2. x + m <= Len(a) /\ y + l <= Len(b) /\ Len(a) \in Nat /\ Len(b) \in Nat
  BY <1>1 DEF BoxTrue
<1>3. Dmp!InA(box) = SubSeq(a, x + 1, x + m) /\ Dmp!InB(box) = SubSeq(b, y + 1, y + l)
  BY <1>1 DEF Dmp!InA, Dmp!InB
<1>4. Len(Dmp!InA(box)) = m /\ Len(Dmp!InB(box)) = l
  BY <1>2, InBox
<1>6. CASE m > l
  <2>1. n \in 0..(m - l) /\ Matches(Dmp!InA(box), Dmp!InB(box), n, 0, l)
    BY <1>1, <1>4, <1>6, DmpWords DEF Occurs, Dmp!FirstOccurrence
  <2>2. n \in Nat /\ 0 \in Nat
    BY <2>1
  <2>3. Matches(SubSeq(a, x + 1, x + m), SubSeq(b, y + 1, y + l), n, 0, l)
    BY <1>3, <2>1
  <2>4. Matches(a, b, x + n, y + 0, l)
    BY <1>2, <2>2, <2>3, PartsAgree
  <2>5. PICK h \in Nat : h = m - n - l /\ n + l + h = m
    BY <2>1
  <2>6. Dmp!Within(box, n) = Dmp!Say("delete", x, n, y, 0) \o Dmp!Say("equal", x + n, l, y, l)
                               \o Dmp!Say("delete", x + n + l, h, y + l, 0)
    <3>1. box.alen > box.blen /\ Smaller(m, l) = l /\ Larger(m, l) = m
      BY <1>1, <1>6 DEF Smaller, Larger
    <3>2. /\ n * 1 = n /\ n * (1 - 1) = 0 /\ h * 1 = h /\ h * (1 - 1) = 0
          /\ y + 0 = y /\ (y + 0) + l = y + l
      BY <2>2, <2>5
    <3> QED BY <1>1, <2>5, <3>1, <3>2, DmpWords DEF Dmp!Within
  <2>7. Matches(a, b, x + n, y, l)
    BY <2>4
  <2> QED BY <2>2, <2>5, <2>6, <2>7 DEF WithinFirst
<1>7. CASE ~(m > l)
  <2>1. n \in 0..(l - m) /\ Matches(Dmp!InB(box), Dmp!InA(box), n, 0, m)
    BY <1>1, <1>4, <1>7, DmpWords DEF Occurs, Dmp!FirstOccurrence
  <2>2. n \in Nat /\ 0 \in Nat
    BY <2>1
  <2>3. Matches(SubSeq(b, y + 1, y + l), SubSeq(a, x + 1, x + m), n, 0, m)
    BY <1>3, <2>1
  <2>4. Matches(a, b, x, y + n, m)
    <3>1. Matches(b, a, y + n, x + 0, m)
      BY <1>2, <2>2, <2>3, PartsAgree
    <3>2. x + 0 = x
      OBVIOUS
    <3> QED BY <3>1, <3>2 DEF Matches
  <2>5. PICK h \in Nat : h = l - n - m /\ n + m + h = l
    BY <1>7, <2>1
  <2>6. Dmp!Within(box, n) = Dmp!Say("insert", x, 0, y, n) \o Dmp!Say("equal", x, m, y + n, m)
                               \o Dmp!Say("insert", x + m, 0, y + n + m, h)
    <3>1. ~(box.alen > box.blen) /\ Smaller(m, l) = m /\ Larger(m, l) = l
      BY <1>1, <1>7 DEF Smaller, Larger
    <3>2. /\ n * 0 = 0 /\ n * (1 - 0) = n /\ h * 0 = 0 /\ h * (1 - 0) = h
          /\ x + 0 = x /\ (x + 0) + m = x + m
      BY <2>2, <2>5
    <3> QED BY <1>1, <2>5, <3>1, <3>2, DmpWords DEF Dmp!Within
  <2> QED BY <2>2, <2>4, <2>5, <2>6 DEF WithinSecond
<1> QED BY <1>6, <1>7

\* What stands before the shorter side within the longer one, it, and what stands after it.
LEMMA WithinTiles ==
  ASSUME a \in Seq(Entries), b \in Seq(Entries), NEW box \in BoxSet, BoxTrue(box, a, b),
         NEW n, Occurs(box, n), NEW w, Tiles(w, a, b, box.aoff + box.alen, box.boff + box.blen)
  PROVE  Tiles(Dmp!Within(box, n) \o w, a, b, box.aoff, box.boff)
<1>1. PICK x \in Nat, m \in Nat, y \in Nat, l \in Nat :
        x = box.aoff /\ m = box.alen /\ y = box.boff /\ l = box.blen
  BY DEF BoxSet
<1>2. x + m <= Len(a) /\ y + l <= Len(b) /\ Len(a) \in Nat /\ Len(b) \in Nat
  BY <1>1 DEF BoxTrue
<1>3. PICK h : \/ WithinFirst(Dmp!Within(box, n), a, b, x, m, y, l, n, h)
               \/ WithinSecond(Dmp!Within(box, n), a, b, x, m, y, l, n, h)
  <2>1. Measures(box, x, m, y, l)
    BY <1>1 DEF Measures
  <2> QED BY <2>1, WithinIs
<1>5. Tiles(w, a, b, x + m, y + l) /\ w \in Seq(BoxSet)
  BY <1>1 DEF Tiles
<1>6. CASE WithinFirst(Dmp!Within(box, n), a, b, x, m, y, l, n, h)
  <2> DEFINE A == Dmp!Say("delete", x, n, y, 0)
             B == Dmp!Say("equal", x + n, l, y, l)
             C == Dmp!Say("delete", x + n + l, h, y + l, 0)
  <2>1. n \in Nat /\ h \in Nat /\ n + l + h = m /\ Matches(a, b, x + n, y, l)
    BY <1>6 DEF WithinFirst
  <2>2. 0 \in Nat
    OBVIOUS
  <2>5. /\ x + n \in Nat /\ x + n + l \in Nat /\ y + l \in Nat
        /\ (x + n + l) + h = x + m /\ (y + l) + 0 = y + l /\ y + 0 = y
        /\ x + n <= Len(a) /\ x + n + l <= Len(a) /\ y + 0 <= Len(b) /\ (y + l) + 0 <= Len(b)
        /\ (x + n + l) + h <= Len(a)
    BY <1>2, <2>1
  <2>6. Dmp!Within(box, n) = A \o B \o C
    BY <1>6 DEF WithinFirst
  <2>7. Tiles(C \o w, a, b, x + n + l, y + l) /\ C \in Seq(BoxSet)
    <3>1. Tiles(w, a, b, (x + n + l) + h, (y + l) + 0)
      BY <1>5, <2>5
    <3> QED BY <2>1, <2>2, <2>5, <3>1, SayTiles
  <2>8. Tiles(B \o (C \o w), a, b, x + n, y) /\ B \in Seq(BoxSet)
    <3>2. "equal" \in {"equal", "delete", "insert"}
      OBVIOUS
    <3> HIDE DEF C
    <3> QED BY <1>2, <2>1, <2>5, <2>7, <3>2, SayTiles
  <2>9. Tiles(A \o (B \o (C \o w)), a, b, x, y) /\ A \in Seq(BoxSet)
    <3>1. Tiles(B \o (C \o w), a, b, x + n, y + 0)
      BY <2>5, <2>8
    <3> HIDE DEF B, C
    <3> QED BY <2>1, <2>2, <2>5, <3>1, SayTiles
  <2> HIDE DEF A, B, C
  <2>10. Tiles((A \o B \o C) \o w, a, b, x, y)
    BY <1>5, <2>7, <2>8, <2>9, ThreePieces
  <2> QED BY <1>1, <2>6, <2>10
<1>7. CASE WithinSecond(Dmp!Within(box, n), a, b, x, m, y, l, n, h)
  <2> DEFINE A == Dmp!Say("insert", x, 0, y, n)
             B == Dmp!Say("equal", x, m, y + n, m)
             C == Dmp!Say("insert", x + m, 0, y + n + m, h)
  <2>1. n \in Nat /\ h \in Nat /\ n + m + h = l /\ Matches(a, b, x, y + n, m)
    BY <1>7 DEF WithinSecond
  <2>2. 0 \in Nat
    OBVIOUS
  <2>5. /\ y + n \in Nat /\ y + n + m \in Nat /\ x + m \in Nat
        /\ (y + n + m) + h = y + l /\ (x + m) + 0 = x + m /\ x + 0 = x
        /\ y + n <= Len(b) /\ y + n + m <= Len(b) /\ x + 0 <= Len(a) /\ (x + m) + 0 <= Len(a)
        /\ (y + n + m) + h <= Len(b)
    BY <1>2, <2>1
  <2>6. Dmp!Within(box, n) = A \o B \o C
    BY <1>7 DEF WithinSecond
  <2>7. Tiles(C \o w, a, b, x + m, y + n + m) /\ C \in Seq(BoxSet)
    <3>1. Tiles(w, a, b, (x + m) + 0, (y + n + m) + h)
      BY <1>5, <2>5
    <3> QED BY <2>1, <2>2, <2>5, <3>1, SayTiles
  <2>8. Tiles(B \o (C \o w), a, b, x, y + n) /\ B \in Seq(BoxSet)
    <3>1. "equal" \in {"equal", "delete", "insert"}
      OBVIOUS
    <3> HIDE DEF C
    <3> QED BY <1>2, <2>1, <2>5, <2>7, <3>1, SayTiles
  <2>9. Tiles(A \o (B \o (C \o w)), a, b, x, y) /\ A \in Seq(BoxSet)
    <3>1. Tiles(B \o (C \o w), a, b, x + 0, y + n)
      BY <2>5, <2>8
    <3> HIDE DEF B, C
    <3> QED BY <2>1, <2>2, <2>5, <3>1, SayTiles
  <2> HIDE DEF A, B, C
  <2>10. Tiles((A \o B \o C) \o w, a, b, x, y)
    BY <1>5, <2>7, <2>8, <2>9, ThreePieces
  <2> QED BY <1>1, <2>6, <2>10
<1> QED BY <1>3, <1>6, <1>7

-------------------------------------------------------------------------------
(* Two searches towards one another: places that have not met.                      *)

\* Before the first place both know nothing.
LEMMA BothBegin ==
  ASSUME NEW s, NEW t, NEW h \in Nat, h > 1, NEW w,
         NEW F \in DiagonalSet(h), \A z \in (-h)..(h - 1) : F[z].x = IF z = 1 THEN 0 ELSE -1
  PROVE  Ahead(F, F, 0, 0, h, w, s, t)
<1>1. F[1].x = 0
  <2>1. 1 \in (-h)..(h - 1)
    OBVIOUS
  <2> QED BY <2>1
<1>2. RowSoFar(F, 0, 0, s, t) /\ Deep(F, 0 - 1, 0) /\ Deep(F, 0 - 2, 0 - 1)
  BY DEF RowSoFar, Deep
<1>3. Blank(F, h, 0) /\ Blank(F, h, 0 - 1)
  BY DEF Blank
<1>4. /\ Apart(F, 0 - 1, 0, F, 0 - 1, 0, w, Len(s))
      /\ Apart(F, 0 - 1, 0, F, 0 - 2, 0 - 1, w, Len(s))
      /\ Apart(F, 0, 0, F, 0 - 1, 0, w, Len(s))
  BY DEF Apart
<1> QED BY <1>1, <1>2, <1>3, <1>4 DEF Ahead

-------------------------------------------------------------------------------
(* The two searches of a box. *)

\* From the places of the row before, one edit further.
LEMMA FurthestChosen ==
  ASSUME NEW s, NEW t, NEW h \in Nat, NEW v \in ArraySet(h), NEW r \in Nat \ {0}, r < h,
         NEW c \in 0..r, NEW k1, k1 = 2 * c - r
  PROVE  EditOn(Places(v, h), r, c, k1, Dmp!Furthest(v, h, k1, r, s, t), s, t)
<1> SUFFICES \E u \in Int : /\ Chosen(Places(v, h), r, c, u)
                            /\ Dmp!Furthest(v, h, k1, r, s, t) = u + Extent(s, t, u, u - k1)
  BY DEF EditOn
<1> DEFINE F == Places(v, h)
<1>1. /\ k1 \in Int /\ h + k1 - 1 = h + (k1 - 1) /\ h + k1 + 1 = h + (k1 + 1)
      /\ k1 = -r <=> c = 0
      /\ k1 = r <=> c = r
      /\ c # 0 => k1 - 1 \in (-h)..(h - 1)
      /\ c # r => k1 + 1 \in (-h)..(h - 1)
      /\ 2 * c - r - 1 = k1 - 1 /\ 2 * c - r + 1 = k1 + 1
  OBVIOUS
<1>2. /\ c # 0 => v[h + k1 - 1] = F[k1 - 1].x /\ F[k1 - 1].x \in Int
      /\ c # r => v[h + k1 + 1] = F[k1 + 1].x /\ F[k1 + 1].x \in Int
  BY <1>1, PlacesAre
<1> HIDE DEF F
<1>3. CASE c = 0
  <2>1. Dmp!Furthest(v, h, k1, r, s, t) = F[k1 + 1].x + Extent(s, t, F[k1 + 1].x, F[k1 + 1].x - k1)
    BY <1>1, <1>2, <1>3, DmpWords DEF Dmp!Furthest
  <2>2. Chosen(F, r, c, F[k1 + 1].x)
    BY <1>1, <1>3 DEF Chosen
  <2> QED BY <1>2, <1>3, <2>1, <2>2 DEF F
<1>4. CASE c = r
  <2> DEFINE u == F[k1 - 1].x + 1
  <2>1. Dmp!Furthest(v, h, k1, r, s, t) = u + Extent(s, t, u, u - k1)
    BY <1>1, <1>2, <1>4, DmpWords DEF Dmp!Furthest
  <2>2. Chosen(F, r, c, u) /\ u \in Int
    BY <1>1, <1>2, <1>4 DEF Chosen
  <2> QED BY <2>1, <2>2 DEF F
<1>5. CASE c # 0 /\ c # r
  <2>1. CASE F[k1 - 1].x < F[k1 + 1].x
    <3> DEFINE u == F[k1 + 1].x
    <3>1. Dmp!Furthest(v, h, k1, r, s, t) = u + Extent(s, t, u, u - k1)
      BY <1>1, <1>2, <1>5, <2>1, DmpWords DEF Dmp!Furthest
    <3>2. Chosen(F, r, c, u) /\ u \in Int
      BY <1>1, <1>2, <1>5, <2>1 DEF Chosen
    <3> QED BY <3>1, <3>2 DEF F
  <2>2. CASE ~(F[k1 - 1].x < F[k1 + 1].x)
    <3> DEFINE u == F[k1 - 1].x + 1
    <3>1. Dmp!Furthest(v, h, k1, r, s, t) = u + Extent(s, t, u, u - k1)
      BY <1>1, <1>2, <1>5, <2>2, DmpWords DEF Dmp!Furthest
    <3>2. Chosen(F, r, c, u) /\ u \in Int
      <4>1. F[k1 + 1].x <= F[k1 - 1].x
        BY <1>2, <1>5, <2>2
      <4>2. c > 0
        BY <1>5
      <4> QED BY <1>1, <1>2, <1>5, <4>1, <4>2 DEF Chosen
    <3> QED BY <3>1, <3>2 DEF F
  <2> QED BY <2>1, <2>2
<1> QED BY <1>3, <1>4, <1>5

\* Before any edit there is the run of equals both begin with.
LEMMA FirstRun ==
  ASSUME NEW s, NEW t, Len(s) \in Nat, Len(t) \in Nat, NEW h \in Nat, NEW v, v[h + 1] = 0
  PROVE  Dmp!Furthest(v, h, 0, 0, s, t) = Extent(s, t, 0, 0)
<1>1. PICK z \in Int : z = 0
  OBVIOUS
<1>2. z = -z /\ h + z + 1 = h + 1 /\ 0 - z = 0
  BY <1>1, AtZero
<1>3. PICK e \in Nat : e = Extent(s, t, 0, 0)
  BY ExtentAnywhere
<1>4. Dmp!Furthest(v, h, z, z, s, t) = 0 + e
  BY <1>2, <1>3, DmpWords DEF Dmp!Furthest
<1> QED BY <1>1, <1>3, <1>4

\* Where the first search comes to.
LEMMA AheadFurthest ==
  ASSUME NEW s, NEW t, Len(s) \in Nat, Len(t) \in Nat, NEW h \in Nat, h > 1, NEW v \in ArraySet(h),
         NEW r \in Nat, r < h, NEW c \in 0..r, NEW k1, k1 = 2 * c - r, NEW G,
         Ahead(Places(v, h), G, r, c, h, Len(s) - Len(t), s, t)
  PROVE  LET x == Dmp!Furthest(v, h, k1, r, s, t) IN
         /\ x \in Nat /\ x - k1 \in Nat /\ c <= x
         /\ x >= Len(s) /\ x - k1 >= Len(t) => x = Len(s) /\ x - k1 = Len(t)
         /\ Beside(Places(v, h), r, c, x, s, t)
<1> DEFINE F == Places(v, h)
           x == Dmp!Furthest(v, h, k1, r, s, t)
<1>1. CASE r = 0
  <2>1. c = 0 /\ k1 = 0 /\ 1 \in (-h)..(h - 1)
    BY <1>1
  <2>2. v[h + 1] = 0
    <3>1. F[1].x = 0
      BY <1>1, <2>1 DEF Ahead
    <3> QED BY <2>1, <3>1, PlacesAre
  <2>3. x = Extent(s, t, 0, 0)
    BY <1>1, <2>1, <2>2, FirstRun
  <2>4. x \in Nat /\ x <= Len(s) /\ x <= Len(t)
    <3>1. 0 \in 0..Len(s) /\ 0 \in 0..Len(t)
      OBVIOUS
    <3>2. PICK l \in Nat : l = Extent(s, t, 0, 0) /\ Matches(s, t, 0, 0, l)
      BY <3>1, ExtentMatches DEF MatchesExactly
    <3>3. 0 + l <= Len(s) /\ 0 + l <= Len(t)
      BY <3>2 DEF Matches
    <3> QED BY <2>3, <3>2, <3>3
  <2> HIDE DEF x, F
  <2>5. Beside(F, r, c, x, s, t)
    BY <1>1, <2>1, <2>4 DEF Beside
  <2>6. x - k1 = x
    BY <2>1, <2>4
  <2> QED BY <2>1, <2>4, <2>5, <2>6 DEF x, F
<1>2. CASE r # 0
  <2>0. r \in Nat \ {0}
    BY <1>2
  <2>1. PICK u \in Int : /\ Chosen(F, r, c, u)
                         /\ x = u + Extent(s, t, u, u - k1)
    <3>1. EditOn(F, r, c, k1, x, s, t)
      BY <2>0, FurthestChosen
    <3> QED BY <3>1 DEF EditOn
  <2> HIDE DEF F, x
  <2>2. Row(F, r - 1, s, t)
    BY <2>0 DEF Ahead, F
  <2>3. Short(F, r - 1, r, s, t)
    <3>1. /\ Deep(G, r - 1, r) /\ Deep(G, r - 2, r - 1)
          /\ Apart(F, r - 1, r, G, r - 1, r, Len(s) - Len(t), Len(s))
          /\ Apart(F, r - 1, r, G, r - 2, r - 1, Len(s) - Len(t), Len(s))
      BY DEF Ahead, F
    <3> QED BY <2>0, <2>2, <3>1, NotAtEnd
  <2>4. LET z == 2 * c - r
            l == Extent(s, t, u, u - z)
            y == u + l
        IN  /\ y \in Nat /\ y - z \in Nat /\ c <= y
            /\ y >= Len(s) /\ y - z >= Len(t) => y = Len(s) /\ y - z = Len(t)
            /\ Beside(F, r, c, y, s, t)
    BY <2>0, <2>1, <2>2, <2>3, OneFurther
  <2> QED BY <2>1, <2>4 DEF F, x
<1> QED BY <1>1, <1>2

\* Where the other one comes to.
LEMMA BehindFurthest ==
  ASSUME NEW s, NEW t, Len(s) \in Nat, Len(t) \in Nat, NEW h \in Nat, h > 1, NEW v \in ArraySet(h),
         NEW r \in Nat, r < h, NEW c \in 0..r, NEW k1, k1 = 2 * c - r,
         r = 0 => Places(v, h)[1].x = 0, Deep(Places(v, h), r - 1, r)
  PROVE  LET x == Dmp!Furthest(v, h, k1, r, s, t) IN x \in Nat /\ c <= x
<1> DEFINE F == Places(v, h)
           x == Dmp!Furthest(v, h, k1, r, s, t)
<1>1. CASE r = 0
  <2>1. c = 0 /\ k1 = 0 /\ 1 \in (-h)..(h - 1)
    BY <1>1
  <2>2. v[h + 1] = 0
    BY <1>1, <2>1, PlacesAre
  <2>3. x = Extent(s, t, 0, 0)
    BY <1>1, <2>1, <2>2, FirstRun
  <2>4. Extent(s, t, 0, 0) \in Nat
    BY ExtentAnywhere
  <2> QED BY <2>1, <2>3, <2>4
<1>2. CASE r # 0
  <2>0. r \in Nat \ {0}
    BY <1>2
  <2>1. PICK u \in Int : /\ Chosen(F, r, c, u)
                         /\ x = u + Extent(s, t, u, u - k1)
    <3>1. EditOn(F, r, c, k1, x, s, t)
      BY <2>0, FurthestChosen
    <3> QED BY <3>1 DEF EditOn
  <2> HIDE DEF F, x
  <2>2. /\ c > 0 => 2 * (c - 1) - (r - 1) = 2 * c - r - 1 /\ c - 1 \in 0..(r - 1)
        /\ c < r => 2 * c - (r - 1) = 2 * c - r + 1 /\ c \in 0..(r - 1)
    OBVIOUS
  <2>3. /\ c > 0 => F[2 * c - r - 1].x \in Nat /\ c - 1 <= F[2 * c - r - 1].x
        /\ c < r => F[2 * c - r + 1].x \in Nat /\ c <= F[2 * c - r + 1].x
    BY <2>2 DEF Deep, F
  <2>4. c <= u /\ u \in Nat
    <3>1. CASE c < r /\ u = F[2 * c - r + 1].x
      BY <2>3, <3>1
    <3>2. CASE c > 0 /\ u = F[2 * c - r - 1].x + 1
      BY <2>3, <3>2
    <3> QED BY <2>1, <3>1, <3>2 DEF Chosen
  <2>5. u - k1 \in Nat
    <3>1. CASE c < r /\ u = F[2 * c - r + 1].x
      BY <2>4, <3>1, SMTT(60)
    <3>2. CASE c >= r
      BY <2>4, <3>2
    <3>3. CASE c > 0 /\ u = F[2 * c - r - 1].x + 1
      BY <2>4
    <3> QED BY <2>1, <3>1, <3>2, <3>3 DEF Chosen
  <2>6. Extent(s, t, u, u - k1) \in Nat
    BY <2>4, <2>5, ExtentAnywhere
  <2> QED BY <2>1, <2>4, <2>6 DEF x
<1> QED BY <1>1, <1>2

\* What a search of a box knows, at diagonal c of row d in one direction or the other.
Bisects(u, box, s, t) ==
  LET h == Dmp!Bound(box) IN
  /\ box.do = "compute" /\ box.alen > 1 /\ box.blen > 1
  /\ u.v1 \in ArraySet(h) /\ u.v2 \in ArraySet(h) /\ u.d \in 0..h
  /\ \E c \in 0..u.d :
       /\ u.k = 2 * c - u.d
       /\ u.forward => Ahead(Places(u.v1, h), Places(u.v2, h), u.d, c, h, Len(s) - Len(t), s, t)
       /\ ~u.forward => Behind(Places(u.v1, h), Places(u.v2, h), u.d, c, h, Len(s) - Len(t), s, t)

\* Half of the length of a box is no less than two when neither side is shorter.
LEMMA BoundIs ==
  ASSUME NEW box, box.alen \in Nat, box.blen \in Nat, box.alen > 1, box.blen > 1
  PROVE  Dmp!Bound(box) \in Nat /\ Dmp!Bound(box) > 1
<1>1. PICK m \in Nat, n \in Nat : m = box.alen /\ n = box.blen /\ m > 1 /\ n > 1
  OBVIOUS
<1>2. (m + n + 1) \div 2 \in Nat /\ (m + n + 1) \div 2 > 1
  BY <1>1
<1> QED BY <1>1, <1>2 DEF Dmp!Bound

\* A search begins.
LEMMA SearchBegins ==
  ASSUME NEW box, box.do = "compute", box.alen \in Nat, box.blen \in Nat, box.alen > 1,
         box.blen > 1, NEW s, NEW t
  PROVE  Bisects(Dmp!StartSearch(box), box, s, t)
<1>1. PICK h \in Nat : h = Dmp!Bound(box) /\ h > 1
  BY BoundIs
<1> DEFINE v == [z \in 0..(2 * h - 1) |-> IF z = h + 1 THEN 0 ELSE -1]
           F == Places(v, h)
<1>2. v \in ArraySet(h)
  BY DEF ArraySet
<1>3. \A z \in (-h)..(h - 1) : F[z].x = IF z = 1 THEN 0 ELSE -1
  <2> SUFFICES ASSUME NEW z \in (-h)..(h - 1) PROVE F[z].x = IF z = 1 THEN 0 ELSE -1
    OBVIOUS
  <2>1. F[z].x = v[h + z]
    BY <1>2, PlacesAre
  <2>2. h + z \in 0..(2 * h - 1) /\ (h + z = h + 1 <=> z = 1)
    OBVIOUS
  <2> HIDE DEF F
  <2> QED BY <2>1, <2>2
<1>4. Dmp!StartSearch(box) = Dmp!Search(v, v, 0, 0, TRUE)
  BY <1>1 DEF Dmp!StartSearch
<1>5. F \in DiagonalSet(h)
  BY <1>2, PlacesAre
<1> HIDE DEF v, F
<1>6. Ahead(F, F, 0, 0, h, Len(s) - Len(t), s, t)
  BY <1>1, <1>3, <1>5, BothBegin
<1> DEFINE u == Dmp!StartSearch(box)
<1>7. u.v1 = v /\ u.v2 = v /\ u.d = 0 /\ u.k = 0 /\ u.forward = TRUE
  <2>1. u = Dmp!Search(v, v, 0, 0, TRUE)
    BY <1>4
  <2> HIDE DEF u
  <2> QED BY <2>1 DEF Dmp!Search
<1> HIDE DEF u
<1>8. 0 \in 0..u.d /\ u.d \in 0..h /\ u.k = 2 * 0 - u.d
  BY <1>7
<1>9. u.forward /\ Ahead(Places(u.v1, h), Places(u.v2, h), u.d, 0, h, Len(s) - Len(t), s, t)
  BY <1>6, <1>7 DEF F
<1>10. Bisects(u, box, s, t)
  BY <1>1, <1>2, <1>7, <1>8, <1>9 DEF Bisects
<1> QED BY <1>10 DEF u

\* The turn after a place of the first search.
LEMMA AheadTurns ==
  ASSUME NEW box, box.do = "compute", box.alen > 1, box.blen > 1, NEW h \in Nat,
         h = Dmp!Bound(box), NEW s, NEW t, NEW u, NEW r \in Nat, r < h, u.d = r, NEW c \in 0..r,
         u.k = 2 * c - r, u.forward = TRUE, NEW p \in ArraySet(h), NEW q \in ArraySet(h),
         Ahead(Places(p, h), Places(q, h), r, c + 1, h, Len(s) - Len(t), s, t)
  PROVE  Bisects(Dmp!NextTurn(u, p, q), box, s, t)
<1> DEFINE w == Dmp!NextTurn(u, p, q)
<1>1. CASE c < r
  <2>1. u.k < u.d
    BY <1>1
  <2>2. w = Dmp!Search(p, q, r, u.k + 2, TRUE)
    BY <2>1 DEF Dmp!NextTurn
  <2> HIDE DEF w
  <2>3. w.v1 = p /\ w.v2 = q /\ w.d = r /\ w.k = u.k + 2 /\ w.forward = TRUE
    BY <2>2 DEF Dmp!Search
  <2>4. c + 1 \in 0..r /\ u.k + 2 = 2 * (c + 1) - r /\ r \in 0..h
    BY <1>1
  <2>9. Bisects(w, box, s, t)
    BY <2>3, <2>4 DEF Bisects
  <2> QED BY <2>9 DEF w
<1>2. CASE c = r
  <2>1. ~(u.k < u.d)
    BY <1>2
  <2>2. w = Dmp!Search(p, q, r, -r, FALSE)
    BY <2>1 DEF Dmp!NextTurn
  <2> HIDE DEF w
  <2>3. w.v1 = p /\ w.v2 = q /\ w.d = r /\ w.k = -r /\ w.forward = FALSE
    BY <2>2 DEF Dmp!Search
  <2>4. 0 \in 0..r /\ -r = 2 * 0 - r /\ r \in 0..h
    OBVIOUS
  <2>5. Behind(Places(p, h), Places(q, h), r, 0, h, Len(s) - Len(t), s, t)
    BY <1>2, AheadToBehind
  <2>9. Bisects(w, box, s, t)
    BY <2>3, <2>4, <2>5 DEF Bisects
  <2> QED BY <2>9 DEF w
<1> QED BY <1>1, <1>2

\* And after one of the other one.
LEMMA BehindTurns ==
  ASSUME NEW box, box.do = "compute", box.alen > 1, box.blen > 1, NEW h \in Nat,
         h = Dmp!Bound(box), NEW s, NEW t, Len(s) \in Nat, Len(t) \in Nat, NEW u, NEW r \in Nat,
         r < h, u.d = r, NEW c \in 0..r,
         u.k = 2 * c - r, u.forward = FALSE, NEW p \in ArraySet(h), NEW q \in ArraySet(h),
         Behind(Places(p, h), Places(q, h), r, c + 1, h, Len(s) - Len(t), s, t)
  PROVE  Bisects(Dmp!NextTurn(u, p, q), box, s, t)
<1> DEFINE w == Dmp!NextTurn(u, p, q)
<1>1. CASE c < r
  <2>1. u.k < u.d
    BY <1>1
  <2>2. w = Dmp!Search(p, q, r, u.k + 2, FALSE)
    BY <2>1 DEF Dmp!NextTurn
  <2> HIDE DEF w
  <2>3. w.v1 = p /\ w.v2 = q /\ w.d = r /\ w.k = u.k + 2 /\ w.forward = FALSE
    BY <2>2 DEF Dmp!Search
  <2>4. c + 1 \in 0..r /\ u.k + 2 = 2 * (c + 1) - r /\ r \in 0..h
    BY <1>1
  <2>9. Bisects(w, box, s, t)
    BY <2>3, <2>4 DEF Bisects
  <2> QED BY <2>9 DEF w
<1>2. CASE c = r
  <2>1. ~(u.k < u.d)
    BY <1>2
  <2>2. w = Dmp!Search(p, q, r + 1, -(r + 1), TRUE)
    BY <2>1 DEF Dmp!NextTurn
  <2> HIDE DEF w
  <2>3. w.v1 = p /\ w.v2 = q /\ w.d = r + 1 /\ w.k = -(r + 1) /\ w.forward = TRUE
    BY <2>2 DEF Dmp!Search
  <2>4. 0 \in 0..(r + 1) /\ -(r + 1) = 2 * 0 - (r + 1) /\ r + 1 \in 0..h
    OBVIOUS
  <2>5. Ahead(Places(p, h), Places(q, h), r + 1, 0, h, Len(s) - Len(t), s, t)
    BY <1>2, BehindToAhead
  <2>9. Bisects(w, box, s, t)
    BY <2>3, <2>4, <2>5 DEF Bisects
  <2> QED BY <2>9 DEF w
<1> QED BY <1>1, <1>2

\* Two pieces of work before the rest.
LEMMA TwoPieces ==
  ASSUME NEW s, NEW t, NEW x, NEW y, NEW p \in BoxSet, NEW q \in BoxSet, NEW w,
         Tiles(<<p>> \o (<<q>> \o w), s, t, x, y), w \in Seq(BoxSet)
  PROVE  Tiles(<<p, q>> \o w, s, t, x, y)
<1> DEFINE A == <<p>>
           B == <<q>>
<1>1. A \in Seq(BoxSet) /\ B \in Seq(BoxSet)
  OBVIOUS
<1>2. A \o B = <<p, q>>
  <2> DEFINE f == <<p>> \o <<q>>
             g == <<p, q>>
  <2>1. <<p>> \in Seq(BoxSet) /\ <<q>> \in Seq(BoxSet) /\ Len(<<p>>) = 1 /\ Len(<<q>>) = 1
    OBVIOUS
  <2>2. /\ f \in Seq(BoxSet) /\ Len(f) = 1 + 1
        /\ \A n \in 1..(1 + 1) : f[n] = IF n <= 1 THEN <<p>>[n] ELSE <<q>>[n - 1]
    BY <2>1, EndToEnd
  <2>3. g \in Seq(BoxSet) /\ Len(g) = 2 /\ g[1] = p /\ g[2] = q
    OBVIOUS
  <2> HIDE DEF f, g
  <2>4. f[1] = p /\ f[2] = q
    <3>1. 1 \in 1..(1 + 1) /\ 2 \in 1..(1 + 1) /\ 1 <= 1 /\ ~(2 <= 1) /\ 2 - 1 = 1
      OBVIOUS
    <3>2. f[1] = <<p>>[1] /\ f[2] = <<q>>[1]
      BY <2>2, <3>1
    <3> QED BY <3>2
  <2>5. \A n \in 1..Len(f) : n = 1 \/ n = 2
    BY <2>2
  <2>6. f = g
    BY <2>2, <2>3, <2>4, <2>5, SeqEqual
  <2> QED BY <2>6 DEF f, g
<1> HIDE DEF A, B
<1>3. A \o (B \o w) = (A \o B) \o w
  <2>1. Joins(BoxSet)
    BY ThreeJoin
  <2> QED BY <1>1, <2>1 DEF Joins
<1>4. Tiles((A \o B) \o w, s, t, x, y)
  BY <1>3 DEF A, B
<1> QED BY <1>2, <1>4

\* A box cut in two at a place within it.
LEMMA SplitTiles ==
  ASSUME a \in Seq(Entries), b \in Seq(Entries), NEW box \in BoxSet, BoxTrue(box, a, b), NEW w,
         Tiles(w, a, b, box.aoff + box.alen, box.boff + box.blen),
         NEW x \in 0..box.alen, NEW y \in 0..box.blen
  PROVE  Tiles(<<Dmp!Box("main", box.aoff, x, box.boff, y),
                 Dmp!Box("main", box.aoff + x, box.alen - x, box.boff + y, box.blen - y)>> \o w,
               a, b, box.aoff, box.boff)
<1>1. PICK l \in Nat, m \in Nat, o \in Nat, n \in Nat :
        l = box.aoff /\ m = box.alen /\ o = box.boff /\ n = box.blen
  BY DEF BoxSet
<1>2. l + m <= Len(a) /\ o + n <= Len(b) /\ Len(a) \in Nat /\ Len(b) \in Nat
  BY <1>1 DEF BoxTrue
<1> DEFINE p == Dmp!Box("main", l, x, o, y)
           q == Dmp!Box("main", l + x, m - x, o + y, n - y)
<1>3. /\ x \in Nat /\ y \in Nat /\ m - x \in Nat /\ n - y \in Nat /\ l + x \in Nat /\ o + y \in Nat
      /\ l + x <= Len(a) /\ o + y <= Len(b) /\ (l + x) + (m - x) = l + m
      /\ (o + y) + (n - y) = o + n
  <2>1. x \in 0..m /\ y \in 0..n
    BY <1>1
  <2> HIDE DEF p, q
  <2> QED BY <1>2, <2>1
<1>4. p \in BoxSet /\ p.do = "main" /\ p.aoff = l /\ p.alen = x /\ p.boff = o /\ p.blen = y
  BY <1>3 DEF Dmp!Box, BoxSet
<1>5. /\ q \in BoxSet /\ q.do = "main" /\ q.aoff = l + x /\ q.alen = m - x
      /\ q.boff = o + y /\ q.blen = n - y
  BY <1>3 DEF Dmp!Box, BoxSet
<1> HIDE DEF p, q
<1>6. BoxTrue(p, a, b)
  BY <1>3, <1>4 DEF BoxTrue
<1>7. BoxTrue(q, a, b)
  BY <1>2, <1>3, <1>5 DEF BoxTrue
<1>8. Tiles(<<q>> \o w, a, b, l + x, o + y)
  <2>1. Tiles(w, a, b, q.aoff + q.alen, q.boff + q.blen)
    BY <1>1, <1>3, <1>5
  <2> QED BY <1>5, <1>7, <2>1, TilesOneMore
<1>9. Tiles(<<p>> \o (<<q>> \o w), a, b, l, o)
  <2>1. Tiles(<<q>> \o w, a, b, p.aoff + p.alen, p.boff + p.blen)
    BY <1>4, <1>8
  <2> QED BY <1>4, <1>6, <2>1, TilesOneMore
<1>10. w \in Seq(BoxSet)
  BY DEF Tiles
<1>11. Tiles(<<p, q>> \o w, a, b, l, o)
  BY <1>4, <1>5, <1>9, <1>10, TwoPieces
<1> QED BY <1>1, <1>11 DEF p, q

\* One turn of the first search: where it meets the other one is within both sequences;
\* where it does not, it has one place more.
LEMMA AheadStep ==
  ASSUME NEW s, NEW t, NEW n \in Nat, n = Len(s), NEW m \in Nat, m = Len(t),
         NEW h \in Nat, h > 1, NEW p \in ArraySet(h), NEW q \in ArraySet(h), NEW r \in Nat, r < h,
         NEW c \in 0..r, NEW k1, k1 = 2 * c - r, NEW w, w = n - m, NEW o, o = h + w - k1,
         Ahead(Places(p, h), Places(q, h), r, c, h, w, s, t),
         NEW x, x = Dmp!Furthest(p, h, k1, r, s, t)
  PROVE  AheadTurn(p, q, h, r, c, w, x, s, t)
<1>1. /\ x \in Nat /\ x - k1 \in Nat /\ c <= x
      /\ x >= n /\ x - k1 >= m => x = n /\ x - k1 = m
      /\ Beside(Places(p, h), r, c, x, s, t)
  <2>1. Ahead(Places(p, h), Places(q, h), r, c, h, Len(s) - Len(t), s, t)
    OBVIOUS
  <2> QED BY <2>1, AheadFurthest
<1>2. w \in Int /\ k1 \in Int
  OBVIOUS
<1>3. ASSUME w % 2 # 0, Meet(q, o, x, n) PROVE x \in 0..n /\ x - k1 \in 0..m
  <2>1. o \in 0..(2 * h - 1) /\ q[o] # -1
    BY <1>3 DEF Meet, ArraySet
  <2>2. PICK z \in (-h)..(h - 1) : z = w - k1 /\ h + z = o
    <3>1. w - k1 \in (-h)..(h - 1) /\ h + (w - k1) = o
      BY <1>2, <2>1
    <3> QED BY <3>1
  <2>3. \A g \in (-h)..(h - 1) : Places(q, h)[g].x = q[h + g]
    BY PlacesAre
  <2>4. Places(q, h)[z].x # -1
    BY <2>1, <2>2, <2>3
  <2>5. Facing(c, r, z, w)
    BY <1>2, <2>2 DEF Facing
  <2>6. Stops(c, r, x, n, m)
    BY <1>1 DEF Stops
  <2>7. x \in Nat /\ Beside(Places(p, h), r, c, x, s, t)
    BY <1>1
  <2>8. x <= n /\ x - (2 * c - r) <= m
    BY <1>3, <2>4, <2>5, <2>6, <2>7, AheadInside
  <2> QED BY <1>1, <2>8
<1>4. ASSUME ~(w % 2 # 0 /\ Meet(q, o, x, n)), NEW v, v = [p EXCEPT ![h + k1] = x]
      PROVE  v \in ArraySet(h) /\ Ahead(Places(v, h), Places(q, h), r, c + 1, h, w, s, t)
  <2>0. PICK E : E = [x |-> x]
    OBVIOUS
  <2>1. /\ v \in ArraySet(h) /\ E \in Spot /\ E.x = x
        /\ Placed(Places(p, h), Places(v, h), r, c, E)
    <3>1. Put(p, v, h, k1, x) /\ OnRow(k1, c, r)
      BY <1>4 DEF Put, OnRow
    <3>2. x \in Int
      BY <1>1
    <3> QED BY <2>0, <3>1, <3>2, PlacePut
  <2>2. AheadFree(Places(q, h), r, c, x, w, n)
    <3>1. Deep(Places(q, h), r - 1, r)
      BY DEF Ahead
    <3>2. o = h + w - (2 * c - r)
      OBVIOUS
    <3> QED BY <1>1, <1>2, <1>4, <3>1, <3>2, AheadApart
  <2>3. Ahead(Places(v, h), Places(q, h), r, c + 1, h, w, s, t)
    <3>1. PICK e \in Spot : e = E
      BY <2>1
    <3>2. /\ e.x \in Nat /\ e.x - (2 * c - r) \in Nat /\ c <= e.x
          /\ Placed(Places(p, h), Places(v, h), r, c, e)
      BY <1>1, <2>1, <3>1
    <3>3. e.x >= Len(s) /\ e.x - (2 * c - r) >= Len(t) =>
            e.x = Len(s) /\ e.x - (2 * c - r) = Len(t)
      BY <1>1, <2>1, <3>1
    <3>4. Beside(Places(p, h), r, c, e.x, s, t) /\ AheadFree(Places(q, h), r, c, e.x, w, Len(s))
      BY <1>1, <2>1, <2>2, <3>1
    <3>5. Len(s) \in Nat /\ Len(t) \in Nat /\ w = Len(s) - Len(t)
      OBVIOUS
    <3> QED BY <3>2, <3>3, <3>4, <3>5, AheadGrows
  <2> QED BY <2>1, <2>3
<1> QED BY <1>3, <1>4 DEF AheadTurn

\* And one of the other.
LEMMA BehindStep ==
  ASSUME NEW s, NEW t, NEW n \in Nat, n = Len(s), NEW m \in Nat, m = Len(t),
         NEW h \in Nat, h > 1, NEW p \in ArraySet(h), NEW q \in ArraySet(h), NEW r \in Nat, r < h,
         NEW c \in 0..r, NEW k1, k1 = 2 * c - r, NEW w, w = n - m, NEW o, o = h + w - k1,
         Behind(Places(p, h), Places(q, h), r, c, h, w, s, t),
         NEW u, NEW v, Len(u) = n, Len(v) = m, NEW x, x = Dmp!Furthest(q, h, k1, r, u, v)
  PROVE  BehindTurn(p, q, h, r, c, w, x, s, t)
<1>1. x \in Nat /\ c <= x
  <2>1. (r = 0 => Places(q, h)[1].x = 0) /\ Deep(Places(q, h), r - 1, r)
    BY DEF Behind
  <2> QED BY <2>1, BehindFurthest
<1>2. w \in Int /\ k1 \in Int
  OBVIOUS
<1>3. ASSUME w % 2 = 0, Meet(p, o, x, n) PROVE p[o] \in 0..n /\ h + p[o] - o \in 0..m
  <2>1. o \in 0..(2 * h - 1) /\ p[o] # -1
    BY <1>3 DEF Meet, ArraySet
  <2>2. PICK z \in (-h)..(h - 1) : z = w - k1 /\ h + z = o
    <3>1. w - k1 \in (-h)..(h - 1) /\ h + (w - k1) = o
      BY <1>2, <2>1
    <3> QED BY <3>1
  <2>3. \A g \in (-h)..(h - 1) : Places(p, h)[g].x = p[h + g]
    BY PlacesAre
  <2>4. Places(p, h)[z].x = p[o] /\ Places(p, h)[z].x # -1
    BY <2>1, <2>2, <2>3
  <2>5. Facing(c, r, z, w)
    BY <1>2, <2>2 DEF Facing
  <2>6. PICK y : y = p[o]
    OBVIOUS
  <2>7. Inside(y, y - z, n, m)
    BY <1>3, <2>4, <2>5, <2>6, BehindInside
  <2>8. y \in 0..n /\ y - z \in 0..m /\ h + y - o = y - z
    BY <2>2, <2>7 DEF Inside
  <2> QED BY <2>6, <2>8
<1>4. ASSUME ~(w % 2 = 0 /\ Meet(p, o, x, n)), NEW y, y = [q EXCEPT ![h + k1] = x]
      PROVE  y \in ArraySet(h) /\ Behind(Places(p, h), Places(y, h), r, c + 1, h, w, s, t)
  <2>0. PICK E : E = [x |-> x]
    OBVIOUS
  <2>1. /\ y \in ArraySet(h) /\ E \in Spot /\ E.x = x
        /\ Placed(Places(q, h), Places(y, h), r, c, E)
    <3>1. Put(q, y, h, k1, x) /\ OnRow(k1, c, r)
      BY <1>4 DEF Put, OnRow
    <3>2. x \in Int
      BY <1>1
    <3> QED BY <2>0, <3>1, <3>2, PlacePut
  <2>2. BehindFree(Places(p, h), r, c, x, w, n)
    <3>1. RowSoFar(Places(p, h), r, r + 1, s, t)
      BY DEF Behind
    <3>2. o = h + w - (2 * c - r)
      OBVIOUS
    <3> QED BY <1>1, <1>2, <1>4, <3>1, <3>2, BehindApart
  <2>3. Behind(Places(p, h), Places(y, h), r, c + 1, h, w, s, t)
    <3>1. PICK e \in Spot : e = E
      BY <2>1
    <3>2. /\ e.x \in Nat /\ c <= e.x
          /\ Placed(Places(q, h), Places(y, h), r, c, e)
      BY <1>1, <2>1, <3>1
    <3>3. BehindFree(Places(p, h), r, c, e.x, w, Len(s))
      BY <2>1, <2>2, <3>1
    <3>5. Len(s) \in Nat /\ Len(t) \in Nat /\ w = Len(s) - Len(t)
      OBVIOUS
    <3> QED BY <3>2, <3>3, <3>5, BehindGrows
  <2> QED BY <2>1, <2>3
<1> QED BY <1>3, <1>4 DEF BehindTurn

-------------------------------------------------------------------------------
(* Its steps. *)

\* What there is to do tiles what is left of both sequences, and what has been said of
\* them leads there; a search knows what it has to of the first box.  Then what remains of
\* opcodes_list follows on what has been merged.
DmpInv ==
  engine = "dmp" =>
    /\ a \in Seq(Entries) /\ b \in Seq(Entries) /\ i \in Nat /\ j \in Nat
    /\ pc \in {"divide", "merge", "done"}
    /\ NoneEmpty(list) /\ NoneEmpty(ops)
    /\ pc = "divide" => Tiles(work, a, b, i, j) /\ SaidUpTo(list, a, b, i, j) /\ ops = <<>>
    /\ search # <<>> =>
         /\ pc = "divide" /\ work # <<>>
         /\ Bisects(search, Head(work), Dmp!InA(Head(work)), Dmp!InB(Head(work)))
    /\ pc = "merge" => \E x, y : Remains(list, a, b, x, y) /\ SaidUpTo(ops, a, b, x, y)
    /\ pc = "done" => SaidUpTo(ops, a, b, Len(a), Len(b))

\* At the start one box is the whole of both.
LEMMA DmpInvInit == Init => DmpInv
<1> SUFFICES ASSUME Init, engine = "dmp" PROVE DmpInv
  BY DEF DmpInv
<1>1. a \in Seq(Entries) /\ b \in Seq(Entries)
  <2>1. a \in Upto(MaxText) /\ b \in Upto(MaxText)
    BY DEF Init, TextEngines
  <2> QED BY <2>1, EngineAssumption DEF Upto, EngineAssumption
<1>2. Dmp!Start
  BY DEF Init
<1>3. PICK x \in Nat, y \in Nat : x = Len(a) /\ y = Len(b)
  BY <1>1
<1> DEFINE box == Dmp!Box("main", 0, x, 0, y)
<1>4. /\ box \in BoxSet /\ box.do = "main" /\ box.aoff = 0 /\ box.alen = x
      /\ box.boff = 0 /\ box.blen = y
  BY DEF Dmp!Box, BoxSet
<1>5. work = <<box>> /\ search = <<>> /\ i = 0 /\ j = 0 /\ list = <<>> /\ ops = <<>> /\ pc = "divide"
  BY <1>2, <1>3 DEF Dmp!Start
<1> HIDE DEF box
<1>6. BoxTrue(box, a, b)
  BY <1>3, <1>4 DEF BoxTrue
<1>7. Tiles(<<box>>, a, b, 0, 0)
  <2>1. <<box>> \in Seq(BoxSet) /\ Len(<<box>>) = 1 /\ <<box>>[1] = box /\ <<box>> # <<>>
    BY <1>4
  <2>2. \A n \in 1..1 : n = 1
    OBVIOUS
  <2>3. \A n \in 1..Len(<<box>>) :
          /\ BoxTrue(<<box>>[n], a, b)
          /\ <<box>>[n].aoff = IF n = 1 THEN 0 ELSE <<box>>[n - 1].aoff + <<box>>[n - 1].alen
          /\ <<box>>[n].boff = IF n = 1 THEN 0 ELSE <<box>>[n - 1].boff + <<box>>[n - 1].blen
    BY <1>4, <1>6, <2>1, <2>2
  <2> QED BY <1>3, <1>4, <2>1, <2>3 DEF Tiles
<1> QED BY <1>1, <1>5, <1>7, NothingSaid DEF DmpInv

\* What is known of the first box.
LEMMA FirstBox ==
  ASSUME DmpInv, engine = "dmp", pc = "divide", work # <<>>
  PROVE  /\ a \in Seq(Entries) /\ b \in Seq(Entries)
         /\ Head(work) \in BoxSet /\ BoxTrue(Head(work), a, b)
         /\ Head(work).aoff = i /\ Head(work).boff = j
         /\ Tiles(Tail(work), a, b, Head(work).aoff + Head(work).alen,
                                    Head(work).boff + Head(work).blen)
         /\ Dmp!InA(Head(work)) \in Seq(Entries) /\ Len(Dmp!InA(Head(work))) = Head(work).alen
         /\ Dmp!InB(Head(work)) \in Seq(Entries) /\ Len(Dmp!InB(Head(work))) = Head(work).blen
<1>1. a \in Seq(Entries) /\ b \in Seq(Entries) /\ Tiles(work, a, b, i, j)
  BY DEF DmpInv
<1>2. PICK box : box = Head(work)
  OBVIOUS
<1>3. /\ box \in BoxSet /\ BoxTrue(box, a, b) /\ box.aoff = i /\ box.boff = j
      /\ Tiles(Tail(work), a, b, box.aoff + box.alen, box.boff + box.blen)
  BY <1>1, <1>2, TilesTail
<1>4. PICK x \in Nat, m \in Nat, y \in Nat, n \in Nat :
        x = box.aoff /\ m = box.alen /\ y = box.boff /\ n = box.blen
  BY <1>3 DEF BoxSet
<1>5. x + m <= Len(a) /\ y + n <= Len(b)
  BY <1>3, <1>4 DEF BoxTrue
<1>6. /\ SubSeq(a, x + 1, x + m) \in Seq(Entries) /\ Len(SubSeq(a, x + 1, x + m)) = m
      /\ SubSeq(b, y + 1, y + n) \in Seq(Entries) /\ Len(SubSeq(b, y + 1, y + n)) = n
  BY <1>1, <1>5, Slice
<1> QED BY <1>1, <1>2, <1>3, <1>4, <1>6 DEF Dmp!InA, Dmp!InB

\* Other pieces in the place of the first one.
LEMMA DmpBecomes ==
  ASSUME DmpInv, engine = "dmp", pc = "divide", engine' = engine, NEW pieces,
         Dmp!Becomes(pieces), search' = <<>>, Tiles(pieces \o Tail(work), a, b, i, j)
  PROVE  DmpInv'
<1>1. UNCHANGED <<a, b, i, j, list, ops, pc>> /\ work' = pieces \o Tail(work)
  BY DEF Dmp!Becomes
<1>2. Tiles(work', a', b', i', j')
  BY <1>1
<1> QED BY <1>1, <1>2 DEF DmpInv

\* What two sequences have in common at their beginnings, and then at their ends.
LEMMA TrimEnds ==
  ASSUME NEW S, NEW s \in Seq(S), NEW t \in Seq(S), NEW m \in Nat, m = Len(s), NEW n \in Nat,
         n = Len(t), NEW p, p = Extent(s, t, 0, 0), NEW q,
         q = Extent(Dmp!Reverse(SubSeq(s, p + 1, m)), Dmp!Reverse(SubSeq(t, p + 1, n)), 0, 0)
  PROVE  /\ p \in Nat /\ q \in Nat /\ p + q <= m /\ p + q <= n
         /\ Matches(s, t, 0, 0, p) /\ Matches(s, t, m - q, n - q, q)
<1>1. p \in Nat /\ Matches(s, t, 0, 0, p)
  <2>1. 0 \in 0..Len(s) /\ 0 \in 0..Len(t) /\ Len(s) \in Nat /\ Len(t) \in Nat
    OBVIOUS
  <2> QED BY <2>1, ExtentMatches DEF MatchesExactly
<1>2. p <= m /\ p <= n
  BY <1>1 DEF Matches
<1>3. PICK g \in Nat, h \in Nat : g = m - p /\ h = n - p
  BY <1>1, <1>2
<1>4. p + g = m /\ p + h = n
  BY <1>1, <1>3, SMTT(60)
<1> DEFINE u == SubSeq(s, p + 1, m)
           v == SubSeq(t, p + 1, n)
<1>5. u \in Seq(S) /\ v \in Seq(S) /\ Len(u) = g /\ Len(v) = h
  <2>1. SubSeq(s, p + 1, p + g) \in Seq(S) /\ Len(SubSeq(s, p + 1, p + g)) = g
    BY <1>1, <1>4, Slice, SMTT(60)
  <2>2. SubSeq(t, p + 1, p + h) \in Seq(S) /\ Len(SubSeq(t, p + 1, p + h)) = h
    BY <1>1, <1>4, Slice
  <2> QED BY <1>4, <2>1, <2>2
<1>6. q = Extent(Dmp!Reverse(u), Dmp!Reverse(v), 0, 0)
  OBVIOUS
<1> HIDE DEF u, v
<1>7. q \in Nat /\ q <= g /\ q <= h /\ Matches(u, v, g - q, h - q, q)
  BY <1>5, <1>6, EndsAlike
<1>9. p + (g - q) = m - q /\ p + (h - q) = n - q /\ p + q <= m /\ p + q <= n
  <2>1. q \in Nat /\ q <= g /\ q <= h /\ p \in Nat
    BY <1>1, <1>7
  <2> QED BY <1>4, <2>1, EndsMeet
<1>8. Matches(s, t, p + (g - q), p + (h - q), q)
  <2>1. PICK c \in Nat, e \in Nat : c = g - q /\ e = h - q
    BY <1>7
  <2>2. Matches(SubSeq(s, p + 1, p + g), SubSeq(t, p + 1, p + h), c, e, q)
    BY <1>4, <1>7, <2>1 DEF u, v
  <2>3. p + g <= Len(s) /\ p + h <= Len(t) /\ p \in Nat /\ q \in Nat
    BY <1>1, <1>4, <1>7
  <2>4. Matches(s, t, p + c, p + e, q)
    BY <2>2, <2>3, PartsAgree
  <2> QED BY <2>1, <2>4
<1> QED BY <1>1, <1>7, <1>8, <1>9

\* What two pieces have in common at their beginnings, and then at their ends, both have
\* there.
TrimAt(u, v, x, m, y, n, p, q) ==
  /\ p \in Nat /\ q \in Nat /\ p + q <= m /\ p + q <= n
  /\ Matches(u, v, 0, 0, p) /\ Matches(u, v, m - q, n - q, q)
  /\ Matches(a, b, x, y, p) /\ Matches(a, b, x + m - q, y + n - q, q)

\* What is trimmed of a box is that.
LEMMA TrimmedEnds ==
  ASSUME a \in Seq(Entries), b \in Seq(Entries), NEW box, NEW x \in Nat, NEW m \in Nat,
         NEW y \in Nat, NEW n \in Nat, Measures(box, x, m, y, n), x + m <= Len(a), y + n <= Len(b),
         NEW u, u = Dmp!InA(box), NEW v, v = Dmp!InB(box), NEW p, p = Dmp!Extent(u, v, 0, 0),
         NEW q, q = Dmp!Extent(Dmp!Reverse(SubSeq(u, p + 1, box.alen)),
                               Dmp!Reverse(SubSeq(v, p + 1, box.blen)), 0, 0)
  PROVE  TrimAt(u, v, x, m, y, n, p, q)
<1>1. u \in Seq(Entries) /\ v \in Seq(Entries) /\ m = Len(u) /\ n = Len(v)
  BY InBox
<1>2. u = SubSeq(a, x + 1, x + m) /\ v = SubSeq(b, y + 1, y + n) /\ box.alen = m /\ box.blen = n
  BY DEF Measures, Dmp!InA, Dmp!InB
<1>3. /\ p = Extent(u, v, 0, 0)
      /\ q = Extent(Dmp!Reverse(SubSeq(u, p + 1, m)), Dmp!Reverse(SubSeq(v, p + 1, n)), 0, 0)
  BY <1>2, DmpWords
<1>4. /\ p \in Nat /\ q \in Nat /\ p + q <= m /\ p + q <= n
      /\ Matches(u, v, 0, 0, p) /\ Matches(u, v, m - q, n - q, q)
  <2>1. PICK S : S = Entries
    OBVIOUS
  <2>2. PICK c, e : c = u /\ e = v
    OBVIOUS
  <2> QED BY <1>1, <1>3, <2>1, <2>2, TrimEnds
<1>5. Matches(a, b, x, y, p)
  <2>1. Matches(a, b, x + 0, y + 0, p)
    <3>1. 0 \in Nat /\ Matches(SubSeq(a, x + 1, x + m), SubSeq(b, y + 1, y + n), 0, 0, p)
      BY <1>2, <1>4
    <3> QED BY <1>4, <3>1, PartsAgree
  <2> QED BY <2>1
<1>6. Matches(a, b, x + m - q, y + n - q, q)
  <2>1. PICK g \in Nat, h \in Nat : g = m - q /\ h = n - q
    BY <1>4, SMTT(60)
  <2>2. Matches(SubSeq(a, x + 1, x + m), SubSeq(b, y + 1, y + n), g, h, q)
    BY <1>2, <1>4, <2>1
  <2>3. Matches(a, b, x + g, y + h, q)
    BY <1>4, <2>2, PartsAgree
  <2>4. x + g = x + m - q /\ y + h = y + n - q
    BY <1>4, <2>1
  <2> QED BY <2>3, <2>4
<1> QED BY <1>4, <1>5, <1>6 DEF TrimAt

\* A box of which one side is empty, or whose sides are equal, or the ends of them.
LEMMA DmpTrim ==
  ASSUME DmpInv, engine = "dmp", Dmp!Trim, engine' = engine
  PROVE  DmpInv'
<1> DEFINE box == Head(work)
           u == Dmp!InA(box)
           v == Dmp!InB(box)
           p == Dmp!Extent(u, v, 0, 0)
           s == Dmp!Extent(Dmp!Reverse(SubSeq(u, p + 1, box.alen)),
                           Dmp!Reverse(SubSeq(v, p + 1, box.blen)), 0, 0)
           prefix == Dmp!Say("equal", box.aoff, p, box.boff, p)
           middle == Dmp!Box("compute", box.aoff + p, box.alen - p - s,
                                        box.boff + p, box.blen - p - s)
           suffix == Dmp!Say("equal", box.aoff + box.alen - s, s, box.boff + box.blen - s, s)
           whole == Dmp!Say("equal", box.aoff, box.alen, box.boff, box.blen)
           pieces == IF box.alen = 0 THEN Dmp!Inserted(box)
                     ELSE IF box.blen = 0 THEN Dmp!Deleted(box)
                     ELSE IF u = v THEN whole
                     ELSE prefix \o <<middle>> \o suffix
           w == Tail(work)
<1>1. pc = "divide" /\ search = <<>> /\ work # <<>> /\ search' = search
  BY DEF Dmp!Trim, Dmp!Working
<1>2. Dmp!Becomes(pieces)
  BY DEF Dmp!Trim
<1>3. /\ a \in Seq(Entries) /\ b \in Seq(Entries) /\ box \in BoxSet /\ BoxTrue(box, a, b)
      /\ box.aoff = i /\ box.boff = j
      /\ Tiles(w, a, b, box.aoff + box.alen, box.boff + box.blen)
      /\ u \in Seq(Entries) /\ Len(u) = box.alen /\ v \in Seq(Entries) /\ Len(v) = box.blen
  BY <1>1, FirstBox
<1>4. PICK x \in Nat, m \in Nat, y \in Nat, n \in Nat :
        x = box.aoff /\ m = box.alen /\ y = box.boff /\ n = box.blen
  BY <1>3 DEF BoxSet
<1>5. x + m <= Len(a) /\ y + n <= Len(b)
  BY <1>3, <1>4 DEF BoxTrue
<1>6. u = SubSeq(a, x + 1, x + m) /\ v = SubSeq(b, y + 1, y + n)
  BY <1>4 DEF Dmp!InA, Dmp!InB
<1>7. ASSUME Tiles(pieces \o w, a, b, x, y) PROVE DmpInv'
  <2> HIDE DEF pieces
  <2>1. Tiles(pieces \o Tail(work), a, b, i, j)
    BY <1>3, <1>4, <1>7
  <2> QED BY <1>1, <1>2, <2>1, DmpBecomes
<1>8. CASE m = 0
  <2>1. pieces = Dmp!Inserted(box)
    BY <1>4, <1>8
  <2>2. Tiles(Dmp!Inserted(box) \o w, a, b, box.aoff + box.alen, box.boff)
    <3> HIDE DEF box, w
    <3> QED BY <1>3, DeletedInserted
  <2>3. Tiles(Dmp!Inserted(box) \o w, a, b, x, y)
    <3>1. x + m = x
      BY <1>8
    <3> QED BY <1>4, <2>2, <3>1
  <2> HIDE DEF pieces
  <2> QED BY <1>7, <2>1, <2>3
<1>9. CASE m # 0 /\ n = 0
  <2>1. pieces = Dmp!Deleted(box)
    BY <1>4, <1>9
  <2>2. Tiles(Dmp!Deleted(box) \o w, a, b, box.aoff, box.boff)
    <3>1. box.blen = 0
      BY <1>4, <1>9
    <3> HIDE DEF box, w
    <3> QED BY <1>3, <3>1, DeletedInserted
  <2> HIDE DEF pieces
  <2> QED BY <1>4, <1>7, <2>1, <2>2
<1>10. CASE m # 0 /\ n # 0 /\ u = v
  <2>1. pieces = whole
    BY <1>4, <1>10
  <2>2. m = n
    BY <1>3, <1>4, <1>10
  <2>3. Matches(a, b, x, y, m)
    <3>1. Matches(u, v, 0, 0, m)
      <4>1. 0 + m <= Len(u) /\ 0 + m <= Len(v)
        BY <1>3, <1>4, <2>2
      <4> QED BY <1>10, <4>1 DEF Matches
    <3>2. Matches(a, b, x + 0, y + 0, m)
      <4>1. 0 \in Nat /\ Matches(SubSeq(a, x + 1, x + m), SubSeq(b, y + 1, y + n), 0, 0, m)
        BY <1>6, <3>1
      <4> QED BY <1>3, <1>5, <4>1, PartsAgree
    <3> QED BY <3>2
  <2>4. Tiles(w, a, b, x + m, y + n)
    BY <1>3, <1>4
  <2>5. Tiles(Dmp!Say("equal", x, m, y, n) \o w, a, b, x, y)
    <3> HIDE DEF w
    <3> QED BY <1>5, <2>2, <2>3, <2>4, SayTiles
  <2>6. whole = Dmp!Say("equal", x, m, y, n)
    BY <1>4
  <2> HIDE DEF pieces
  <2> QED BY <1>7, <2>1, <2>5, <2>6
<1>11. CASE m # 0 /\ n # 0 /\ u # v
  <2>1. pieces = prefix \o <<middle>> \o suffix
    BY <1>4, <1>11
  <2> HIDE DEF pieces, p, s, u, v, w
  <2>2. TrimAt(u, v, x, m, y, n, p, s)
    <3>1. /\ u = Dmp!InA(box) /\ v = Dmp!InB(box) /\ p = Dmp!Extent(u, v, 0, 0)
          /\ s = Dmp!Extent(Dmp!Reverse(SubSeq(u, p + 1, box.alen)),
                            Dmp!Reverse(SubSeq(v, p + 1, box.blen)), 0, 0)
      BY DEF u, v, p, s
    <3> HIDE DEF box
    <3>2. Measures(box, x, m, y, n)
      BY <1>4 DEF Measures
    <3> QED BY <1>3, <1>5, <3>1, <3>2, TrimmedEnds
  <2>3. /\ p \in Nat /\ s \in Nat /\ p + s <= m /\ p + s <= n /\ Matches(a, b, x, y, p)
        /\ Matches(a, b, x + m - s, y + n - s, s)
    BY <2>2 DEF TrimAt
  <2>6. Tiles(w, a, b, x + m, y + n)
    BY <1>3, <1>4
  <2>7. Tiles((Dmp!Say("equal", x, p, y, p)
                \o <<Dmp!Box("compute", x + p, m - p - s, y + p, n - p - s)>>
                \o Dmp!Say("equal", x + m - s, s, y + n - s, s)) \o w, a, b, x, y)
    BY <1>3, <1>5, <2>3, <2>6, TrimTiles
  <2>8. pieces = Dmp!Say("equal", x, p, y, p)
                   \o <<Dmp!Box("compute", x + p, m - p - s, y + p, n - p - s)>>
                   \o Dmp!Say("equal", x + m - s, s, y + n - s, s)
    BY <1>4, <2>1
  <2> QED BY <1>7, <2>7, <2>8
<1> QED BY <1>8, <1>9, <1>10, <1>11

\* A box that has one side within the other, or nothing to compare, or is searched.
LEMMA DmpCompute ==
  ASSUME DmpInv, engine = "dmp", Dmp!Compute, engine' = engine
  PROVE  DmpInv'
<1> DEFINE box == Head(work)
           u == Dmp!InA(box)
           v == Dmp!InB(box)
           places == IF box.alen > box.blen THEN Dmp!FirstOccurrence(u, v)
                    ELSE Dmp!FirstOccurrence(v, u)
           w == Tail(work)
<1>1. pc = "divide" /\ search = <<>> /\ work # <<>> /\ box.do = "compute"
  BY DEF Dmp!Compute, Dmp!Working
<1>2. /\ a \in Seq(Entries) /\ b \in Seq(Entries) /\ box \in BoxSet /\ BoxTrue(box, a, b)
      /\ box.aoff = i /\ box.boff = j
      /\ Tiles(w, a, b, box.aoff + box.alen, box.boff + box.blen)
  BY <1>1, FirstBox
<1>3. ASSUME NEW pieces, Dmp!Becomes(pieces), search' = search,
             Tiles(pieces \o w, a, b, box.aoff, box.boff)
      PROVE  DmpInv'
  <2>1. Tiles(pieces \o Tail(work), a, b, i, j) /\ search' = <<>>
    BY <1>1, <1>2, <1>3
  <2> QED BY <1>1, <1>3, <2>1, DmpBecomes
<1>4. CASE Dmp!Becomes(Dmp!Deleted(box) \o Dmp!Inserted(box)) /\ search' = search
  <2>1. Tiles((Dmp!Deleted(box) \o Dmp!Inserted(box)) \o w, a, b, box.aoff, box.boff)
    <3> HIDE DEF box, w
    <3> QED BY <1>2, DeletedInserted
  <2> HIDE DEF box, w
  <2> QED BY <1>3, <1>4, <2>1
<1>5. ASSUME NEW n \in places, Dmp!Becomes(Dmp!Within(box, n)), search' = search
      PROVE  DmpInv'
  <2>1. Tiles(Dmp!Within(box, n) \o w, a, b, box.aoff, box.boff)
    <3>1. Occurs(box, n)
      BY <1>5 DEF Occurs
    <3> HIDE DEF box, w
    <3> QED BY <1>2, <3>1, WithinTiles
  <2> HIDE DEF box, w
  <2> QED BY <1>3, <1>5, <2>1
<1>6. CASE /\ box.alen > 1 /\ box.blen > 1 /\ search' = Dmp!StartSearch(box)
           /\ UNCHANGED <<a, b, work, i, j, list, ops, pc>>
  <2>1. box.alen \in Nat /\ box.blen \in Nat
    BY <1>2 DEF BoxSet
  <2>2. Bisects(Dmp!StartSearch(box), box, u, v)
    <3> HIDE DEF box, u, v
    <3> QED BY <1>1, <1>6, <2>1, SearchBegins
  <2>3. box' = box /\ u' = u /\ v' = v
    BY <1>6 DEF Dmp!InA, Dmp!InB
  <2>4. Bisects(search', box', u', v')
    <3> HIDE DEF box, u, v
    <3> QED BY <1>6, <2>2, <2>3
  <2> QED BY <1>1, <1>6, <2>4 DEF DmpInv
<1>7. \/ Dmp!Becomes(Dmp!Deleted(box) \o Dmp!Inserted(box)) /\ search' = search
      \/ \E n \in places : Dmp!Becomes(Dmp!Within(box, n)) /\ search' = search
      \/ /\ box.alen > 1 /\ box.blen > 1 /\ search' = Dmp!StartSearch(box)
         /\ UNCHANGED <<a, b, work, i, j, list, ops, pc>>
  BY DEF Dmp!Compute
<1> HIDE DEF box, places
<1> QED BY <1>4, <1>5, <1>6, <1>7

\* A search that is cut where it meets the other, or takes its next turn.
LEMMA SplitKeeps ==
  ASSUME DmpInv, engine = "dmp", engine' = engine, pc = "divide", work # <<>>,
         NEW x \in 0..Head(work).alen, NEW y \in 0..Head(work).blen,
         Dmp!SplitAt(Head(work), x, y)
  PROVE  DmpInv'
<1>1. PICK box : box = Head(work)
  OBVIOUS
<1>2. /\ a \in Seq(Entries) /\ b \in Seq(Entries) /\ box \in BoxSet /\ BoxTrue(box, a, b)
      /\ box.aoff = i /\ box.boff = j
      /\ Tiles(Tail(work), a, b, box.aoff + box.alen, box.boff + box.blen)
  BY <1>1, FirstBox
<1> DEFINE pieces == <<Dmp!Box("main", box.aoff, x, box.boff, y),
                       Dmp!Box("main", box.aoff + x, box.alen - x, box.boff + y, box.blen - y)>>
<1>3. Dmp!Becomes(pieces) /\ search' = <<>>
  BY <1>1 DEF Dmp!SplitAt
<1>4. Tiles(pieces \o Tail(work), a, b, box.aoff, box.boff)
  <2>1. x \in 0..box.alen /\ y \in 0..box.blen
    BY <1>1
  <2> QED BY <1>2, <2>1, SplitTiles
<1> HIDE DEF pieces
<1>5. Tiles(pieces \o Tail(work), a, b, i, j)
  BY <1>2, <1>4
<1> QED BY <1>3, <1>5, DmpBecomes

\* A turn of the search on the first box that leaves the boxes as they are keeps the
\* invariant if the two searches still know of each other what they should.
LEMMA TurnKeeps ==
  ASSUME DmpInv, engine = "dmp", engine' = engine, pc = "divide", work # <<>>,
         NEW u, search' = u, Bisects(u, Head(work), Dmp!InA(Head(work)), Dmp!InB(Head(work))),
         UNCHANGED <<a, b, work, i, j, list, ops, pc>>
  PROVE  DmpInv'
<1> DEFINE box == Head(work)
           s == Dmp!InA(box)
           t == Dmp!InB(box)
<1>1. box' = box /\ s' = s /\ t' = t
  BY DEF Dmp!InA, Dmp!InB
<1>2. Bisects(search', box', s', t')
  <2>1. Bisects(u, box, s, t)
    OBVIOUS
  <2> HIDE DEF box, s, t
  <2> QED BY <1>1, <2>1
<1> QED BY <1>2 DEF DmpInv

\* A search that has not met the other leaves its box as two.
LEMMA DmpNeverMet ==
  ASSUME DmpInv, engine = "dmp", Dmp!NeverMet, engine' = engine
  PROVE  DmpInv'
<1>1. PICK box : box = Head(work)
  OBVIOUS
<1>2. pc = "divide" /\ work # <<>>
  BY DEF DmpInv, Dmp!NeverMet
<1>3. /\ a \in Seq(Entries) /\ b \in Seq(Entries) /\ box \in BoxSet /\ BoxTrue(box, a, b)
      /\ box.aoff = i /\ box.boff = j
      /\ Tiles(Tail(work), a, b, box.aoff + box.alen, box.boff + box.blen)
  BY <1>1, <1>2, FirstBox
<1>4. PICK pieces : pieces = Dmp!Deleted(box) \o Dmp!Inserted(box)
  OBVIOUS
<1>5. Dmp!Becomes(pieces) /\ search' = <<>>
  BY <1>1, <1>4 DEF Dmp!NeverMet
<1>6. Tiles(pieces \o Tail(work), a, b, box.aoff, box.boff)
  BY <1>3, <1>4, DeletedInserted
<1>7. Tiles(pieces \o Tail(work), a, b, i, j)
  BY <1>3, <1>6
<1> QED BY <1>2, <1>5, <1>7, DmpBecomes

\* One turn of the search.
LEMMA DmpBisect ==
  ASSUME DmpInv, engine = "dmp", Dmp!Bisect, engine' = engine
  PROVE  DmpInv'
<1>1. PICK box : box = Head(work)
  OBVIOUS
<1>2. PICK s, t, p, q, k1, r, h :
        /\ s = Dmp!InA(box) /\ t = Dmp!InB(box) /\ p = search.v1 /\ q = search.v2
        /\ k1 = search.k /\ r = search.d /\ h = Dmp!Bound(box)
  OBVIOUS
<1>3. pc = "divide" /\ work # <<>> /\ Bisects(search, box, s, t)
  BY <1>1, <1>2 DEF DmpInv, Dmp!Bisect
<1>4. /\ box \in BoxSet /\ s \in Seq(Entries) /\ t \in Seq(Entries)
      /\ Len(s) = box.alen /\ Len(t) = box.blen
  BY <1>1, <1>2, <1>3, FirstBox
<1>5. PICK n \in Nat, m \in Nat : n = box.alen /\ m = box.blen
  BY <1>4 DEF BoxSet
<1>6. n = Len(s) /\ m = Len(t) /\ n > 1 /\ m > 1 /\ box.do = "compute" /\ box.alen > 1 /\ box.blen > 1
  BY <1>3, <1>4, <1>5 DEF Bisects
<1>7. h \in Nat /\ h > 1
  BY <1>2, <1>5, <1>6, BoundIs
<1>8. p \in ArraySet(h) /\ q \in ArraySet(h) /\ r \in 0..h
  BY <1>2, <1>3 DEF Bisects
<1>9. r \in Nat /\ r < h
  BY <1>1, <1>2, <1>7, <1>8 DEF Dmp!Bisect
<1>10. PICK w, o : w = n - m /\ o = h + w - k1
  OBVIOUS
<1>11. PICK c \in 0..r :
        /\ k1 = 2 * c - r
        /\ search.forward => Ahead(Places(p, h), Places(q, h), r, c, h, Len(s) - Len(t), s, t)
        /\ ~search.forward => Behind(Places(p, h), Places(q, h), r, c, h, Len(s) - Len(t), s, t)
  BY <1>2, <1>3 DEF Bisects
<1>12. Len(s) - Len(t) = w
  BY <1>6, <1>10
<1>17. k1 = 2 * c - r
  BY <1>11
<1>13. ASSUME NEW x \in 0..n, NEW y \in 0..m, Dmp!SplitAt(box, x, y) PROVE DmpInv'
  <2>1. /\ x \in 0..Head(work).alen /\ y \in 0..Head(work).blen /\ Dmp!SplitAt(Head(work), x, y)
    BY <1>1, <1>5, <1>13
  <2> QED BY <1>3, <2>1, SplitKeeps
<1>14. ASSUME NEW u, search' = u, Bisects(u, box, s, t), UNCHANGED <<a, b, work, i, j, list, ops, pc>>
       PROVE DmpInv'
  <2>1. Bisects(u, Head(work), Dmp!InA(Head(work)), Dmp!InB(Head(work)))
    BY <1>1, <1>2, <1>14
  <2> QED BY <1>3, <1>14, <2>1, TurnKeeps
<1>15. CASE search.forward
  <2>1. PICK x : x = Dmp!Furthest(p, h, k1, r, s, t)
    OBVIOUS
  <2>2. IF w % 2 # 0 /\ Meet(q, o, x, n) THEN Dmp!SplitAt(box, x, x - k1)
        ELSE /\ search' = Dmp!NextTurn(search, [p EXCEPT ![h + k1] = x], q)
             /\ UNCHANGED <<a, b, work, i, j, list, ops, pc>>
    BY <1>1, <1>2, <1>5, <1>10, <1>15, <2>1 DEF Dmp!Bisect, Meet
  <2>3. Ahead(Places(p, h), Places(q, h), r, c, h, w, s, t)
    BY <1>11, <1>12, <1>15
  <2>4. /\ w % 2 # 0 /\ Meet(q, o, x, n) => x \in 0..n /\ x - k1 \in 0..m
        /\ \A v : v = [p EXCEPT ![h + k1] = x] /\ ~(w % 2 # 0 /\ Meet(q, o, x, n)) =>
             v \in ArraySet(h) /\ Ahead(Places(v, h), Places(q, h), r, c + 1, h, w, s, t)
    <3>1. AheadTurn(p, q, h, r, c, w, x, s, t)
      BY <1>6, <1>7, <1>8, <1>9, <1>10, <1>17, <2>1, <2>3, AheadStep
    <3> QED BY <1>6, <1>10, <1>17, <3>1 DEF AheadTurn
  <2>5. CASE w % 2 # 0 /\ Meet(q, o, x, n)
    BY <1>13, <2>2, <2>4, <2>5
  <2>6. CASE ~(w % 2 # 0 /\ Meet(q, o, x, n))
    <3>1. PICK v : v = [p EXCEPT ![h + k1] = x]
      OBVIOUS
    <3>2. /\ v \in ArraySet(h)
          /\ Ahead(Places(v, h), Places(q, h), r, c + 1, h, Len(s) - Len(t), s, t)
      BY <1>12, <2>4, <2>6, <3>1
    <3>3. search.forward = TRUE /\ search.d = r /\ search.k = 2 * c - r
      BY <1>2, <1>11, <1>15
    <3>4. Bisects(Dmp!NextTurn(search, v, q), box, s, t)
      BY <1>2, <1>6, <1>7, <1>8, <1>9, <3>2, <3>3, AheadTurns
    <3>5. search' = Dmp!NextTurn(search, v, q) /\ UNCHANGED <<a, b, work, i, j, list, ops, pc>>
      BY <2>2, <2>6, <3>1
    <3> QED BY <1>14, <3>4, <3>5
  <2> QED BY <2>5, <2>6
<1>16. CASE ~search.forward
  <2> DEFINE u == Dmp!Reverse(s)
             v == Dmp!Reverse(t)
  <2>1. Len(u) = n /\ Len(v) = m
    BY <1>4, <1>6 DEF Dmp!Reverse
  <2>2. PICK x : x = Dmp!Furthest(q, h, k1, r, u, v)
    OBVIOUS
  <2>3. IF w % 2 = 0 /\ o \in DOMAIN p /\ p[o] # -1 /\ p[o] >= n - x
        THEN Dmp!SplitAt(box, p[o], h + p[o] - o)
        ELSE /\ search' = Dmp!NextTurn(search, p, [q EXCEPT ![h + k1] = x])
             /\ UNCHANGED <<a, b, work, i, j, list, ops, pc>>
    BY <1>1, <1>2, <1>5, <1>10, <1>16, <2>2 DEF Dmp!Bisect
  <2> HIDE DEF u, v
  <2>4. Behind(Places(p, h), Places(q, h), r, c, h, w, s, t)
    BY <1>11, <1>12, <1>16
  <2>5. x \in Int
    <3>1. (r = 0 => Places(q, h)[1].x = 0) /\ Deep(Places(q, h), r - 1, r)
      BY <2>4 DEF Behind
    <3>2. Len(u) \in Nat /\ Len(v) \in Nat
      BY <2>1
    <3>3. Dmp!Furthest(q, h, k1, r, u, v) \in Nat
      BY <1>7, <1>8, <1>9, <1>17, <3>1, <3>2, BehindFurthest
    <3> QED BY <2>2, <3>3
  <2>6. /\ w % 2 = 0 /\ Meet(p, o, x, n) => p[o] \in 0..n /\ h + p[o] - o \in 0..m
        /\ \A y : y = [q EXCEPT ![h + k1] = x] /\ ~(w % 2 = 0 /\ Meet(p, o, x, n)) =>
             y \in ArraySet(h) /\ Behind(Places(p, h), Places(y, h), r, c + 1, h, w, s, t)
    <3>1. BehindTurn(p, q, h, r, c, w, x, s, t)
      BY <1>6, <1>7, <1>8, <1>9, <1>10, <1>17, <2>1, <2>2, <2>4, BehindStep
    <3> QED BY <1>6, <1>10, <1>17, <3>1 DEF BehindTurn
  <2>7. Meet(p, o, x, n) <=> o \in DOMAIN p /\ p[o] # -1 /\ p[o] >= n - x
    <3>1. ASSUME o \in DOMAIN p PROVE p[o] >= n - x <=> x >= n - p[o]
      <4>1. p[o] \in Int
        BY <1>8, <3>1 DEF ArraySet
      <4>2. PICK z \in Int : z = p[o]
        BY <4>1
      <4> QED BY <2>5, <4>2
    <3> QED BY <3>1 DEF Meet
  <2>8. CASE w % 2 = 0 /\ Meet(p, o, x, n)
    BY <1>13, <2>3, <2>6, <2>7, <2>8
  <2>9. CASE ~(w % 2 = 0 /\ Meet(p, o, x, n))
    <3>1. PICK y : y = [q EXCEPT ![h + k1] = x]
      OBVIOUS
    <3>2. /\ y \in ArraySet(h)
          /\ Behind(Places(p, h), Places(y, h), r, c + 1, h, Len(s) - Len(t), s, t)
      BY <1>12, <2>6, <2>9, <3>1
    <3>3. search.forward = FALSE /\ search.d = r /\ search.k = 2 * c - r
      BY <1>2, <1>11, <1>16
    <3>4. Len(s) \in Nat /\ Len(t) \in Nat
      BY <1>6
    <3>5. Bisects(Dmp!NextTurn(search, p, y), box, s, t)
      BY <1>2, <1>6, <1>7, <1>8, <1>9, <3>2, <3>3, <3>4, BehindTurns
    <3>6. search' = Dmp!NextTurn(search, p, y) /\ UNCHANGED <<a, b, work, i, j, list, ops, pc>>
      BY <2>3, <2>7, <2>9, <3>1
    <3> QED BY <1>14, <3>5, <3>6
  <2> QED BY <2>8, <2>9
<1> QED BY <1>15, <1>16

\* What is said of a box that is done with becomes an opcode.
LEMMA DmpTranslate ==
  ASSUME DmpInv, engine = "dmp", Dmp!Translate, engine' = engine
  PROVE  DmpInv'
<1>1. PICK box : box = Head(work)
  OBVIOUS
<1>2. /\ pc = "divide" /\ search = <<>> /\ work # <<>> /\ box.do \in {"equal", "delete", "insert"}
      /\ UNCHANGED <<a, b, search, ops, pc>> /\ work' = Tail(work)
  BY <1>1 DEF Dmp!Translate, Dmp!Working
<1>3. /\ a \in Seq(Entries) /\ b \in Seq(Entries) /\ box \in BoxSet /\ BoxTrue(box, a, b)
      /\ box.aoff = i /\ box.boff = j
      /\ Tiles(Tail(work), a, b, box.aoff + box.alen, box.boff + box.blen)
  BY <1>1, <1>2, FirstBox
<1>4. PICK x \in Nat, m \in Nat, y \in Nat, n \in Nat :
        x = box.aoff /\ m = box.alen /\ y = box.boff /\ n = box.blen
  BY <1>3 DEF BoxSet
<1>5. PICK tag \in {"equal", "delete", "insert"} : tag = box.do
  BY <1>2
<1>6. /\ x + m <= Len(a) /\ y + n <= Len(b)
      /\ tag = "equal" => m > 0 /\ n = m /\ Matches(a, b, x, y, m)
      /\ tag = "delete" => m > 0 /\ n = 0
      /\ tag = "insert" => m = 0 /\ n > 0
  BY <1>3, <1>4, <1>5 DEF BoxTrue
<1> DEFINE op == Opcode(tag, x, x + m, y, y + n)
<1>7. list' = Append(list, op) /\ i' = x + m /\ j' = y + n
  <2>1. /\ m = (IF tag = "insert" THEN 0 ELSE m)
        /\ n = (IF tag = "delete" THEN 0 ELSE IF tag = "equal" THEN m ELSE n)
    BY <1>6
  <2>2. \A c, e, f, g, h : Dmp!Opcode(c, e, f, g, h) = Opcode(c, e, f, g, h)
    BY DmpWords
  <2>3. i = x /\ j = y
    BY <1>3, <1>4
  <2> QED BY <1>1, <1>4, <1>5, <2>1, <2>2, <2>3 DEF Dmp!Translate
<1>8. /\ op \in OpcodeSet /\ op.i1 = x /\ op.i2 = x + m /\ op.j1 = y /\ op.j2 = y + n
      /\ op.tag = tag
  BY DEF Opcode, OpcodeSet, Tags
<1> HIDE DEF op
<1>9. OpcodeTrue(op, a, b) /\ (op.i1 < op.i2 \/ op.j1 < op.j2)
  <2>1. (x + m) - x = m /\ (y + n) - y = n
    OBVIOUS
  <2> QED BY <1>5, <1>6, <1>8, <2>1 DEF OpcodeTrue
<1>10. SaidUpTo(list, a, b, x, y) /\ NoneEmpty(list) /\ list \in Seq(OpcodeSet)
  BY <1>2, <1>3, <1>4 DEF DmpInv, SaidUpTo
<1>11. list' = list \o <<op>>
  BY <1>7, <1>8, <1>10, AppendIsConcat
<1>12. SaidUpTo(list', a, b, x + m, y + n) /\ NoneEmpty(list')
  BY <1>8, <1>9, <1>10, <1>11, SayOne
<1>13. Tiles(work', a', b', i', j') /\ SaidUpTo(list', a', b', i', j')
  BY <1>2, <1>3, <1>4, <1>7, <1>12
<1>14. ops' = <<>> /\ NoneEmpty(ops') /\ search' = <<>> /\ pc' = "divide" /\ i' \in Nat /\ j' \in Nat
       /\ a' \in Seq(Entries) /\ b' \in Seq(Entries)
  BY <1>2, <1>3, <1>7 DEF DmpInv
<1> QED BY <1>12, <1>13, <1>14 DEF DmpInv

\* With nothing left to do all is in opcodes_list.
LEMMA DmpDivided ==
  ASSUME DmpInv, engine = "dmp", Dmp!Divided, engine' = engine
  PROVE  DmpInv'
<1>1. /\ pc = "divide" /\ work = <<>> /\ pc' = "merge"
      /\ UNCHANGED <<a, b, work, search, i, j, list, ops>>
  BY DEF Dmp!Divided
<1>2. i = Len(a) /\ j = Len(b) /\ SaidUpTo(list, a, b, i, j) /\ ops = <<>> /\ search = <<>>
  BY <1>1 DEF DmpInv, Tiles
<1>3. Remains(list, a, b, 0, 0) /\ SaidUpTo(ops, a, b, 0, 0)
  BY <1>2, AllRemains, NothingSaid
<1>4. Remains(list', a', b', 0, 0) /\ SaidUpTo(ops', a', b', 0, 0) /\ search' = <<>>
  BY <1>1, <1>2, <1>3
<1> QED BY <1>1, <1>4 DEF DmpInv

\* A deletion and the insertion after it become a replacement, the others stay as they are.
LEMMA DmpMerge ==
  ASSUME DmpInv, engine = "dmp", Dmp!Merge, engine' = engine
  PROVE  DmpInv'
<1>1. /\ pc = "merge" /\ list # <<>> /\ NoneEmpty(list) /\ NoneEmpty(ops) /\ search = <<>>
      /\ UNCHANGED <<a, b, work, search, i, j, pc>>
      /\ a \in Seq(Entries) /\ b \in Seq(Entries)
  BY DEF DmpInv, Dmp!Merge
<1>2. PICK x, y : Remains(list, a, b, x, y) /\ SaidUpTo(ops, a, b, x, y)
  BY <1>1 DEF DmpInv
<1>3. PICK o, r : o = Head(list) /\ r = Tail(list)
  OBVIOUS
<1>4. /\ o \in OpcodeSet /\ OpcodeTrue(o, a, b) /\ o.i1 = x /\ o.j1 = y
      /\ Remains(r, a, b, o.i2, o.j2)
  BY <1>1, <1>2, <1>3, OneFewer
<1>5. list \in Seq(OpcodeSet) /\ ops \in Seq(OpcodeSet)
  BY <1>2 DEF Remains, SaidUpTo
<1>6. /\ o = list[1] /\ (o.i1 < o.i2 \/ o.j1 < o.j2)
      /\ r \in Seq(OpcodeSet) /\ NoneEmpty(r) /\ (r = <<>> <=> Len(list) <= 1)
      /\ Len(list) > 1 => Head(r) = list[2]
  BY <1>1, <1>3, <1>5, NoneEmptyTail
<1>7. ASSUME NEW said, NEW op \in OpcodeSet, OpcodeTrue(op, a, b), op.i1 = x, op.j1 = y,
             op.i1 < op.i2 \/ op.j1 < op.j2,
             ops' = Append(ops, op), list' = said, NoneEmpty(said),
             Remains(said, a, b, op.i2, op.j2)
      PROVE  DmpInv'
  <2>1. ops' = ops \o <<op>>
    BY <1>5, <1>7, AppendIsConcat
  <2>2. SaidUpTo(ops', a, b, op.i2, op.j2) /\ NoneEmpty(ops')
    BY <1>1, <1>2, <1>7, <2>1, SayOne
  <2>3. Remains(list', a', b', op.i2, op.j2) /\ SaidUpTo(ops', a', b', op.i2, op.j2)
    BY <1>1, <1>7, <2>2
  <2>4. /\ a' \in Seq(Entries) /\ b' \in Seq(Entries) /\ i' \in Nat /\ j' \in Nat /\ pc' = "merge"
        /\ NoneEmpty(list') /\ NoneEmpty(ops') /\ search' = <<>>
    BY <1>1, <1>7, <2>2 DEF DmpInv
  <2> QED BY <2>3, <2>4 DEF DmpInv
<1>8. CASE Len(list) > 1 /\ list[1].tag = "delete" /\ list[2].tag = "insert"
  <2>1. PICK e, w : e = Head(r) /\ w = Tail(r)
    OBVIOUS
  <2>2. r # <<>> /\ e = list[2]
    <3>1. ~(Len(list) <= 1)
      BY <1>5, <1>8
    <3> QED BY <1>6, <1>8, <2>1, <3>1
  <2>3. /\ e \in OpcodeSet /\ OpcodeTrue(e, a, b) /\ e.i1 = o.i2 /\ e.j1 = o.j2
        /\ Remains(w, a, b, e.i2, e.j2)
    BY <1>4, <2>1, <2>2, OneFewer
  <2>4. (e.i1 < e.i2 \/ e.j1 < e.j2) /\ w \in Seq(OpcodeSet) /\ NoneEmpty(w)
    <3>1. Head(r) = r[1] /\ (r[1].i1 < r[1].i2 \/ r[1].j1 < r[1].j2)
          /\ Tail(r) \in Seq(OpcodeSet) /\ NoneEmpty(Tail(r))
      BY <1>6, <2>2, NoneEmptyTail
    <3> QED BY <2>1, <3>1
  <2> DEFINE op == Opcode("replace", o.i1, o.i2, e.j1, e.j2)
  <2>5. /\ op \in OpcodeSet /\ op.tag = "replace" /\ op.i1 = o.i1 /\ op.i2 = o.i2
        /\ op.j1 = e.j1 /\ op.j2 = e.j2
    BY <1>4, <2>3 DEF Opcode, OpcodeSet, Tags
  <2>6. ops' = Append(ops, op) /\ list' = w
    <3>1. \A c, p, f, g, h : Dmp!Opcode(c, p, f, g, h) = Opcode(c, p, f, g, h)
      BY DmpWords
    <3>2. /\ ops' = Append(ops, Dmp!Opcode("replace", o.i1, o.i2, e.j1, e.j2))
          /\ list' = Tail(Tail(list))
      BY <1>6, <1>8, <2>2 DEF Dmp!Merge
    <3> QED BY <1>3, <2>1, <3>1, <3>2
  <2> HIDE DEF op
  <2>7. o.tag = "delete" /\ e.tag = "insert"
    BY <1>6, <1>8, <2>2
  <2>8. /\ o.i1 < o.i2 /\ o.j1 = o.j2 /\ e.i1 = e.i2 /\ e.j1 < e.j2
        /\ 0 <= o.i1 /\ o.i2 <= Len(a) /\ 0 <= e.j1 /\ e.j2 <= Len(b)
    <3>1. /\ o.i1 < o.i2 /\ o.j1 = o.j2 /\ 0 <= o.i1 /\ o.i2 <= Len(a)
      BY <1>4, <2>7 DEF OpcodeTrue
    <3>2. e.i1 = e.i2 /\ 0 <= e.j1 /\ e.j2 <= Len(b)
      BY <2>3, <2>7 DEF OpcodeTrue
    <3>3. e.i1 \in Nat /\ e.i2 \in Nat
      BY <2>3 DEF OpcodeSet
    <3>4. ~(e.i1 < e.i2)
      BY <3>2, <3>3
    <3> QED BY <2>4, <3>1, <3>2, <3>4
  <2>9. OpcodeTrue(op, a, b) /\ op.i1 = x /\ op.j1 = y /\ op.i2 = e.i2 /\ op.j2 = e.j2
    <3>1. /\ op.i1 < op.i2 /\ op.j1 < op.j2 /\ 0 <= op.i1 /\ 0 <= op.j1
          /\ op.i2 <= Len(a) /\ op.j2 <= Len(b)
      BY <2>5, <2>8
    <3>2. op.i1 <= op.i2 /\ op.j1 <= op.j2
      <4>1. op.i1 \in Nat /\ op.i2 \in Nat /\ op.j1 \in Nat /\ op.j2 \in Nat
        BY <2>5 DEF OpcodeSet
      <4> QED BY <3>1, <4>1
    <3>3. OpcodeTrue(op, a, b)
      BY <2>5, <3>1, <3>2 DEF OpcodeTrue
    <3> QED BY <1>4, <2>3, <2>5, <2>8, <3>3
  <2> QED BY <1>7, <2>3, <2>4, <2>5, <2>6, <2>8, <2>9
<1>9. CASE ~(Len(list) > 1 /\ list[1].tag = "delete" /\ list[2].tag = "insert")
  <2>1. ops' = Append(ops, o) /\ list' = r
    BY <1>3, <1>6, <1>9 DEF Dmp!Merge
  <2> QED BY <1>4, <1>6, <1>7, <2>1
<1> QED BY <1>8, <1>9

\* When nothing remains, the merged opcodes have come to the end.
LEMMA DmpFinish ==
  ASSUME DmpInv, engine = "dmp", Dmp!Finish, engine' = engine
  PROVE  DmpInv'
<1>1. /\ pc = "merge" /\ list = <<>> /\ pc' = "done" /\ search = <<>>
      /\ UNCHANGED <<a, b, work, search, i, j, list, ops>>
  BY DEF DmpInv, Dmp!Finish
<1>2. PICK x, y : Remains(list, a, b, x, y) /\ SaidUpTo(ops, a, b, x, y)
  BY <1>1 DEF DmpInv
<1>3. x = Len(a) /\ y = Len(b)
  BY <1>1, <1>2 DEF Remains
<1>4. SaidUpTo(ops', a', b', Len(a'), Len(b'))
  BY <1>1, <1>2, <1>3
<1> QED BY <1>1, <1>4 DEF DmpInv

\* No other engine runs once this one is chosen.
LEMMA DmpInvNext == DmpInv /\ [Next]_vars => DmpInv'
<1> SUFFICES ASSUME DmpInv, [Next]_vars, engine' = "dmp" PROVE DmpInv'
  BY DEF DmpInv
<1>1. CASE RunDmp
  <2>1. engine = "dmp" /\ Dmp!Next /\ engine' = engine
    BY <1>1 DEF RunDmp
  <2> QED BY <2>1, DmpTrim, DmpCompute, DmpBisect, DmpNeverMet, DmpTranslate, DmpDivided,
             DmpMerge, DmpFinish DEF Dmp!Next
<1>2. CASE UNCHANGED vars
  <2>1. UNCHANGED <<engine, a, b, i, j, ops, pc, work, search, list>>
    BY <1>2 DEF vars, dmpVars
  <2> QED BY <2>1 DEF DmpInv, Dmp!InA, Dmp!InB
<1>3. CASE RunGreedy \/ RunMyers \/ RunSes \/ RunDifflib \/ RunChunk \/ RunRolling \/ WriteAndApply
  <2>1. engine' # "dmp"
    BY <1>3 DEF RunGreedy, RunMyers, RunSes, RunDifflib, RunChunk, RunRolling, WriteAndApply,
                ByteEngines
  <2> QED BY <2>1
<1> QED BY <1>1, <1>2, <1>3 DEF Next

\* What the bisecting engine has left to do tiles what is left of both texts, piece by
\* piece and in order: wherever its two searches meet is within the box that is cut there.
THEOREM BoxesAlwaysTile == Spec => []BoxesTile
<1>1. DmpInv => BoxesTile
  <2> SUFFICES ASSUME DmpInv, engine = "dmp", pc = "divide"
               PROVE  /\ \A n \in DOMAIN work :
                           /\ work[n].alen >= 0 /\ work[n].blen >= 0
                           /\ work[n].aoff = IF n = 1 THEN i ELSE work[n - 1].aoff + work[n - 1].alen
                           /\ work[n].boff = IF n = 1 THEN j ELSE work[n - 1].boff + work[n - 1].blen
                      /\ work # <<>> => /\ work[Len(work)].aoff + work[Len(work)].alen = Len(a)
                                        /\ work[Len(work)].boff + work[Len(work)].blen = Len(b)
    BY DEF BoxesTile, Dmp!WorkTiles
  <2>1. Tiles(work, a, b, i, j) /\ work \in Seq(BoxSet)
    BY DEF DmpInv, Tiles
  <2>2. DOMAIN work = 1..Len(work)
    BY <2>1
  <2>3. ASSUME NEW n \in DOMAIN work PROVE work[n].alen >= 0 /\ work[n].blen >= 0
    <3>1. work[n] \in BoxSet
      BY <2>1, <2>2, ElementOfSeq
    <3>2. PICK x \in Nat, y \in Nat : x = work[n].alen /\ y = work[n].blen
      BY <3>1 DEF BoxSet
    <3> QED BY <3>2
  <2>4. \A n \in 1..Len(work) :
          /\ work[n].aoff = IF n = 1 THEN i ELSE work[n - 1].aoff + work[n - 1].alen
          /\ work[n].boff = IF n = 1 THEN j ELSE work[n - 1].boff + work[n - 1].blen
    BY <2>1 DEF Tiles
  <2>5. work # <<>> => /\ work[Len(work)].aoff + work[Len(work)].alen = Len(a)
                       /\ work[Len(work)].boff + work[Len(work)].blen = Len(b)
    BY <2>1 DEF Tiles
  <2> QED BY <2>2, <2>3, <2>4, <2>5
<1> QED BY <1>1, DmpInvInit, DmpInvNext, PTL DEF Spec

\* What it says is so, in order and without a gap, at every step, and each opcode says
\* something: whatever is trimmed, found within or cut in two, and whatever deletions and
\* insertions are merged.
THEOREM DmpOpcodesLegal == Spec => [](engine = "dmp" => OpcodesLegal)
<1>1. DmpInv => (engine = "dmp" => OpcodesLegal)
  <2> SUFFICES ASSUME DmpInv, engine = "dmp" PROVE Legal(ops, a, b) /\ NoneEmpty(ops)
    BY DEF OpcodesLegal
  <2>1. NoneEmpty(ops) /\ pc \in {"divide", "merge", "done"}
    BY DEF DmpInv
  <2>2. CASE pc = "divide"
    <3>1. ops = <<>>
      BY <2>2 DEF DmpInv
    <3> QED BY <2>1, <3>1, NothingSaid DEF SaidUpTo
  <2>3. CASE pc # "divide"
    <3>1. \E x, y : SaidUpTo(ops, a, b, x, y)
      BY <2>1, <2>3 DEF DmpInv
    <3> QED BY <2>1, <3>1 DEF SaidUpTo
  <2> QED BY <2>2, <2>3
<1> QED BY <1>1, DmpInvInit, DmpInvNext, PTL DEF Spec

\* When it is done, it has accounted for every line of both.
THEOREM DmpOpcodesCover == Spec => [](engine = "dmp" => OpcodesCover)
<1>1. DmpInv => (engine = "dmp" => OpcodesCover)
  BY DEF DmpInv, OpcodesCover, Compared, TextEngines, SaidUpTo, Covers
<1> QED BY <1>1, DmpInvInit, DmpInvNext, PTL DEF Spec

-------------------------------------------------------------------------------
(* The bisecting engine says as few edits as there can be: each of its searches knows how  *)
(* far so many edits lead, and the first place where they meet is halfway.                 *)

\* Where the place of a row is that an edit leads to.
LEMMA TurnIsFront ==
  ASSUME NEW s, NEW t, Len(s) \in Nat, Len(t) \in Nat, NEW h \in Nat, h > 1, NEW v \in ArraySet(h),
         NEW r \in Nat, r < h, NEW c \in 0..r, NEW k1, k1 = 2 * c - r,
         r = 0 => Places(v, h)[1].x = 0, Deep(Places(v, h), r - 1, r),
         Fronts(Places(v, h), r - 1, r, s, t)
  PROVE  FrontAt(Dmp!Furthest(v, h, k1, r, s, t), k1, r, s, t)
<1> DEFINE F == Places(v, h)
           x == Dmp!Furthest(v, h, k1, r, s, t)
<1>1. CASE r = 0
  <2>1. c = 0 /\ k1 = 0 /\ 1 \in (-h)..(h - 1)
    BY <1>1
  <2>2. v[h + 1] = 0
    BY <1>1, <2>1, PlacesAre
  <2>3. x = Extent(s, t, 0, 0)
    BY <1>1, <2>1, <2>2, FirstRun
  <2> HIDE DEF x
  <2>4. FrontAt(Extent(s, t, 0, 0), 0, 0, s, t)
    BY FrontFirst
  <2> QED BY <1>1, <2>1, <2>3, <2>4 DEF x
<1>2. CASE r # 0
  <2>0. r \in Nat \ {0}
    BY <1>2
  <2>1. PICK u \in Int : /\ Chosen(F, r, c, u)
                         /\ x = u + Extent(s, t, u, u - k1)
    <3>1. EditOn(F, r, c, k1, x, s, t)
      BY <2>0, FurthestChosen
    <3> QED BY <3>1 DEF EditOn
  <2> HIDE DEF F, x
  <2>2. /\ c > 0 => 2 * (c - 1) - (r - 1) = 2 * c - r - 1 /\ c - 1 \in 0..(r - 1)
        /\ c < r => 2 * c - (r - 1) = 2 * c - r + 1 /\ c \in 0..(r - 1)
    BY RowBefore
  <2>3. /\ c > 0 => F[2 * c - r - 1].x \in Nat /\ c - 1 <= F[2 * c - r - 1].x
        /\ c < r => F[2 * c - r + 1].x \in Nat /\ c <= F[2 * c - r + 1].x
    BY <2>2 DEF Deep, F
  <2>4. c <= u /\ u \in Nat
    <3>1. CASE c < r /\ u = F[2 * c - r + 1].x
      BY <2>3, <3>1
    <3>2. CASE c > 0 /\ u = F[2 * c - r - 1].x + 1
      BY <2>3, <3>2
    <3> QED BY <2>1, <3>1, <3>2 DEF Chosen
  <2>5. u - (2 * c - r) \in Nat
    BY <2>4
  <2>6. /\ c > 0 => F[2 * c - r - 1].x \in Int
        /\ c < r => F[2 * c - r + 1].x \in Int
    BY <2>3
  <2>7. Fronts(F, r - 1, r, s, t)
    BY DEF F
  <2>8. FrontAt(u + Extent(s, t, u, u - (2 * c - r)), 2 * c - r, r, s, t)
    BY <2>0, <2>1, <2>4, <2>5, <2>6, <2>7, FrontFurther
  <2> QED BY <2>1, <2>8 DEF x
<1> QED BY <1>1, <1>2

\* The matcher's reversed sequence is the sequence read from its end.
LEMMA ReverseIsBackwards ==
  ASSUME NEW S, NEW s \in Seq(S)
  PROVE  Backwards(s, Dmp!Reverse(s))
<1>1. PICK m \in Nat : m = Len(s)
  OBVIOUS
<1>2. Len(Dmp!Reverse(s)) = m /\ \A z \in 1..m : Dmp!Reverse(s)[z] = s[(m - z) + 1]
  BY <1>1 DEF Dmp!Reverse
<1> QED BY <1>1, <1>2 DEF Backwards

\* Before its first place it knows nothing.
LEMMA SearchBeginsLeast ==
  ASSUME NEW box, NEW s, NEW t, NEW u, NEW v, Len(s) \in Nat, Len(t) \in Nat
  PROVE  BisectsLeast(Dmp!StartSearch(box), Dmp!Bound(box), s, t, u, v)
<1>1. PICK h, w, e : /\ h = Dmp!Bound(box) /\ e = Dmp!StartSearch(box)
                     /\ w = [n \in 0..(2 * h - 1) |-> IF n = h + 1 THEN 0 ELSE -1]
  OBVIOUS
<1>2. e = Dmp!Search(w, w, 0, 0, TRUE)
  BY <1>1 DEF Dmp!StartSearch
<1>3. e.v1 = w /\ e.v2 = w /\ e.d = 0 /\ e.k = 0 /\ e.forward = TRUE
  BY <1>2 DEF Dmp!Search
<1>4. AheadLeast(Places(w, h), Places(w, h), 0, 0, s, t, u, v)
  <2>1. PICK l \in Nat : l = LeastEdits(s, t)
    BY LeastIsNumber
  <2>2. 2 * 0 - 1 <= l
    OBVIOUS
  <2> QED BY <2>1, <2>2 DEF AheadLeast, Fronts
<1>5. 0 \in 0..e.d /\ e.k = 2 * 0 - e.d
  BY <1>3
<1> QED BY <1>1, <1>3, <1>4, <1>5 DEF BisectsLeast

\* A place of one search becomes as far as the edits of its row lead.
PutLeast(v, w, h, k1, r, c, s, t) ==
  LET x == Dmp!Furthest(v, h, k1, r, s, t) IN
  /\ Fronts(Places(v, h), r - 1, r, s, t) /\ Fronts(Places(v, h), r, c, s, t)
  /\ w = [v EXCEPT ![h + k1] = x]

\* The row then has one place more of them.
LEMMA PutIsFront ==
  ASSUME NEW s, NEW t, Len(s) \in Nat, Len(t) \in Nat, NEW h \in Nat, NEW v \in ArraySet(h),
         NEW r \in Nat, r < h, NEW c \in 0..r, NEW k1, k1 = 2 * c - r, NEW w,
         PutLeast(v, w, h, k1, r, c, s, t), NEW x \in Int, x = Dmp!Furthest(v, h, k1, r, s, t),
         FrontAt(x, k1, r, s, t)
  PROVE  Fronts(Places(w, h), r - 1, r, s, t) /\ Fronts(Places(w, h), r, c + 1, s, t)
<1>1. PICK E : E = [x |-> x]
  OBVIOUS
<1>2. Put(v, w, h, k1, x) /\ OnRow(k1, c, r)
  BY DEF PutLeast, Put, OnRow
<1>3. E \in Spot /\ E.x = x /\ Placed(Places(v, h), Places(w, h), r, c, E)
  BY <1>1, <1>2, PlacePut
<1>4. Places(v, h) \in DiagonalSet(h)
  BY PlacesAre
<1>5. FrontAt(E.x, 2 * c - r, r, s, t)
  BY <1>3
<1>6. Fronts(Places(v, h), r - 1, r, s, t) /\ Fronts(Places(v, h), r, c, s, t)
  BY DEF PutLeast
<1> QED BY <1>3, <1>4, <1>5, <1>6, FrontsPlaced

\* One turn of the first search: it comes as far as its edits lead.
LEMMA AheadComes ==
  ASSUME NEW s, NEW t, Len(s) \in Nat, Len(t) \in Nat, NEW u, NEW v, NEW h \in Nat, h > 1,
         NEW p \in ArraySet(h), NEW q \in ArraySet(h), NEW r \in Nat, r < h, NEW c \in 0..r,
         NEW k1, k1 = 2 * c - r, NEW w, Ahead(Places(p, h), Places(q, h), r, c, h, w, s, t),
         AheadLeast(Places(p, h), Places(q, h), r, c, s, t, u, v),
         NEW x \in Int, x = Dmp!Furthest(p, h, k1, r, s, t)
  PROVE  /\ FrontAt(x, k1, r, s, t)
         /\ \A p2 : p2 = [p EXCEPT ![h + k1] = x] =>
              AheadLeast(Places(p2, h), Places(q, h), r, c + 1, s, t, u, v)
<1>1. r = 0 => Places(p, h)[1].x = 0
  <2>1. r = 0 => c # 1
    OBVIOUS
  <2> QED BY <2>1 DEF Ahead
<1>2. Deep(Places(p, h), r - 1, r)
  <2>1. CASE r = 0
    BY <2>1 DEF Deep
  <2>2. CASE r # 0
    <3>1. Row(Places(p, h), r - 1, s, t)
      BY <2>2 DEF Ahead
    <3> QED BY <3>1 DEF Row, Reached, Deep
  <2> QED BY <2>1, <2>2
<1>3. Fronts(Places(p, h), r - 1, r, s, t) /\ Fronts(Places(p, h), r, c, s, t)
  BY DEF AheadLeast
<1>4. FrontAt(x, k1, r, s, t)
  BY <1>1, <1>2, <1>3, TurnIsFront
<1>5. ASSUME NEW p2, p2 = [p EXCEPT ![h + k1] = x]
      PROVE  AheadLeast(Places(p2, h), Places(q, h), r, c + 1, s, t, u, v)
  <2>1. PutLeast(p, p2, h, k1, r, c, s, t)
    BY <1>3, <1>5 DEF PutLeast
  <2>2. Fronts(Places(p2, h), r - 1, r, s, t) /\ Fronts(Places(p2, h), r, c + 1, s, t)
    BY <1>4, <2>1, PutIsFront
  <2> QED BY <2>2 DEF AheadLeast
<1> QED BY <1>4, <1>5

\* And one of the other.
LEMMA BehindComes ==
  ASSUME NEW s, NEW t, NEW u, NEW v, Len(u) \in Nat, Len(v) \in Nat, NEW h \in Nat, h > 1,
         NEW p \in ArraySet(h), NEW q \in ArraySet(h), NEW r \in Nat, r < h, NEW c \in 0..r,
         NEW k1, k1 = 2 * c - r, NEW w, Behind(Places(p, h), Places(q, h), r, c, h, w, s, t),
         BehindLeast(Places(p, h), Places(q, h), r, c, s, t, u, v),
         NEW x \in Int, x = Dmp!Furthest(q, h, k1, r, u, v)
  PROVE  /\ FrontAt(x, k1, r, u, v)
         /\ \A q2 : q2 = [q EXCEPT ![h + k1] = x] =>
              BehindLeast(Places(p, h), Places(q2, h), r, c + 1, s, t, u, v)
<1>1. r = 0 => Places(q, h)[1].x = 0
  <2>1. r = 0 => c # 1
    OBVIOUS
  <2> QED BY <2>1 DEF Behind
<1>2. Deep(Places(q, h), r - 1, r)
  BY DEF Behind
<1>3. Fronts(Places(q, h), r - 1, r, u, v) /\ Fronts(Places(q, h), r, c, u, v)
  BY DEF BehindLeast
<1>4. FrontAt(x, k1, r, u, v)
  BY <1>1, <1>2, <1>3, TurnIsFront
<1>5. ASSUME NEW q2, q2 = [q EXCEPT ![h + k1] = x]
      PROVE  BehindLeast(Places(p, h), Places(q2, h), r, c + 1, s, t, u, v)
  <2>1. PutLeast(q, q2, h, k1, r, c, u, v)
    BY <1>3, <1>5 DEF PutLeast
  <2>2. Fronts(Places(q2, h), r - 1, r, u, v) /\ Fronts(Places(q2, h), r, c + 1, u, v)
    BY <1>4, <2>1, PutIsFront
  <2> QED BY <2>2 DEF BehindLeast
<1> QED BY <1>4, <1>5

\* The turn after a place of the first search.
LEMMA AheadTurnsLeast ==
  ASSUME NEW s, NEW t, NEW u, NEW v, NEW n \in Nat, n = Len(s), NEW m \in Nat, m = Len(t),
         Backwards(s, u), Backwards(t, v), NEW w, w = n - m, NEW h \in Nat, NEW e,
         NEW r \in Nat, r < h, e.d = r, NEW c \in 0..r, e.k = 2 * c - r, e.forward = TRUE,
         NEW p, NEW q, Ahead(Places(p, h), Places(q, h), r, c + 1, h, w, s, t),
         AheadLeast(Places(p, h), Places(q, h), r, c + 1, s, t, u, v)
  PROVE  BisectsLeast(Dmp!NextTurn(e, p, q), h, s, t, u, v)
<1>1. PICK f : f = Dmp!NextTurn(e, p, q)
  OBVIOUS
<1>2. CASE c < r
  <2>1. f = Dmp!Search(p, q, r, e.k + 2, TRUE)
    <3>1. e.k < e.d
      BY <1>2
    <3> QED BY <1>1, <3>1 DEF Dmp!NextTurn
  <2>2. f.v1 = p /\ f.v2 = q /\ f.d = r /\ f.k = e.k + 2 /\ f.forward = TRUE
    BY <2>1 DEF Dmp!Search
  <2>3. c + 1 \in 0..r /\ e.k + 2 = 2 * (c + 1) - r
    BY <1>2
  <2> QED BY <1>1, <2>2, <2>3 DEF BisectsLeast
<1>3. CASE c = r
  <2>1. f = Dmp!Search(p, q, r, -r, FALSE)
    <3>1. ~(e.k < e.d)
      BY <1>3
    <3> QED BY <1>1, <3>1 DEF Dmp!NextTurn
  <2>2. f.v1 = p /\ f.v2 = q /\ f.d = r /\ f.k = -r /\ f.forward = FALSE
    BY <2>1 DEF Dmp!Search
  <2>3. 0 \in 0..r /\ -r = 2 * 0 - r
    OBVIOUS
  <2>4. BehindLeast(Places(p, h), Places(q, h), r, 0, s, t, u, v)
    BY <1>3, AheadLeastEnds
  <2> QED BY <1>1, <2>2, <2>3, <2>4 DEF BisectsLeast
<1> QED BY <1>2, <1>3

\* And after one of the other one.
LEMMA BehindTurnsLeast ==
  ASSUME NEW s, NEW t, NEW u, NEW v, NEW n \in Nat, n = Len(s), NEW m \in Nat, m = Len(t),
         Backwards(s, u), Backwards(t, v), NEW w, w = n - m, NEW h \in Nat, NEW e,
         NEW r \in Nat, r < h, e.d = r, NEW c \in 0..r, e.k = 2 * c - r, e.forward = FALSE,
         NEW p, NEW q, Behind(Places(p, h), Places(q, h), r, c + 1, h, w, s, t),
         BehindLeast(Places(p, h), Places(q, h), r, c + 1, s, t, u, v)
  PROVE  BisectsLeast(Dmp!NextTurn(e, p, q), h, s, t, u, v)
<1>1. PICK f : f = Dmp!NextTurn(e, p, q)
  OBVIOUS
<1>2. CASE c < r
  <2>1. f = Dmp!Search(p, q, r, e.k + 2, FALSE)
    <3>1. e.k < e.d
      BY <1>2
    <3> QED BY <1>1, <3>1 DEF Dmp!NextTurn
  <2>2. f.v1 = p /\ f.v2 = q /\ f.d = r /\ f.k = e.k + 2 /\ f.forward = FALSE
    BY <2>1 DEF Dmp!Search
  <2>3. c + 1 \in 0..r /\ e.k + 2 = 2 * (c + 1) - r
    BY <1>2
  <2> QED BY <1>1, <2>2, <2>3 DEF BisectsLeast
<1>3. CASE c = r
  <2>1. f = Dmp!Search(p, q, r + 1, -(r + 1), TRUE)
    <3>1. ~(e.k < e.d)
      BY <1>3
    <3> QED BY <1>1, <3>1 DEF Dmp!NextTurn
  <2>2. f.v1 = p /\ f.v2 = q /\ f.d = r + 1 /\ f.k = -(r + 1) /\ f.forward = TRUE
    BY <2>1 DEF Dmp!Search
  <2>3. 0 \in 0..(r + 1) /\ -(r + 1) = 2 * 0 - (r + 1)
    OBVIOUS
  <2>4. AheadLeast(Places(p, h), Places(q, h), r + 1, 0, s, t, u, v)
    BY <1>3, BehindLeastEnds
  <2> QED BY <1>1, <2>2, <2>3, <2>4 DEF BisectsLeast
<1> QED BY <1>2, <1>3

\* A search that has come that far has not met the other.
LEMMA NeverMetLeast ==
  ASSUME NEW s, NEW t, NEW u, NEW v, NEW n \in Nat, n = Len(s), NEW m \in Nat, m = Len(t),
         NEW h, h = (n + m + 1) \div 2, NEW e, e.d = h,
         BisectsLeast(e, h, s, t, u, v)
  PROVE  LeastEdits(s, t) = n + m
<1>1. h \in Nat /\ n + m <= 2 * h
  <2>1. PICK l \in Nat : l = n + m
    OBVIOUS
  <2>2. (l + 1) \div 2 \in Nat /\ l <= 2 * ((l + 1) \div 2)
    OBVIOUS
  <2> QED BY <2>1, <2>2
<1>2. PICK l \in Nat : l = LeastEdits(s, t)
  BY LeastIsNumber
<1>3. 2 * h - 1 <= l
  <2>1. CASE e.forward
    BY <1>2, <2>1 DEF BisectsLeast, AheadLeast
  <2>2. CASE ~e.forward
    <3>1. 2 * h <= l
      BY <1>2, <2>2 DEF BisectsLeast, BehindLeast
    <3> QED BY <1>1, <3>1
  <2> QED BY <2>1, <2>2
<1> QED BY <1>1, <1>2, <1>3, AllNeeded

-------------------------------------------------------------------------------
(* Boxes that lie on the way of as few edits as there can be. *)

OnTheWay(box, s, t) == OnWay(s, t, box.aoff, box.alen, box.boff, box.blen)
AllOnWay(w, s, t) == \A n \in 1..Len(w) : OnTheWay(w[n], s, t)

\* No box is off the way where there is none.
LEMMA NoneOnWay == \A s, t : AllOnWay(<<>>, s, t)
BY DEF AllOnWay

\* One box alone.
LEMMA OneOnWay ==
  ASSUME NEW s, NEW t, NEW box \in BoxSet, OnTheWay(box, s, t)
  PROVE  <<box>> \in Seq(BoxSet) /\ AllOnWay(<<box>>, s, t)
<1>1. <<box>> \in Seq(BoxSet) /\ Len(<<box>>) = 1 /\ <<box>>[1] = box
  OBVIOUS
<1>2. \A n \in 1..1 : n = 1
  OBVIOUS
<1> QED BY <1>1, <1>2 DEF AllOnWay

\* One list of them after another.
LEMMA JoinOnWay ==
  ASSUME NEW s, NEW t, NEW u \in Seq(BoxSet), NEW w \in Seq(BoxSet), AllOnWay(u, s, t),
         AllOnWay(w, s, t)
  PROVE  u \o w \in Seq(BoxSet) /\ AllOnWay(u \o w, s, t)
<1>1. PICK m \in Nat, n \in Nat : m = Len(u) /\ n = Len(w)
  OBVIOUS
<1>2. /\ u \o w \in Seq(BoxSet) /\ Len(u \o w) = m + n
      /\ \A l \in 1..(m + n) : (u \o w)[l] = IF l <= m THEN u[l] ELSE w[l - m]
  BY <1>1, EndToEnd
<1>3. ASSUME NEW l \in 1..(m + n) PROVE OnTheWay((u \o w)[l], s, t)
  <2>1. CASE l <= m
    <3>1. l \in 1..m
      BY <2>1
    <3>2. (u \o w)[l] = u[l]
      BY <1>2, <2>1
    <3> QED BY <1>1, <3>1, <3>2 DEF AllOnWay
  <2>2. CASE ~(l <= m)
    <3>1. l - m \in 1..n
      BY <2>2
    <3>2. (u \o w)[l] = w[l - m]
      BY <1>2, <2>2
    <3> QED BY <1>1, <3>1, <3>2 DEF AllOnWay
  <2> QED BY <2>1, <2>2
<1> QED BY <1>2, <1>3 DEF AllOnWay

\* The first of them and the others.
LEMMA TailOnWay ==
  ASSUME NEW s, NEW t, NEW w \in Seq(BoxSet), w # <<>>, AllOnWay(w, s, t)
  PROVE  OnTheWay(Head(w), s, t) /\ Tail(w) \in Seq(BoxSet) /\ AllOnWay(Tail(w), s, t)
<1>1. PICK n \in Nat \ {0} : n = Len(w)
  BY LenProperties, EmptySeq
<1>2. /\ Head(w) = w[1] /\ Tail(w) \in Seq(BoxSet) /\ Len(Tail(w)) = n - 1
      /\ \A m \in 1..(n - 1) : Tail(w)[m] = w[m + 1]
  BY <1>1, HeadTailProperties
<1>3. 1 \in 1..n /\ \A m \in 1..(n - 1) : m + 1 \in 1..n
  OBVIOUS
<1> QED BY <1>1, <1>2, <1>3 DEF AllOnWay

\* What is said of a piece on the way.
LEMMA SayOnWay ==
  ASSUME NEW s, NEW t, NEW tag \in {"equal", "delete", "insert"}, NEW x \in Nat, NEW m \in Nat,
         NEW y \in Nat, NEW n \in Nat, OnWay(s, t, x, m, y, n)
  PROVE  Dmp!Say(tag, x, m, y, n) \in Seq(BoxSet) /\ AllOnWay(Dmp!Say(tag, x, m, y, n), s, t)
<1>1. PICK box : box = Dmp!Box(tag, x, m, y, n)
  OBVIOUS
<1>2. box.aoff = x /\ box.alen = m /\ box.boff = y /\ box.blen = n /\ box \in BoxSet
  BY <1>1 DEF Dmp!Box, BoxSet
<1>3. <<box>> \in Seq(BoxSet) /\ AllOnWay(<<box>>, s, t)
  <2>1. OnTheWay(box, s, t)
    BY <1>2 DEF OnTheWay
  <2> QED BY <1>2, <2>1, OneOnWay
<1>4. CASE m = 0 /\ n = 0
  <2>1. Dmp!Say(tag, x, m, y, n) = <<>>
    BY <1>4 DEF Dmp!Say
  <2> QED BY <2>1, NoneOnWay
<1>5. CASE ~(m = 0 /\ n = 0)
  <2>1. Dmp!Say(tag, x, m, y, n) = <<box>>
    BY <1>1, <1>5 DEF Dmp!Say
  <2> QED BY <1>3, <2>1
<1> QED BY <1>4, <1>5

\* Three lists of boxes on the way.
LEMMA ThreeLists ==
  ASSUME NEW s, NEW t, NEW A \in Seq(BoxSet), NEW B \in Seq(BoxSet), NEW C \in Seq(BoxSet),
         AllOnWay(A, s, t), AllOnWay(B, s, t), AllOnWay(C, s, t)
  PROVE  A \o B \o C \in Seq(BoxSet) /\ AllOnWay(A \o B \o C, s, t)
<1>1. A \o B \in Seq(BoxSet) /\ AllOnWay(A \o B, s, t)
  BY JoinOnWay
<1> QED BY <1>1, JoinOnWay

\* As boxes: also where there is nothing of the one, or of the other.
LEMMA AllSaid ==
  ASSUME NEW S, NEW s \in Seq(S), NEW t \in Seq(S), NEW box \in BoxSet, BoxTrue(box, s, t),
         OnTheWay(box, s, t)
  PROVE  /\ Between(s, t, box.aoff, box.alen, box.boff, box.blen) = box.alen + box.blen =>
              /\ Dmp!Deleted(box) \o Dmp!Inserted(box) \in Seq(BoxSet)
              /\ AllOnWay(Dmp!Deleted(box) \o Dmp!Inserted(box), s, t)
         /\ box.blen = 0 =>
              Dmp!Deleted(box) \in Seq(BoxSet) /\ AllOnWay(Dmp!Deleted(box), s, t)
         /\ box.alen = 0 =>
              Dmp!Inserted(box) \in Seq(BoxSet) /\ AllOnWay(Dmp!Inserted(box), s, t)
<1>1. PICK x \in Nat, m \in Nat, y \in Nat, n \in Nat :
        x = box.aoff /\ m = box.alen /\ y = box.boff /\ n = box.blen
  BY DEF BoxSet
<1>2. x + m <= Len(s) /\ y + n <= Len(t)
  BY <1>1 DEF BoxTrue
<1>3. PICK z \in Nat, x1 \in Nat : z = 0 /\ x1 = x + m
  OBVIOUS
<1>4. OnWay(s, t, x, m, y, n)
  BY <1>1 DEF OnTheWay
<1>5. Dmp!Deleted(box) = Dmp!Say("delete", x, m, y, z)
  BY <1>1, <1>3 DEF Dmp!Deleted
<1>6. Dmp!Inserted(box) = Dmp!Say("insert", x1, z, y, n)
  BY <1>1, <1>3 DEF Dmp!Inserted
<1>7. ASSUME OnWay(s, t, x, m, y, z)
      PROVE  Dmp!Deleted(box) \in Seq(BoxSet) /\ AllOnWay(Dmp!Deleted(box), s, t)
  <2>1. "delete" \in {"equal", "delete", "insert"}
    OBVIOUS
  <2>2. /\ Dmp!Say("delete", x, m, y, z) \in Seq(BoxSet)
        /\ AllOnWay(Dmp!Say("delete", x, m, y, z), s, t)
    BY <1>7, <2>1, SayOnWay
  <2> QED BY <1>5, <2>2
<1>8. ASSUME OnWay(s, t, x1, z, y, n)
      PROVE  Dmp!Inserted(box) \in Seq(BoxSet) /\ AllOnWay(Dmp!Inserted(box), s, t)
  <2>1. "insert" \in {"equal", "delete", "insert"}
    OBVIOUS
  <2>2. /\ Dmp!Say("insert", x1, z, y, n) \in Seq(BoxSet)
        /\ AllOnWay(Dmp!Say("insert", x1, z, y, n), s, t)
    BY <1>8, <2>1, SayOnWay
  <2> QED BY <1>6, <2>2
<1>9. n = 0 => Dmp!Deleted(box) \in Seq(BoxSet) /\ AllOnWay(Dmp!Deleted(box), s, t)
  BY <1>3, <1>4, <1>7
<1>10. m = 0 => Dmp!Inserted(box) \in Seq(BoxSet) /\ AllOnWay(Dmp!Inserted(box), s, t)
  <2>1. m = 0 => x1 = x
    BY <1>3
  <2> QED BY <1>3, <1>4, <1>8, <2>1
<1>11. Between(s, t, x, m, y, n) = m + n =>
         /\ Dmp!Deleted(box) \o Dmp!Inserted(box) \in Seq(BoxSet)
         /\ AllOnWay(Dmp!Deleted(box) \o Dmp!Inserted(box), s, t)
  <2> SUFFICES ASSUME Between(s, t, x, m, y, n) = m + n
               PROVE  /\ Dmp!Deleted(box) \o Dmp!Inserted(box) \in Seq(BoxSet)
                      /\ AllOnWay(Dmp!Deleted(box) \o Dmp!Inserted(box), s, t)
    OBVIOUS
  <2>1. OnWay(s, t, x, m, y, z) /\ OnWay(s, t, x1, z, y, n)
    BY <1>2, <1>3, <1>4, AllOfBoth
  <2> QED BY <1>7, <1>8, <2>1, JoinOnWay
<1> QED BY <1>1, <1>9, <1>10, <1>11

\* What is said of the shorter side within the longer one, and of what stands around it.
LEMMA FirstOnWay ==
  ASSUME NEW S, NEW s \in Seq(S), NEW t \in Seq(S), NEW x \in Nat, NEW m \in Nat, NEW y \in Nat,
         NEW l \in Nat, x + m <= Len(s), y + l <= Len(t), OnWay(s, t, x, m, y, l),
         NEW w, NEW n, NEW h, WithinFirst(w, s, t, x, m, y, l, n, h)
  PROVE  w \in Seq(BoxSet) /\ AllOnWay(w, s, t)
<1>0. n \in Nat /\ h \in Nat /\ n + l + h = m /\ Matches(s, t, x + n, y, l)
  BY DEF WithinFirst
<1>1. PICK z \in Nat, x1 \in Nat, x2 \in Nat, y2 \in Nat :
        z = 0 /\ x1 = x + n /\ x2 = x + n + l /\ y2 = y + l
  BY <1>0
<1>2. /\ m = n + l + h /\ l = z + l + z /\ x2 = x1 + l /\ y = y + z /\ y2 = y + l
      /\ x + n <= Len(s) /\ y + z <= Len(t) /\ x1 + l <= Len(s) /\ x2 + h <= Len(s)
      /\ y2 + z <= Len(t)
  <2>1. PICK c \in Nat, q \in Nat : c = Len(s) /\ q = Len(t)
    OBVIOUS
  <2> QED BY <1>0, <1>1, <2>1
<1>3. Between(s, t, x, n, y, z) = n + z
  BY <1>0, <1>1, <1>2, BetweenNothing
<1>4. Between(s, t, x2, h, y2, z) = h + z
  BY <1>0, <1>1, <1>2, BetweenNothing
<1>5. Between(s, t, x1, l, y, l) = 0
  <2>1. Matches(s, t, x1, y, l)
    BY <1>0, <1>1
  <2> QED BY <2>1, BetweenEquals
<1>6. PICK e \in Nat : e = Between(s, t, x, m, y, l) /\ m - l <= e
  <2>1. Between(s, t, x, m, y, l) \in Nat
    BY BetweenIs
  <2>2. m - l <= Between(s, t, x, m, y, l)
    BY BetweenOff
  <2> QED BY <2>1, <2>2
<1>7. InThree(s, t, x, y, n, l, h, z, l, z, m, l, x1, x2, y, y2)
  <2>1. Between(s, t, x, n, y, z) + Between(s, t, x1, l, y, l) + Between(s, t, x2, h, y2, z)
          <= Between(s, t, x, m, y, l)
    <3>1. (n + z) + 0 + (h + z) <= e
      BY <1>0, <1>1, <1>6
    <3> QED BY <1>3, <1>4, <1>5, <1>6, <3>1
  <2> QED BY <1>0, <1>1, <1>2, <2>1 DEF InThree
<1>8. OnWay(s, t, x, n, y, z) /\ OnWay(s, t, x1, l, y, l) /\ OnWay(s, t, x2, h, y2, z)
  BY <1>7, ThreeOnWay
<1>9. "delete" \in {"equal", "delete", "insert"} /\ "equal" \in {"equal", "delete", "insert"}
  OBVIOUS
<1>10. PICK A, B, C : /\ A = Dmp!Say("delete", x, n, y, z) /\ B = Dmp!Say("equal", x1, l, y, l)
                      /\ C = Dmp!Say("delete", x2, h, y2, z)
  OBVIOUS
<1>11. A \in Seq(BoxSet) /\ AllOnWay(A, s, t)
  BY <1>0, <1>8, <1>9, <1>10, SayOnWay
<1>12. B \in Seq(BoxSet) /\ AllOnWay(B, s, t)
  BY <1>8, <1>9, <1>10, SayOnWay
<1>13. C \in Seq(BoxSet) /\ AllOnWay(C, s, t)
  BY <1>0, <1>8, <1>9, <1>10, SayOnWay
<1>14. w = A \o B \o C
  BY <1>1, <1>10 DEF WithinFirst
<1> QED BY <1>11, <1>12, <1>13, <1>14, ThreeLists

\* The same with the first one within the second.
LEMMA SecondOnWay ==
  ASSUME NEW S, NEW s \in Seq(S), NEW t \in Seq(S), NEW x \in Nat, NEW m \in Nat, NEW y \in Nat,
         NEW l \in Nat, x + m <= Len(s), y + l <= Len(t), OnWay(s, t, x, m, y, l),
         NEW w, NEW n, NEW h, WithinSecond(w, s, t, x, m, y, l, n, h)
  PROVE  w \in Seq(BoxSet) /\ AllOnWay(w, s, t)
<1>0. n \in Nat /\ h \in Nat /\ n + m + h = l /\ Matches(s, t, x, y + n, m)
  BY DEF WithinSecond
<1>1. PICK z \in Nat, x2 \in Nat, y1 \in Nat, y2 \in Nat :
        z = 0 /\ x2 = x + m /\ y1 = y + n /\ y2 = y + n + m
  BY <1>0
<1>2. /\ l = n + m + h /\ m = z + m + z /\ y2 = y1 + m /\ x = x + z /\ x2 = x + m
      /\ y + n <= Len(t) /\ x + z <= Len(s) /\ y1 + m <= Len(t) /\ y2 + h <= Len(t)
      /\ x2 + z <= Len(s)
  <2>1. PICK c \in Nat, q \in Nat : c = Len(s) /\ q = Len(t)
    OBVIOUS
  <2> QED BY <1>0, <1>1, <2>1
<1>3. Between(s, t, x, z, y, n) = z + n
  BY <1>0, <1>1, <1>2, BetweenNothing
<1>4. Between(s, t, x2, z, y2, h) = z + h
  BY <1>0, <1>1, <1>2, BetweenNothing
<1>5. Between(s, t, x, m, y1, m) = 0
  <2>1. Matches(s, t, x, y1, m)
    BY <1>0, <1>1
  <2> QED BY <2>1, BetweenEquals
<1>6. PICK e \in Nat : e = Between(s, t, x, m, y, l) /\ l - m <= e
  <2>1. Between(s, t, x, m, y, l) \in Nat
    BY BetweenIs
  <2>2. l - m <= Between(s, t, x, m, y, l)
    BY BetweenOff
  <2> QED BY <2>1, <2>2
<1>7. InThree(s, t, x, y, z, m, z, n, m, h, m, l, x, x2, y1, y2)
  <2>1. Between(s, t, x, z, y, n) + Between(s, t, x, m, y1, m) + Between(s, t, x2, z, y2, h)
          <= Between(s, t, x, m, y, l)
    <3>1. (z + n) + 0 + (z + h) <= e
      BY <1>0, <1>1, <1>6
    <3> QED BY <1>3, <1>4, <1>5, <1>6, <3>1
  <2> QED BY <1>0, <1>1, <1>2, <2>1 DEF InThree
<1>8. OnWay(s, t, x, z, y, n) /\ OnWay(s, t, x, m, y1, m) /\ OnWay(s, t, x2, z, y2, h)
  BY <1>7, ThreeOnWay
<1>9. "insert" \in {"equal", "delete", "insert"} /\ "equal" \in {"equal", "delete", "insert"}
  OBVIOUS
<1>10. PICK A, B, C : /\ A = Dmp!Say("insert", x, z, y, n) /\ B = Dmp!Say("equal", x, m, y1, m)
                      /\ C = Dmp!Say("insert", x2, z, y2, h)
  OBVIOUS
<1>11. A \in Seq(BoxSet) /\ AllOnWay(A, s, t)
  BY <1>0, <1>8, <1>9, <1>10, SayOnWay
<1>12. B \in Seq(BoxSet) /\ AllOnWay(B, s, t)
  BY <1>8, <1>9, <1>10, SayOnWay
<1>13. C \in Seq(BoxSet) /\ AllOnWay(C, s, t)
  BY <1>0, <1>8, <1>9, <1>10, SayOnWay
<1>14. w = A \o B \o C
  BY <1>1, <1>10 DEF WithinSecond
<1> QED BY <1>11, <1>12, <1>13, <1>14, ThreeLists

\* Either way.
LEMMA WithinOnWay ==
  ASSUME a \in Seq(Entries), b \in Seq(Entries), NEW box \in BoxSet, BoxTrue(box, a, b),
         OnTheWay(box, a, b), NEW n, Occurs(box, n)
  PROVE  Dmp!Within(box, n) \in Seq(BoxSet) /\ AllOnWay(Dmp!Within(box, n), a, b)
<1>1. PICK x \in Nat, m \in Nat, y \in Nat, l \in Nat : Measures(box, x, m, y, l)
  BY DEF BoxSet, Measures
<1>2. x + m <= Len(a) /\ y + l <= Len(b) /\ OnWay(a, b, x, m, y, l)
  BY <1>1 DEF Measures, BoxTrue, OnTheWay
<1>3. PICK h : \/ WithinFirst(Dmp!Within(box, n), a, b, x, m, y, l, n, h)
               \/ WithinSecond(Dmp!Within(box, n), a, b, x, m, y, l, n, h)
  BY <1>1, WithinIs
<1>4. CASE WithinFirst(Dmp!Within(box, n), a, b, x, m, y, l, n, h)
  BY <1>2, <1>4, FirstOnWay
<1>5. CASE WithinSecond(Dmp!Within(box, n), a, b, x, m, y, l, n, h)
  BY <1>2, <1>5, SecondOnWay
<1> QED BY <1>3, <1>4, <1>5

\* A box with equals at its ends and a box between them.
LEMMA TrimOnWay ==
  ASSUME NEW S, NEW s \in Seq(S), NEW t \in Seq(S), NEW x \in Nat, NEW m \in Nat, NEW y \in Nat,
         NEW n \in Nat, x + m <= Len(s), y + n <= Len(t), OnWay(s, t, x, m, y, n),
         NEW u, Cut(u, s, x, m), NEW v, Cut(v, t, y, n), NEW p \in Nat, NEW q \in Nat,
         p + q <= m, p + q <= n, Matches(u, v, 0, 0, p), Matches(u, v, m - q, n - q, q),
         Matches(s, t, x, y, p), Matches(s, t, x + m - q, y + n - q, q)
  PROVE  LET pieces == Dmp!Say("equal", x, p, y, p)
                         \o <<Dmp!Box("compute", x + p, m - p - q, y + p, n - p - q)>>
                         \o Dmp!Say("equal", x + m - q, q, y + n - q, q)
         IN  pieces \in Seq(BoxSet) /\ AllOnWay(pieces, s, t)
<1>1. PICK g \in Nat, h \in Nat, m2 \in Nat, n2 \in Nat, x1 \in Nat, x2 \in Nat, y1 \in Nat,
           y2 \in Nat :
        /\ g = m - p - q /\ h = n - p - q /\ m2 = p + g /\ n2 = p + h
        /\ x1 = x + p /\ x2 = x1 + g /\ y1 = y + p /\ y2 = y1 + h
  <2>1. m - p - q \in Nat /\ n - p - q \in Nat
    OBVIOUS
  <2> QED BY <2>1
<1>2. /\ m = p + g + q /\ n = p + h + q /\ m2 + q = m /\ n2 + q = n /\ m - q = m2 /\ n - q = n2
      /\ x + m - q = x2 /\ y + n - q = y2
  BY <1>1
<1>3. x1 + g <= Len(s) /\ y1 + h <= Len(t)
  <2>1. PICK c \in Nat, l \in Nat : c = Len(s) /\ l = Len(t)
    OBVIOUS
  <2> QED BY <1>1, <1>2, <2>1
<1>4. Between(s, t, x, m, y, n) = Between(s, t, x1, g, y1, h)
  <2>1. Len(u) = m
    BY CutIs
  <2>2. Len(v) = n
    BY CutIs
  <2>3. Matches(u, v, m2, n2, q)
    BY <1>2
  <2>4. Middle(u, v, p, g, h, q, m2, n2)
    BY <1>1, <1>2, <2>1, <2>2, <2>3 DEF Middle
  <2>5. MiddleOf(u, v, x, y, g, h, x1, y1)
    BY <1>1, <2>4 DEF MiddleOf
  <2>6. Pieces(S, s, t, x, m, y, n, u, v)
    BY DEF Pieces
  <2> QED BY <2>5, <2>6, BetweenMiddle
<1>5. Between(s, t, x, p, y, p) = 0
  BY BetweenEquals
<1>6. Matches(s, t, x2, y2, q)
  BY <1>2
<1>7. Between(s, t, x2, q, y2, q) = 0
  BY <1>6, BetweenEquals
<1>8. InThree(s, t, x, y, p, g, q, p, h, q, m, n, x1, x2, y1, y2)
  <2>1. PICK e \in Nat : e = Between(s, t, x1, g, y1, h)
    BY <1>3, BetweenIs
  <2>2. 0 + e + 0 <= e
    OBVIOUS
  <2>3. Between(s, t, x, p, y, p) + Between(s, t, x1, g, y1, h) + Between(s, t, x2, q, y2, q)
          <= Between(s, t, x, m, y, n)
    BY <1>4, <1>5, <1>7, <2>1, <2>2
  <2> QED BY <1>1, <1>2, <2>3 DEF InThree
<1>9. OnWay(s, t, x, p, y, p) /\ OnWay(s, t, x1, g, y1, h) /\ OnWay(s, t, x2, q, y2, q)
  BY <1>8, ThreeOnWay, SMTT(60)
<1>10. "equal" \in {"equal", "delete", "insert"}
  OBVIOUS
<1>11. PICK A, box, C : /\ A = Dmp!Say("equal", x, p, y, p) /\ box = Dmp!Box("compute", x1, g, y1, h)
                        /\ C = Dmp!Say("equal", x2, q, y2, q)
  OBVIOUS
<1>12. A \in Seq(BoxSet) /\ AllOnWay(A, s, t)
  BY <1>9, <1>10, <1>11, SayOnWay
<1>13. C \in Seq(BoxSet) /\ AllOnWay(C, s, t)
  BY <1>9, <1>10, <1>11, SayOnWay
<1>14. <<box>> \in Seq(BoxSet) /\ AllOnWay(<<box>>, s, t)
  <2>1. box \in BoxSet /\ box.aoff = x1 /\ box.alen = g /\ box.boff = y1 /\ box.blen = h
    BY <1>11 DEF Dmp!Box, BoxSet
  <2>2. OnTheWay(box, s, t)
    BY <1>9, <2>1 DEF OnTheWay
  <2> QED BY <2>1, <2>2, OneOnWay
<1>15. A \o <<box>> \o C \in Seq(BoxSet) /\ AllOnWay(A \o <<box>> \o C, s, t)
  BY <1>12, <1>13, <1>14, ThreeLists
<1>16. /\ Dmp!Say("equal", x, p, y, p) = A
       /\ Dmp!Box("compute", x + p, m - p - q, y + p, n - p - q) = box
       /\ Dmp!Say("equal", x + m - q, q, y + n - q, q) = C
  BY <1>1, <1>2, <1>11
<1> QED BY <1>15, <1>16

\* A box cut in two halfway.
LEMMA SplitOnWay ==
  ASSUME NEW S, NEW s \in Seq(S), NEW t \in Seq(S), NEW x0 \in Nat, NEW m \in Nat, NEW y0 \in Nat,
         NEW n \in Nat, x0 + m <= Len(s), y0 + n <= Len(t), OnWay(s, t, x0, m, y0, n),
         NEW u, Cut(u, s, x0, m), NEW v, Cut(v, t, y0, n), NEW su, Backwards(u, su),
         NEW tv, Backwards(v, tv), NEW x \in 0..m, NEW y \in 0..n,
         Halfway(u, v, su, tv, m, n, x, y)
  PROVE  LET pieces == <<Dmp!Box("main", x0, x, y0, y),
                         Dmp!Box("main", x0 + x, m - x, y0 + y, n - y)>>
         IN  pieces \in Seq(BoxSet) /\ AllOnWay(pieces, s, t)
<1>1. PICK g \in Nat, h \in Nat, x1 \in Nat, y1 \in Nat :
        g = m - x /\ h = n - y /\ x1 = x0 + x /\ y1 = y0 + y
  OBVIOUS
<1>2. x + g = m /\ y + h = n /\ x \in Nat /\ y \in Nat
  BY <1>1
<1>3. Between(s, t, x0, x, y0, y) = Least(u, v, x, y)
  BY BetweenFirst
<1>4. Between(s, t, x1, g, y1, h) = Least(su, tv, g, h)
  <2>1. LastOf(x0, m, y0, n, g, h, x1, y1)
    BY <1>1, <1>2 DEF LastOf
  <2>2. Pieces(S, s, t, x0, m, y0, n, u, v)
    BY DEF Pieces
  <2> QED BY <2>1, <2>2, BetweenLast
<1>5. Between(s, t, x0, m, y0, n) = LeastEdits(u, v)
  BY CutBetween
<1>6. InTwo(s, t, x0, y0, x, g, y, h, m, n, x1, y1)
  <2>1. Least(u, v, x, y) + Least(su, tv, g, h) <= LeastEdits(u, v)
    BY <1>1 DEF Halfway
  <2> QED BY <1>1, <1>2, <1>3, <1>4, <1>5, <2>1 DEF InTwo
<1>7. OnWay(s, t, x0, x, y0, y) /\ OnWay(s, t, x1, g, y1, h)
  BY <1>6, TwoOnWay
<1>8. PICK p, q : p = Dmp!Box("main", x0, x, y0, y) /\ q = Dmp!Box("main", x1, g, y1, h)
  OBVIOUS
<1>9. p \in BoxSet /\ OnTheWay(p, s, t)
  BY <1>2, <1>7, <1>8 DEF Dmp!Box, BoxSet, OnTheWay
<1>10. q \in BoxSet /\ OnTheWay(q, s, t)
  BY <1>7, <1>8 DEF Dmp!Box, BoxSet, OnTheWay
<1>11. <<p, q>> \in Seq(BoxSet) /\ AllOnWay(<<p, q>>, s, t)
  <2>1. /\ <<p, q>> \in Seq(BoxSet) /\ Len(<<p, q>>) = 2 /\ <<p, q>>[1] = p /\ <<p, q>>[2] = q
    BY <1>9, <1>10
  <2>2. \A l \in 1..2 : l = 1 \/ l = 2
    OBVIOUS
  <2> QED BY <1>9, <1>10, <2>1, <2>2 DEF AllOnWay
<1> QED BY <1>1, <1>8, <1>11

\* What has been said of two sequences is as little as there can be, and what there is to do
\* lies on the way of as few edits; a search of the first box knows how far its edits lead.
\* What is merged is as much as what there was.
DmpLeast ==
  engine = "dmp" =>
    /\ pc = "divide" => EditsOf(list) = Least(a, b, i, j) /\ AllOnWay(work, a, b)
    /\ search # <<>> =>
         BisectsLeast(search, Dmp!Bound(Head(work)), Dmp!InA(Head(work)), Dmp!InB(Head(work)),
                      Dmp!Reverse(Dmp!InA(Head(work))), Dmp!Reverse(Dmp!InB(Head(work))))
    /\ pc = "merge" => EditsOf(ops) + EditsOf(list) = LeastEdits(a, b)
    /\ pc = "done" => EditsOf(ops) = LeastEdits(a, b)

\* At the start the whole of both is on the way.
LEMMA DmpLeastInit == Init => DmpLeast
<1> SUFFICES ASSUME Init, engine = "dmp" PROVE DmpLeast
  BY DEF DmpLeast
<1>1. a \in Seq(Entries) /\ b \in Seq(Entries)
  <2>1. DmpInv
    BY DmpInvInit
  <2> QED BY <2>1 DEF DmpInv
<1>2. Dmp!Start
  BY DEF Init
<1>3. PICK x \in Nat, y \in Nat : x = Len(a) /\ y = Len(b)
  BY <1>1
<1>4. PICK box : box = Dmp!Box("main", 0, x, 0, y)
  OBVIOUS
<1>5. /\ box \in BoxSet /\ box.aoff = 0 /\ box.alen = x /\ box.boff = 0 /\ box.blen = y
  BY <1>4 DEF Dmp!Box, BoxSet
<1>6. work = <<box>> /\ search = <<>> /\ i = 0 /\ j = 0 /\ list = <<>> /\ pc = "divide"
  BY <1>2, <1>3, <1>4 DEF Dmp!Start
<1>7. Least(a, b, 0, 0) = 0
  <2>1. 0 \in 0..Len(a) /\ 0 \in 0..Len(b) /\ Len(a) \in Nat /\ Len(b) \in Nat
    BY <1>3
  <2> QED BY <2>1, LeastSteps DEF LeastGoes
<1>8. OnWay(a, b, 0, x, 0, y)
  <2>1. PICK u, v : Cut(u, a, 0, x) /\ Cut(v, b, 0, y)
    BY DEF Cut
  <2>2. Between(a, b, 0, x, 0, y) = Least(u, v, x, y)
    <3>1. x \in 0..x /\ y \in 0..y /\ 0 \in Nat /\ 0 + x <= Len(a) /\ 0 + y <= Len(b)
      BY <1>3
    <3> QED BY <1>1, <2>1, <3>1, BetweenFirst
  <2>3. u = a /\ v = b
    BY <1>1, <1>3, <2>1 DEF Cut
  <2>4. Least(a, b, x, y) \in Nat
    <3>1. Len(a) \in Nat /\ Len(b) \in Nat
      BY <1>3
    <3>2. LeastEdits(a, b) \in Nat /\ LeastEdits(a, b) = Least(a, b, Len(a), Len(b))
      BY <3>1, LeastIsNumber
    <3> QED BY <1>3, <3>2
  <2>5. Least(a, b, 0 + x, 0 + y) = Least(a, b, x, y)
    BY <1>3
  <2> QED BY <1>7, <2>2, <2>3, <2>4, <2>5 DEF OnWay
<1>9. AllOnWay(work, a, b)
  <2>1. OnTheWay(box, a, b)
    BY <1>5, <1>8 DEF OnTheWay
  <2> QED BY <1>5, <1>6, <2>1, OneOnWay
<1> QED BY <1>6, <1>7, <1>9, NoEdits DEF DmpLeast

\* The first box is on the way, and the others.
LEMMA FirstOnTheWay ==
  ASSUME DmpInv, DmpLeast, engine = "dmp", pc = "divide", work # <<>>
  PROVE  OnTheWay(Head(work), a, b) /\ Tail(work) \in Seq(BoxSet) /\ AllOnWay(Tail(work), a, b)
<1>1. work \in Seq(BoxSet)
  BY DEF DmpInv, Tiles
<1>2. AllOnWay(work, a, b)
  BY DEF DmpLeast
<1> QED BY <1>1, <1>2, TailOnWay

\* Other pieces on the way in the place of the first one.
LEMMA LeastBecomes ==
  ASSUME DmpInv, DmpLeast, engine = "dmp", pc = "divide", work # <<>>, engine' = engine,
         NEW pieces \in Seq(BoxSet), AllOnWay(pieces, a, b), Dmp!Becomes(pieces), search' = <<>>
  PROVE  DmpLeast'
<1>1. UNCHANGED <<a, b, i, j, list, ops, pc>> /\ work' = pieces \o Tail(work)
  BY DEF Dmp!Becomes
<1>2. AllOnWay(pieces \o Tail(work), a, b)
  BY FirstOnTheWay, JoinOnWay
<1>3. AllOnWay(work', a', b')
  BY <1>1, <1>2
<1>4. EditsOf(list') = Least(a', b', i', j')
  BY <1>1 DEF DmpLeast
<1> QED BY <1>1, <1>3, <1>4 DEF DmpLeast

\* A box of which one side is empty, or whose sides are equal, or the ends of them.
LEMMA DmpTrimLeast ==
  ASSUME DmpInv, DmpLeast, engine = "dmp", Dmp!Trim, engine' = engine
  PROVE  DmpLeast'
<1> DEFINE box == Head(work)
           u == Dmp!InA(box)
           v == Dmp!InB(box)
           p == Dmp!Extent(u, v, 0, 0)
           s == Dmp!Extent(Dmp!Reverse(SubSeq(u, p + 1, box.alen)),
                           Dmp!Reverse(SubSeq(v, p + 1, box.blen)), 0, 0)
           prefix == Dmp!Say("equal", box.aoff, p, box.boff, p)
           middle == Dmp!Box("compute", box.aoff + p, box.alen - p - s,
                                        box.boff + p, box.blen - p - s)
           suffix == Dmp!Say("equal", box.aoff + box.alen - s, s, box.boff + box.blen - s, s)
           whole == Dmp!Say("equal", box.aoff, box.alen, box.boff, box.blen)
           pieces == IF box.alen = 0 THEN Dmp!Inserted(box)
                     ELSE IF box.blen = 0 THEN Dmp!Deleted(box)
                     ELSE IF u = v THEN whole
                     ELSE prefix \o <<middle>> \o suffix
<1>1. pc = "divide" /\ search = <<>> /\ work # <<>> /\ search' = search
  BY DEF Dmp!Trim, Dmp!Working
<1>2. Dmp!Becomes(pieces)
  BY DEF Dmp!Trim
<1>3. /\ a \in Seq(Entries) /\ b \in Seq(Entries) /\ box \in BoxSet /\ BoxTrue(box, a, b)
      /\ OnTheWay(box, a, b)
  BY <1>1, FirstBox, FirstOnTheWay
<1>4. PICK x \in Nat, m \in Nat, y \in Nat, n \in Nat :
        x = box.aoff /\ m = box.alen /\ y = box.boff /\ n = box.blen
  BY <1>3 DEF BoxSet
<1>5. x + m <= Len(a) /\ y + n <= Len(b) /\ OnWay(a, b, x, m, y, n)
  BY <1>3, <1>4 DEF BoxTrue, OnTheWay
<1>6. Measures(box, x, m, y, n)
  BY <1>4 DEF Measures
<1>7. ASSUME pieces \in Seq(BoxSet), AllOnWay(pieces, a, b) PROVE DmpLeast'
  <2> HIDE DEF pieces
  <2> QED BY <1>1, <1>2, <1>7, LeastBecomes
<1>8. CASE m = 0
  <2>1. pieces = Dmp!Inserted(box)
    BY <1>4, <1>8
  <2>2. Dmp!Inserted(box) \in Seq(BoxSet) /\ AllOnWay(Dmp!Inserted(box), a, b)
    <3>1. box.alen = 0
      BY <1>4, <1>8
    <3> HIDE DEF box
    <3> QED BY <1>3, <3>1, AllSaid
  <2> HIDE DEF pieces
  <2> QED BY <1>7, <2>1, <2>2
<1>9. CASE m # 0 /\ n = 0
  <2>1. pieces = Dmp!Deleted(box)
    BY <1>4, <1>9
  <2>2. Dmp!Deleted(box) \in Seq(BoxSet) /\ AllOnWay(Dmp!Deleted(box), a, b)
    <3>1. box.blen = 0
      BY <1>4, <1>9
    <3> HIDE DEF box
    <3> QED BY <1>3, <3>1, AllSaid
  <2> HIDE DEF pieces
  <2> QED BY <1>7, <2>1, <2>2
<1>10. CASE m # 0 /\ n # 0 /\ u = v
  <2>1. pieces = Dmp!Say("equal", x, m, y, n)
    BY <1>4, <1>10
  <2>2. /\ Dmp!Say("equal", x, m, y, n) \in Seq(BoxSet)
        /\ AllOnWay(Dmp!Say("equal", x, m, y, n), a, b)
    <3>1. "equal" \in {"equal", "delete", "insert"}
      OBVIOUS
    <3> HIDE DEF box, u, v, p, s, pieces
    <3> QED BY <1>5, <3>1, SayOnWay
  <2> HIDE DEF pieces
  <2> QED BY <1>7, <2>1, <2>2
<1>11. CASE m # 0 /\ n # 0 /\ u # v
  <2> DEFINE q == Dmp!Say("equal", x, p, y, p)
                    \o <<Dmp!Box("compute", x + p, m - p - s, y + p, n - p - s)>>
                    \o Dmp!Say("equal", x + m - s, s, y + n - s, s)
  <2>1. pieces = q
    BY <1>4, <1>11
  <2>2. TrimAt(u, v, x, m, y, n, p, s)
    <3>1. /\ u = Dmp!InA(box) /\ v = Dmp!InB(box) /\ p = Dmp!Extent(u, v, 0, 0)
          /\ s = Dmp!Extent(Dmp!Reverse(SubSeq(u, p + 1, box.alen)),
                            Dmp!Reverse(SubSeq(v, p + 1, box.blen)), 0, 0)
      OBVIOUS
    <3> HIDE DEF p, s, u, v, box, pieces, q
    <3> QED BY <1>3, <1>5, <1>6, <3>1, TrimmedEnds
  <2>3. Cut(u, a, x, m) /\ Cut(v, b, y, n)
    <3> HIDE DEF box
    <3> QED BY <1>3, <1>5, <1>6, InBox
  <2> HIDE DEF pieces, p, s, u, v
  <2>4. q \in Seq(BoxSet) /\ AllOnWay(q, a, b)
    BY <1>3, <1>5, <2>2, <2>3, TrimOnWay DEF TrimAt
  <2> HIDE DEF q
  <2> QED BY <1>7, <2>1, <2>4
<1> QED BY <1>8, <1>9, <1>10, <1>11

\* A sequence of one entry that does not occur in another has nothing in common with it.
LEMMA NoOccurrence ==
  ASSUME NEW s, NEW t, NEW n \in Nat \ {0}, n = Len(s), Len(t) = 1, Dmp!FirstOccurrence(s, t) = {}
  PROVE  \A x \in 1..n, y \in 1..1 : s[x] # t[y]
<1> SUFFICES ASSUME NEW x \in 1..n, s[x] = t[1] PROVE FALSE
  <2>1. \A y \in 1..1 : y = 1
    OBVIOUS
  <2> QED BY <2>1
<1> DEFINE T == {l \in 0..(n - 1) : Matches(s, t, l, 0, 1)}
<1>1. x - 1 \in T
  <2>1. \A k1 \in 1..1 : k1 = 1
    OBVIOUS
  <2>2. x - 1 \in 0..(n - 1) /\ (x - 1) + 1 = x /\ 0 + 1 = 1 /\ x <= Len(s) /\ 1 <= Len(t)
    OBVIOUS
  <2>3. Matches(s, t, x - 1, 0, 1)
    BY <2>1, <2>2 DEF Matches
  <2> QED BY <2>2, <2>3
<1>2. T \in SUBSET Nat /\ T # {}
  BY <1>1
<1>3. PICK l \in T : \A z \in T : l <= z
  <2> HIDE DEF T
  <2> QED BY <1>2, LeastNatural
<1>4. l \in 0..(Len(s) - Len(t)) /\ Matches(s, t, l, 0, Len(t))
  BY <1>3
<1>5. \A z \in 0..(l - 1) : ~Matches(s, t, z, 0, Len(t))
  <2> SUFFICES ASSUME NEW z \in 0..(l - 1), Matches(s, t, z, 0, 1) PROVE FALSE
    OBVIOUS
  <2>1. z \in T /\ ~(l <= z)
    BY <1>4
  <2> QED BY <1>3, <2>1
<1>6. l \in Dmp!FirstOccurrence(s, t)
  BY <1>4, <1>5, DmpWords DEF Dmp!FirstOccurrence
<1> QED BY <1>6

\* Two pieces of which the shorter one is one entry, or none, and does not occur in the other
\* one take all the edits that there can be.
LEMMA NothingAlike ==
  ASSUME a \in Seq(Entries), b \in Seq(Entries), NEW box \in BoxSet, BoxTrue(box, a, b),
         box.alen > 0, box.blen > 0, Dmp!Smaller(box.alen, box.blen) = 1,
         \A n : ~Occurs(box, n)
  PROVE  Between(a, b, box.aoff, box.alen, box.boff, box.blen) = box.alen + box.blen
<1>1. PICK x \in Nat, m \in Nat \ {0}, y \in Nat, n \in Nat \ {0} :
        x = box.aoff /\ m = box.alen /\ y = box.boff /\ n = box.blen
  BY DEF BoxSet
<1>2. x + m <= Len(a) /\ y + n <= Len(b) /\ Measures(box, x, m, y, n)
  BY <1>1 DEF BoxTrue, Measures
<1>3. PICK u, v : u = Dmp!InA(box) /\ v = Dmp!InB(box)
  OBVIOUS
<1>4. Cut(u, a, x, m) /\ Len(u) = m /\ Cut(v, b, y, n) /\ Len(v) = n
  BY <1>2, <1>3, InBox
<1>5. \A p \in 1..m, q \in 1..n : u[p] # v[q]
  <2>1. CASE m > n
    <3>1. n = 1
      BY <1>1, <2>1, DmpWords DEF Smaller
    <3>2. Dmp!FirstOccurrence(u, v) = {}
      BY <1>1, <1>3, <2>1 DEF Occurs
    <3>3. \A p \in 1..m, q \in 1..1 : u[p] # v[q]
      BY <1>4, <3>1, <3>2, NoOccurrence
    <3> QED BY <3>1, <3>3
  <2>2. CASE ~(m > n)
    <3>1. m = 1
      BY <1>1, <2>2, DmpWords DEF Smaller
    <3>2. Dmp!FirstOccurrence(v, u) = {}
      BY <1>1, <1>3, <2>2 DEF Occurs
    <3>3. \A p \in 1..n, q \in 1..1 : v[p] # u[q]
      BY <1>4, <3>1, <3>2, NoOccurrence
    <3> QED BY <3>1, <3>3
  <2> QED BY <2>1, <2>2
<1>6. LeastEdits(u, v) = m + n
  BY <1>4, <1>5, LeastOfNothing
<1>7. Between(a, b, x, m, y, n) = LeastEdits(u, v)
  BY <1>4, CutBetween
<1> QED BY <1>1, <1>6, <1>7

\* A box that has one side within the other, or nothing to compare, or is searched.
LEMMA DmpComputeLeast ==
  ASSUME DmpInv, DmpLeast, engine = "dmp", Dmp!Compute, engine' = engine
  PROVE  DmpLeast'
<1> DEFINE box == Head(work)
           u == Dmp!InA(box)
           v == Dmp!InB(box)
           places == IF box.alen > box.blen THEN Dmp!FirstOccurrence(u, v)
                    ELSE Dmp!FirstOccurrence(v, u)
           cost == Between(a, b, box.aoff, box.alen, box.boff, box.blen)
<1>1. pc = "divide" /\ search = <<>> /\ work # <<>>
  BY DEF Dmp!Compute, Dmp!Working
<1>2. /\ a \in Seq(Entries) /\ b \in Seq(Entries) /\ box \in BoxSet /\ BoxTrue(box, a, b)
      /\ OnTheWay(box, a, b) /\ Len(u) = box.alen /\ Len(v) = box.blen
  BY <1>1, FirstBox, FirstOnTheWay
<1>3. \A n : n \in places <=> Occurs(box, n)
  BY DEF Occurs
<1>4. CASE /\ Dmp!Becomes(Dmp!Deleted(box) \o Dmp!Inserted(box)) /\ search' = search
           /\ cost = box.alen + box.blen
  <2>1. /\ Dmp!Deleted(box) \o Dmp!Inserted(box) \in Seq(BoxSet)
        /\ AllOnWay(Dmp!Deleted(box) \o Dmp!Inserted(box), a, b)
    <3>1. Between(a, b, box.aoff, box.alen, box.boff, box.blen) = box.alen + box.blen
      BY <1>4
    <3> HIDE DEF box, cost
    <3> QED BY <1>2, <3>1, AllSaid
  <2> HIDE DEF box
  <2> QED BY <1>1, <1>4, <2>1, LeastBecomes
<1>5. ASSUME NEW n \in places, Dmp!Becomes(Dmp!Within(box, n)), search' = search
      PROVE  DmpLeast'
  <2>1. Dmp!Within(box, n) \in Seq(BoxSet) /\ AllOnWay(Dmp!Within(box, n), a, b)
    <3>1. Occurs(box, n)
      BY <1>3, <1>5
    <3> HIDE DEF box, places
    <3> QED BY <1>2, <3>1, WithinOnWay
  <2> HIDE DEF box, places
  <2> QED BY <1>1, <1>5, <2>1, LeastBecomes
<1>6. CASE search' = Dmp!StartSearch(box) /\ UNCHANGED <<a, b, work, i, j, list, ops, pc>>
  <2>1. BisectsLeast(Dmp!StartSearch(box), Dmp!Bound(box), u, v, Dmp!Reverse(u), Dmp!Reverse(v))
    <3>1. Len(u) \in Nat /\ Len(v) \in Nat
      BY <1>2 DEF BoxSet
    <3> HIDE DEF box, u, v
    <3> QED BY <3>1, SearchBeginsLeast
  <2>2. box' = box /\ u' = u /\ v' = v
    BY <1>6 DEF Dmp!InA, Dmp!InB
  <2>3. BisectsLeast(search', Dmp!Bound(box'), u', v', Dmp!Reverse(u'), Dmp!Reverse(v'))
    <3> HIDE DEF box, u, v
    <3> QED BY <1>6, <2>1, <2>2
  <2>4. EditsOf(list') = Least(a', b', i', j') /\ AllOnWay(work', a', b') /\ pc' = "divide"
    BY <1>1, <1>6 DEF DmpLeast
  <2> QED BY <2>3, <2>4 DEF DmpLeast
<1>7. ASSUME box.alen = 0 \/ box.blen = 0 PROVE cost = box.alen + box.blen
  <2>1. PICK x \in Nat, m \in Nat, y \in Nat, n \in Nat :
          x = box.aoff /\ m = box.alen /\ y = box.boff /\ n = box.blen
    BY <1>2 DEF BoxSet
  <2>2. x + m <= Len(a) /\ y + n <= Len(b) /\ (m = 0 \/ n = 0)
    BY <1>2, <1>7, <2>1 DEF BoxTrue
  <2>3. Between(a, b, x, m, y, n) = m + n
    BY <1>2, <2>2, BetweenNothing
  <2> QED BY <2>1, <2>3
<1>8. ASSUME box.alen > 0, box.blen > 0, places = {}, Dmp!Smaller(box.alen, box.blen) = 1
      PROVE  cost = box.alen + box.blen
  <2>1. \A n : ~Occurs(box, n)
    BY <1>3, <1>8
  <2>2. Between(a, b, box.aoff, box.alen, box.boff, box.blen) = box.alen + box.blen
    <3> HIDE DEF box, places, cost
    <3> QED BY <1>2, <1>8, <2>1, NothingAlike
  <2> QED BY <2>2
<1>9. \/ /\ Dmp!Becomes(Dmp!Deleted(box) \o Dmp!Inserted(box)) /\ search' = search
         /\ \/ box.alen = 0 \/ box.blen = 0
            \/ /\ box.alen > 0 /\ box.blen > 0 /\ places = {}
               /\ Dmp!Smaller(box.alen, box.blen) = 1
      \/ \E n \in places : Dmp!Becomes(Dmp!Within(box, n)) /\ search' = search
      \/ search' = Dmp!StartSearch(box) /\ UNCHANGED <<a, b, work, i, j, list, ops, pc>>
  BY DEF Dmp!Compute
<1> HIDE DEF box, places, cost
<1> QED BY <1>4, <1>5, <1>6, <1>7, <1>8, <1>9

\* A search that has not met the other leaves its box as two: it has nothing in common.
LEMMA DmpNeverMetLeast ==
  ASSUME DmpInv, DmpLeast, engine = "dmp", Dmp!NeverMet, engine' = engine
  PROVE  DmpLeast'
<1>1. PICK box : box = Head(work)
  OBVIOUS
<1>2. pc = "divide" /\ work # <<>> /\ search # <<>> /\ search.d = Dmp!Bound(box)
  BY <1>1 DEF DmpInv, Dmp!NeverMet
<1>3. /\ a \in Seq(Entries) /\ b \in Seq(Entries) /\ box \in BoxSet /\ BoxTrue(box, a, b)
      /\ OnTheWay(box, a, b)
  BY <1>1, <1>2, FirstBox, FirstOnTheWay
<1>4. PICK x \in Nat, m \in Nat, y \in Nat, n \in Nat :
        x = box.aoff /\ m = box.alen /\ y = box.boff /\ n = box.blen
  BY <1>3 DEF BoxSet
<1>5. x + m <= Len(a) /\ y + n <= Len(b) /\ Measures(box, x, m, y, n)
  BY <1>3, <1>4 DEF BoxTrue, Measures
<1>6. PICK s, t, u, v, h, e : /\ s = Dmp!InA(box) /\ t = Dmp!InB(box) /\ u = Dmp!Reverse(s)
                              /\ v = Dmp!Reverse(t) /\ h = Dmp!Bound(box) /\ e = search
  OBVIOUS
<1>7. Cut(s, a, x, m) /\ Len(s) = m /\ Cut(t, b, y, n) /\ Len(t) = n
  BY <1>3, <1>5, <1>6, InBox
<1>8. BisectsLeast(e, h, s, t, u, v)
  BY <1>1, <1>2, <1>6 DEF DmpLeast
<1>9. LeastEdits(s, t) = m + n
  <2>1. h = (m + n + 1) \div 2 /\ e.d = h
    BY <1>2, <1>4, <1>6 DEF Dmp!Bound
  <2> QED BY <1>7, <1>8, <2>1, NeverMetLeast, ZenonT(60)
<1>10. Between(a, b, x, m, y, n) = LeastEdits(s, t)
  BY <1>7, CutBetween
<1>11. Between(a, b, box.aoff, box.alen, box.boff, box.blen) = box.alen + box.blen
  BY <1>4, <1>9, <1>10
<1>12. PICK pieces : pieces = Dmp!Deleted(box) \o Dmp!Inserted(box)
  OBVIOUS
<1>13. pieces \in Seq(BoxSet) /\ AllOnWay(pieces, a, b)
  BY <1>3, <1>11, <1>12, AllSaid
<1>14. Dmp!Becomes(pieces) /\ search' = <<>>
  BY <1>1, <1>12 DEF Dmp!NeverMet
<1> QED BY <1>2, <1>13, <1>14, LeastBecomes

\* A box cut in two where its searches meet, halfway.
LEMMA SplitKeepsLeast ==
  ASSUME DmpInv, DmpLeast, engine = "dmp", engine' = engine, pc = "divide", work # <<>>,
         NEW box, box = Head(work), NEW x \in 0..box.alen, NEW y \in 0..box.blen,
         NEW s, s = Dmp!InA(box), NEW t, t = Dmp!InB(box),
         Halfway(s, t, Dmp!Reverse(s), Dmp!Reverse(t), box.alen, box.blen, x, y),
         Dmp!SplitAt(box, x, y)
  PROVE  DmpLeast'
<1>1. /\ a \in Seq(Entries) /\ b \in Seq(Entries) /\ box \in BoxSet /\ BoxTrue(box, a, b)
      /\ OnTheWay(box, a, b)
  BY FirstBox, FirstOnTheWay
<1>2. PICK x0 \in Nat, m \in Nat, y0 \in Nat, n \in Nat :
        x0 = box.aoff /\ m = box.alen /\ y0 = box.boff /\ n = box.blen
  BY <1>1 DEF BoxSet
<1>3. x0 + m <= Len(a) /\ y0 + n <= Len(b) /\ OnWay(a, b, x0, m, y0, n)
  BY <1>1, <1>2 DEF BoxTrue, OnTheWay
<1>4. /\ s \in Seq(Entries) /\ t \in Seq(Entries) /\ Cut(s, a, x0, m) /\ Cut(t, b, y0, n)
  <2>1. Measures(box, x0, m, y0, n)
    BY <1>2 DEF Measures
  <2> QED BY <1>1, <1>3, <2>1, InBox
<1>5. PICK u, v : u = Dmp!Reverse(s) /\ v = Dmp!Reverse(t)
  OBVIOUS
<1>6. Backwards(s, u)
  BY <1>4, <1>5, ReverseIsBackwards
<1>7. Backwards(t, v)
  BY <1>4, <1>5, ReverseIsBackwards
<1>8. x \in 0..m /\ y \in 0..n /\ Halfway(s, t, u, v, m, n, x, y)
  BY <1>2, <1>5
<1>9. PICK pieces : pieces = <<Dmp!Box("main", x0, x, y0, y),
                               Dmp!Box("main", x0 + x, m - x, y0 + y, n - y)>>
  OBVIOUS
<1>10. pieces \in Seq(BoxSet) /\ AllOnWay(pieces, a, b)
  BY <1>1, <1>3, <1>4, <1>6, <1>7, <1>8, <1>9, SplitOnWay
<1>11. Dmp!Becomes(pieces) /\ search' = <<>>
  BY <1>2, <1>9 DEF Dmp!SplitAt
<1> QED BY <1>10, <1>11, LeastBecomes

\* A turn of the search that leaves the boxes as they are.
LEMMA TurnKeepsLeast ==
  ASSUME DmpLeast, engine = "dmp", engine' = engine, pc = "divide", work # <<>>,
         NEW box, box = Head(work), NEW s, s = Dmp!InA(box), NEW t, t = Dmp!InB(box),
         NEW e, search' = e,
         BisectsLeast(e, Dmp!Bound(box), s, t, Dmp!Reverse(s), Dmp!Reverse(t)),
         UNCHANGED <<a, b, work, i, j, list, ops, pc>>
  PROVE  DmpLeast'
<1>1. Head(work') = box /\ Dmp!InA(Head(work))' = s /\ Dmp!InB(Head(work))' = t
  BY DEF Dmp!InA, Dmp!InB
<1>2. EditsOf(list') = Least(a', b', i', j') /\ AllOnWay(work', a', b') /\ pc' = "divide"
  BY DEF DmpLeast
<1> QED BY <1>1, <1>2 DEF DmpLeast

\* The first search does so.
LEMMA AheadStepLeast ==
  ASSUME NEW s, NEW t, NEW n \in Nat, n = Len(s), NEW m \in Nat, m = Len(t),
         NEW u, NEW v, Backwards(s, u), Backwards(t, v),
         NEW h \in Nat, h > 1, NEW p \in ArraySet(h), NEW q \in ArraySet(h), NEW r \in Nat, r < h,
         NEW c \in 0..r, NEW k1, k1 = 2 * c - r, NEW w, w = n - m, NEW o, o = h + w - k1,
         Ahead(Places(p, h), Places(q, h), r, c, h, w, s, t),
         AheadLeast(Places(p, h), Places(q, h), r, c, s, t, u, v),
         NEW x, x = Dmp!Furthest(p, h, k1, r, s, t)
  PROVE  AheadTurnLeast(p, q, h, r, c, w, x, s, t, u, v)
<1>1. x \in Int
  <2>1. Ahead(Places(p, h), Places(q, h), r, c, h, Len(s) - Len(t), s, t)
    OBVIOUS
  <2>2. x \in Nat
    BY <2>1, AheadFurthest
  <2> QED BY <2>2
<1>2. /\ FrontAt(x, k1, r, s, t)
      /\ \A p2 : p2 = [p EXCEPT ![h + k1] = x] =>
           AheadLeast(Places(p2, h), Places(q, h), r, c + 1, s, t, u, v)
  <2>1. Len(s) \in Nat /\ Len(t) \in Nat
    OBVIOUS
  <2> QED BY <1>1, <2>1, AheadComes
<1>3. ASSUME w % 2 # 0, Meet(q, o, x, n) PROVE Halfway(s, t, u, v, n, m, x, x - k1)
  <2>1. x \in 0..n /\ x - k1 \in 0..m
    <3>1. AheadTurn(p, q, h, r, c, w, x, s, t)
      BY AheadStep
    <3> QED BY <1>3, <3>1 DEF AheadTurn
  <2>2. PICK x2 \in 0..m : x2 = x - k1
    BY <2>1
  <2>3. OnDiagonal(x, x2, k1)
    BY <1>1, <2>2 DEF OnDiagonal
  <2>4. AtTurn(h, r, c, k1, w, o, n, m)
    BY DEF AtTurn
  <2>5. Halfway(s, t, u, v, n, m, x, x2)
    BY <1>2, <1>3, <2>1, <2>3, <2>4, AheadMeets
  <2> QED BY <2>2, <2>5
<1> QED BY <1>2, <1>3 DEF AheadTurnLeast

\* The second one does so, from the ends.
LEMMA BehindStepLeast ==
  ASSUME NEW s, NEW t, NEW n \in Nat, n = Len(s), NEW m \in Nat, m = Len(t),
         NEW u, NEW v, Backwards(s, u), Backwards(t, v),
         NEW h \in Nat, h > 1, NEW p \in ArraySet(h), NEW q \in ArraySet(h), NEW r \in Nat, r < h,
         NEW c \in 0..r, NEW k1, k1 = 2 * c - r, NEW w, w = n - m, NEW o, o = h + w - k1,
         Behind(Places(p, h), Places(q, h), r, c, h, w, s, t),
         BehindLeast(Places(p, h), Places(q, h), r, c, s, t, u, v),
         NEW x, x = Dmp!Furthest(q, h, k1, r, u, v)
  PROVE  BehindTurnLeast(p, q, h, r, c, w, x, s, t, u, v)
<1>0. Len(u) = n /\ Len(v) = m /\ Len(u) \in Nat /\ Len(v) \in Nat
  BY DEF Backwards
<1>1. x \in Nat
  <2>1. (r = 0 => Places(q, h)[1].x = 0) /\ Deep(Places(q, h), r - 1, r)
    BY DEF Behind
  <2>2. Dmp!Furthest(q, h, k1, r, u, v) \in Nat
    BY <1>0, <2>1, BehindFurthest
  <2> QED BY <2>2
<1>2. /\ FrontAt(x, k1, r, u, v)
      /\ \A q2 : q2 = [q EXCEPT ![h + k1] = x] =>
           BehindLeast(Places(p, h), Places(q2, h), r, c + 1, s, t, u, v)
  <2>1. x \in Int
    BY <1>1
  <2> QED BY <1>0, <2>1, BehindComes
<1>3. ASSUME w % 2 = 0, Meet(p, o, x, n) PROVE Halfway(s, t, u, v, n, m, p[o], h + p[o] - o)
  <2>1. p[o] \in 0..n /\ h + p[o] - o \in 0..m
    <3>1. BehindTurn(p, q, h, r, c, w, x, s, t)
      BY <1>0, BehindStep
    <3> QED BY <1>3, <3>1 DEF BehindTurn
  <2>2. PICK x1 \in 0..n, x2 \in 0..m : x1 = p[o] /\ x2 = h + x1 - o
    BY <2>1
  <2>4. AtTurn(h, r, c, k1, w, o, n, m)
    BY DEF AtTurn
  <2>5. Halfway(s, t, u, v, n, m, x1, x2)
    BY <1>1, <1>2, <1>3, <2>2, <2>4, BehindMeets
  <2> QED BY <2>2, <2>5
<1> QED BY <1>2, <1>3 DEF BehindTurnLeast

\* What both know at one diagonal.
LEMMA SameTurn ==
  ASSUME NEW e, NEW h, NEW s, NEW t, NEW u, NEW v, NEW box,
         h = Dmp!Bound(box), Bisects(e, box, s, t), BisectsLeast(e, h, s, t, u, v),
         NEW w, w = Len(s) - Len(t), NEW r \in Nat, r = e.d
  PROVE  \E c \in 0..r :
           /\ e.k = 2 * c - r
           /\ e.forward =>
                /\ Ahead(Places(e.v1, h), Places(e.v2, h), r, c, h, w, s, t)
                /\ AheadLeast(Places(e.v1, h), Places(e.v2, h), r, c, s, t, u, v)
           /\ ~e.forward =>
                /\ Behind(Places(e.v1, h), Places(e.v2, h), r, c, h, w, s, t)
                /\ BehindLeast(Places(e.v1, h), Places(e.v2, h), r, c, s, t, u, v)
<1>1. PICK c \in 0..r :
        /\ e.k = 2 * c - r
        /\ e.forward =>
             Ahead(Places(e.v1, h), Places(e.v2, h), r, c, h, w, s, t)
        /\ ~e.forward =>
             Behind(Places(e.v1, h), Places(e.v2, h), r, c, h, w, s, t)
  BY DEF Bisects
<1>2. PICK g \in 0..r :
        /\ e.k = 2 * g - r
        /\ e.forward =>
             AheadLeast(Places(e.v1, h), Places(e.v2, h), r, g, s, t, u, v)
        /\ ~e.forward =>
             BehindLeast(Places(e.v1, h), Places(e.v2, h), r, g, s, t, u, v)
  BY DEF BisectsLeast
<1>3. g = c
  <2>1. 2 * g - r = 2 * c - r
    BY <1>1, <1>2
  <2> QED BY <2>1
<1> QED BY <1>1, <1>2, <1>3

\* One turn of the search.
LEMMA DmpBisectLeast ==
  ASSUME DmpInv, DmpLeast, engine = "dmp", Dmp!Bisect, engine' = engine
  PROVE  DmpLeast'
<1>1. PICK box : box = Head(work)
  OBVIOUS
<1>2. PICK s, t, p, q, k1, r, h, u, v :
        /\ s = Dmp!InA(box) /\ t = Dmp!InB(box) /\ p = search.v1 /\ q = search.v2
        /\ k1 = search.k /\ r = search.d /\ h = Dmp!Bound(box)
        /\ u = Dmp!Reverse(s) /\ v = Dmp!Reverse(t)
  OBVIOUS
<1>3. pc = "divide" /\ work # <<>> /\ search # <<>> /\ Bisects(search, box, s, t)
  BY <1>1, <1>2 DEF DmpInv, Dmp!Bisect
<1>4. /\ box \in BoxSet /\ s \in Seq(Entries) /\ t \in Seq(Entries)
      /\ Len(s) = box.alen /\ Len(t) = box.blen
  BY <1>1, <1>2, <1>3, FirstBox
<1>5. PICK n \in Nat, m \in Nat : n = box.alen /\ m = box.blen
  BY <1>4 DEF BoxSet
<1>6. n = Len(s) /\ m = Len(t) /\ box.alen > 1 /\ box.blen > 1
  BY <1>3, <1>4, <1>5 DEF Bisects
<1>7. h \in Nat /\ h > 1
  BY <1>2, <1>5, <1>6, BoundIs
<1>8. p \in ArraySet(h) /\ q \in ArraySet(h) /\ r \in 0..h
  BY <1>2, <1>3 DEF Bisects
<1>9. r \in Nat /\ r < h
  BY <1>1, <1>2, <1>7, <1>8 DEF Dmp!Bisect
<1>10. PICK w, o : w = n - m /\ o = h + w - k1
  OBVIOUS
<1>11. PICK c \in 0..r :
         /\ k1 = 2 * c - r
         /\ search.forward => /\ Ahead(Places(p, h), Places(q, h), r, c, h, w, s, t)
                              /\ AheadLeast(Places(p, h), Places(q, h), r, c, s, t, u, v)
         /\ ~search.forward => /\ Behind(Places(p, h), Places(q, h), r, c, h, w, s, t)
                               /\ BehindLeast(Places(p, h), Places(q, h), r, c, s, t, u, v)
  <2>1. BisectsLeast(search, h, s, t, u, v)
    BY <1>1, <1>2, <1>3 DEF DmpLeast
  <2>2. w = Len(s) - Len(t)
    BY <1>6, <1>10
  <2> QED BY <1>2, <1>3, <1>9, <2>1, <2>2, SameTurn
<1>12. Backwards(s, u)
  BY <1>2, <1>4, ReverseIsBackwards
<1>13. Backwards(t, v)
  BY <1>2, <1>4, ReverseIsBackwards
<1>14. ASSUME NEW x \in 0..n, NEW y \in 0..m, Dmp!SplitAt(box, x, y),
              Halfway(s, t, u, v, n, m, x, y)
       PROVE  DmpLeast'
  <2>1. /\ x \in 0..box.alen /\ y \in 0..box.blen
        /\ Halfway(s, t, Dmp!Reverse(s), Dmp!Reverse(t), box.alen, box.blen, x, y)
    BY <1>2, <1>5, <1>14
  <2> QED BY <1>1, <1>2, <1>3, <1>14, <2>1, SplitKeepsLeast
<1>15. ASSUME NEW e, search' = e, BisectsLeast(e, h, s, t, u, v),
              UNCHANGED <<a, b, work, i, j, list, ops, pc>>
       PROVE  DmpLeast'
  <2>1. BisectsLeast(e, Dmp!Bound(box), s, t, Dmp!Reverse(s), Dmp!Reverse(t))
    BY <1>2, <1>15
  <2> QED BY <1>1, <1>2, <1>3, <1>15, <2>1, TurnKeepsLeast
<1>16. CASE search.forward
  <2>1. PICK x : x = Dmp!Furthest(p, h, k1, r, s, t)
    OBVIOUS
  <2>2. IF w % 2 # 0 /\ Meet(q, o, x, n) THEN Dmp!SplitAt(box, x, x - k1)
        ELSE /\ search' = Dmp!NextTurn(search, [p EXCEPT ![h + k1] = x], q)
             /\ UNCHANGED <<a, b, work, i, j, list, ops, pc>>
    BY <1>1, <1>2, <1>5, <1>10, <1>16, <2>1 DEF Dmp!Bisect, Meet
  <2>3. /\ Ahead(Places(p, h), Places(q, h), r, c, h, w, s, t)
        /\ AheadLeast(Places(p, h), Places(q, h), r, c, s, t, u, v) /\ k1 = 2 * c - r
    BY <1>11, <1>16
  <2>4. AheadTurn(p, q, h, r, c, w, x, s, t)
    BY <1>6, <1>7, <1>8, <1>9, <1>10, <2>1, <2>3, AheadStep
  <2>5. AheadTurnLeast(p, q, h, r, c, w, x, s, t, u, v)
    BY <1>6, <1>7, <1>8, <1>9, <1>10, <1>12, <1>13, <2>1, <2>3, AheadStepLeast
  <2>6. CASE w % 2 # 0 /\ Meet(q, o, x, n)
    <3>1. x \in 0..n /\ x - k1 \in 0..m
      BY <1>6, <1>10, <2>3, <2>4, <2>6 DEF AheadTurn
    <3>2. Halfway(s, t, u, v, n, m, x, x - k1)
      BY <1>6, <1>10, <2>3, <2>5, <2>6 DEF AheadTurnLeast
    <3> QED BY <1>14, <2>2, <2>6, <3>1, <3>2
  <2>7. CASE ~(w % 2 # 0 /\ Meet(q, o, x, n))
    <3>1. PICK p2 : p2 = [p EXCEPT ![h + k1] = x]
      OBVIOUS
    <3>2. Ahead(Places(p2, h), Places(q, h), r, c + 1, h, w, s, t)
      BY <1>6, <1>10, <2>3, <2>4, <2>7, <3>1 DEF AheadTurn
    <3>3. AheadLeast(Places(p2, h), Places(q, h), r, c + 1, s, t, u, v)
      BY <1>6, <1>10, <2>3, <2>5, <2>7, <3>1 DEF AheadTurnLeast
    <3>4. search.forward = TRUE /\ search.d = r /\ search.k = 2 * c - r
      BY <1>2, <1>11, <1>16
    <3>5. BisectsLeast(Dmp!NextTurn(search, p2, q), h, s, t, u, v)
      BY <1>6, <1>7, <1>9, <1>10, <1>12, <1>13, <3>2, <3>3, <3>4, AheadTurnsLeast
    <3>6. search' = Dmp!NextTurn(search, p2, q) /\ UNCHANGED <<a, b, work, i, j, list, ops, pc>>
      BY <2>2, <2>7, <3>1
    <3> QED BY <1>15, <3>5, <3>6
  <2> QED BY <2>6, <2>7
<1>17. CASE ~search.forward
  <2>1. PICK x : x = Dmp!Furthest(q, h, k1, r, u, v)
    OBVIOUS
  <2>2. IF w % 2 = 0 /\ o \in DOMAIN p /\ p[o] # -1 /\ p[o] >= n - x
        THEN Dmp!SplitAt(box, p[o], h + p[o] - o)
        ELSE /\ search' = Dmp!NextTurn(search, p, [q EXCEPT ![h + k1] = x])
             /\ UNCHANGED <<a, b, work, i, j, list, ops, pc>>
    BY <1>1, <1>2, <1>5, <1>10, <1>17, <2>1 DEF Dmp!Bisect
  <2>3. /\ Behind(Places(p, h), Places(q, h), r, c, h, w, s, t)
        /\ BehindLeast(Places(p, h), Places(q, h), r, c, s, t, u, v) /\ k1 = 2 * c - r
    BY <1>11, <1>17
  <2>4. Len(u) = n /\ Len(v) = m
    BY <1>6, <1>12, <1>13 DEF Backwards
  <2>5. x \in Int
    <3>1. (r = 0 => Places(q, h)[1].x = 0) /\ Deep(Places(q, h), r - 1, r)
      BY <2>3 DEF Behind
    <3>2. Len(u) \in Nat /\ Len(v) \in Nat
      BY <2>4
    <3>3. Dmp!Furthest(q, h, k1, r, u, v) \in Nat
      BY <1>7, <1>8, <1>9, <2>3, <3>1, <3>2, BehindFurthest
    <3> QED BY <2>1, <3>3
  <2>6. BehindTurn(p, q, h, r, c, w, x, s, t)
    BY <1>6, <1>7, <1>8, <1>9, <1>10, <2>1, <2>3, <2>4, BehindStep
  <2>7. BehindTurnLeast(p, q, h, r, c, w, x, s, t, u, v)
    BY <1>6, <1>7, <1>8, <1>9, <1>10, <1>12, <1>13, <2>1, <2>3, BehindStepLeast
  <2>8. Meet(p, o, x, n) <=> o \in DOMAIN p /\ p[o] # -1 /\ p[o] >= n - x
    <3>1. ASSUME o \in DOMAIN p PROVE p[o] >= n - x <=> x >= n - p[o]
      <4>1. p[o] \in Int
        BY <1>8, <3>1 DEF ArraySet
      <4>2. PICK z \in Int : z = p[o]
        BY <4>1
      <4> QED BY <2>5, <4>2
    <3> QED BY <3>1 DEF Meet
  <2>9. CASE w % 2 = 0 /\ Meet(p, o, x, n)
    <3>1. p[o] \in 0..n /\ h + p[o] - o \in 0..m
      BY <1>6, <1>10, <2>3, <2>6, <2>9 DEF BehindTurn
    <3>2. Halfway(s, t, u, v, n, m, p[o], h + p[o] - o)
      BY <1>6, <1>10, <2>3, <2>7, <2>9 DEF BehindTurnLeast
    <3> QED BY <1>14, <2>2, <2>8, <2>9, <3>1, <3>2
  <2>10. CASE ~(w % 2 = 0 /\ Meet(p, o, x, n))
    <3>1. PICK q2 : q2 = [q EXCEPT ![h + k1] = x]
      OBVIOUS
    <3>2. Behind(Places(p, h), Places(q2, h), r, c + 1, h, w, s, t)
      BY <1>6, <1>10, <2>3, <2>6, <2>10, <3>1 DEF BehindTurn
    <3>3. BehindLeast(Places(p, h), Places(q2, h), r, c + 1, s, t, u, v)
      BY <1>6, <1>10, <2>3, <2>7, <2>10, <3>1 DEF BehindTurnLeast
    <3>4. search.forward = FALSE /\ search.d = r /\ search.k = 2 * c - r
      BY <1>2, <1>11, <1>17
    <3>5. BisectsLeast(Dmp!NextTurn(search, p, q2), h, s, t, u, v)
      BY <1>6, <1>7, <1>9, <1>10, <1>12, <1>13, <3>2, <3>3, <3>4, BehindTurnsLeast
    <3>6. search' = Dmp!NextTurn(search, p, q2) /\ UNCHANGED <<a, b, work, i, j, list, ops, pc>>
      BY <2>2, <2>8, <2>10, <3>1
    <3> QED BY <1>15, <3>5, <3>6
  <2> QED BY <2>9, <2>10
<1> QED BY <1>16, <1>17

\* What is said of a piece is as many edits as it takes at least: nothing of equals, all of
\* what is deleted or inserted.
LEMMA PieceCosts ==
  ASSUME NEW s \in Seq(Entries), NEW t \in Seq(Entries), NEW box \in BoxSet, BoxTrue(box, s, t),
         box.do \in {"equal", "delete", "insert"}, NEW op, op.tag = box.do,
         op.i2 = op.i1 + box.alen, op.j2 = op.j1 + box.blen, op \in OpcodeSet
  PROVE  EditsIn(op) = Between(s, t, box.aoff, box.alen, box.boff, box.blen)
<1>1. PICK x \in Nat, m \in Nat, y \in Nat, n \in Nat :
        x = box.aoff /\ m = box.alen /\ y = box.boff /\ n = box.blen
  BY DEF BoxSet
<1>2. PICK p \in Nat, q \in Nat : p = op.i1 /\ q = op.j1 /\ op.i2 = p + m /\ op.j2 = q + n
  BY <1>1 DEF OpcodeSet
<1>3. x + m <= Len(s) /\ y + n <= Len(t)
  BY <1>1 DEF BoxTrue
<1>4. CASE box.do = "equal"
  <2>1. n = m /\ Matches(s, t, x, y, m)
    BY <1>1, <1>4 DEF BoxTrue
  <2>2. Between(s, t, x, m, y, m) = 0
    BY <2>1, BetweenEquals
  <2>3. EditsIn(op) = 0
    BY <1>4 DEF EditsIn
  <2> QED BY <1>1, <2>1, <2>2, <2>3
<1>5. CASE box.do # "equal"
  <2>1. m = 0 \/ n = 0
    BY <1>1, <1>5 DEF BoxTrue
  <2>2. Between(s, t, x, m, y, n) = m + n
    BY <1>3, <2>1, BetweenNothing
  <2>3. EditsIn(op) = (p + m) - p + (q + n) - q
    BY <1>2, <1>5 DEF EditsIn
  <2>4. (p + m) - p + (q + n) - q = m + n
    OBVIOUS
  <2> QED BY <1>1, <2>2, <2>3, <2>4
<1> QED BY <1>4, <1>5

\* What is said of a box on the way leaves as few edits said as there can be.
LEMMA DmpTranslateLeast ==
  ASSUME DmpInv, DmpLeast, engine = "dmp", Dmp!Translate, engine' = engine
  PROVE  DmpLeast'
<1>1. PICK box : box = Head(work)
  OBVIOUS
<1>2. /\ pc = "divide" /\ search = <<>> /\ work # <<>> /\ box.do \in {"equal", "delete", "insert"}
      /\ UNCHANGED <<a, b, search, ops, pc>> /\ work' = Tail(work)
  BY <1>1 DEF Dmp!Translate, Dmp!Working
<1>3. /\ a \in Seq(Entries) /\ b \in Seq(Entries) /\ box \in BoxSet /\ BoxTrue(box, a, b)
      /\ box.aoff = i /\ box.boff = j /\ OnTheWay(box, a, b) /\ AllOnWay(Tail(work), a, b)
  BY <1>1, <1>2, FirstBox, FirstOnTheWay
<1>4. PICK x \in Nat, m \in Nat, y \in Nat, n \in Nat :
        x = box.aoff /\ m = box.alen /\ y = box.boff /\ n = box.blen
  BY <1>3 DEF BoxSet
<1>5. PICK tag \in {"equal", "delete", "insert"} : tag = box.do
  BY <1>2
<1>6. /\ tag = "equal" => n = m
      /\ tag = "delete" => n = 0
      /\ tag = "insert" => m = 0
  BY <1>3, <1>4, <1>5 DEF BoxTrue
<1> DEFINE op == Opcode(tag, x, x + m, y, y + n)
<1>7. list' = Append(list, op) /\ i' = x + m /\ j' = y + n
  <2>1. /\ m = (IF tag = "insert" THEN 0 ELSE m)
        /\ n = (IF tag = "delete" THEN 0 ELSE IF tag = "equal" THEN m ELSE n)
    BY <1>6
  <2>2. \A c, e, f, g, h : Dmp!Opcode(c, e, f, g, h) = Opcode(c, e, f, g, h)
    BY DmpWords
  <2>3. i = x /\ j = y
    BY <1>3, <1>4
  <2> QED BY <1>1, <1>4, <1>5, <2>1, <2>2, <2>3 DEF Dmp!Translate
<1>8. /\ op \in OpcodeSet /\ op.i1 = x /\ op.i2 = x + m /\ op.j1 = y /\ op.j2 = y + n
      /\ op.tag = tag
  BY DEF Opcode, OpcodeSet, Tags
<1> HIDE DEF op
<1>9. EditsIn(op) = Between(a, b, x, m, y, n)
  <2>1. op.tag = box.do /\ op.i2 = op.i1 + box.alen /\ op.j2 = op.j1 + box.blen
    BY <1>4, <1>5, <1>8
  <2>2. EditsIn(op) = Between(a, b, box.aoff, box.alen, box.boff, box.blen)
    BY <1>2, <1>3, <1>8, <2>1, PieceCosts
  <2> QED BY <1>4, <2>2
<1>10. list \in Seq(OpcodeSet) /\ EditsOf(list) = Least(a, b, x, y)
  BY <1>2, <1>3, <1>4 DEF DmpInv, DmpLeast, SaidUpTo
<1>11. EditsOf(list') = EditsOf(list) + EditsIn(op)
  <2>1. list' = list \o <<op>>
    BY <1>7, <1>8, <1>10, AppendIsConcat
  <2>2. EditsOf(list \o <<op>>) = EditsOf(list) + EditsIn(op)
    BY <1>8, <1>10, EditsOfMore
  <2> QED BY <2>1, <2>2
<1>12. Least(a, b, x + m, y + n) = Least(a, b, x, y) + Between(a, b, x, m, y, n)
  BY <1>3, <1>4 DEF OnTheWay, OnWay
<1>13. EditsOf(list') = Least(a', b', i', j')
  <2>1. EditsOf(list') = Least(a, b, x + m, y + n)
    BY <1>9, <1>10, <1>11, <1>12
  <2> QED BY <1>2, <1>7, <2>1
<1> QED BY <1>2, <1>3, <1>13 DEF DmpLeast

\* With nothing left to do they are as few as turn the whole of one into the whole of the
\* other.
LEMMA DmpDividedLeast ==
  ASSUME DmpInv, DmpLeast, engine = "dmp", Dmp!Divided, engine' = engine
  PROVE  DmpLeast'
<1>1. /\ pc = "divide" /\ work = <<>> /\ pc' = "merge"
      /\ UNCHANGED <<a, b, work, search, i, j, list, ops>>
  BY DEF Dmp!Divided
<1>2. /\ i = Len(a) /\ j = Len(b) /\ list \in Seq(OpcodeSet) /\ ops = <<>> /\ search = <<>>
      /\ a \in Seq(Entries) /\ b \in Seq(Entries)
  BY <1>1 DEF DmpInv, Tiles, SaidUpTo
<1>3. EditsOf(list) = LeastEdits(a, b)
  <2>1. Len(a) \in Nat /\ Len(b) \in Nat
    BY <1>2
  <2>2. LeastEdits(a, b) = Least(a, b, Len(a), Len(b))
    BY <2>1, LeastIsNumber
  <2> QED BY <1>1, <1>2, <2>2 DEF DmpLeast
<1>4. EditsOf(ops) + EditsOf(list) = LeastEdits(a, b)
  <2>1. EditsOf(list) \in Int
    BY <1>2, EditsAreNumber
  <2> QED BY <1>2, <1>3, <2>1, NoEdits
<1>5. EditsOf(ops') + EditsOf(list') = LeastEdits(a', b')
  BY <1>1, <1>4
<1>6. search' = <<>>
  BY <1>1, <1>2
<1> QED BY <1>1, <1>5, <1>6 DEF DmpLeast

\* A replacement says what the deletion and the insertion say that it is made of.
LEMMA DmpMergeLeast ==
  ASSUME DmpInv, DmpLeast, engine = "dmp", Dmp!Merge, engine' = engine
  PROVE  DmpLeast'
<1>1. /\ pc = "merge" /\ list # <<>> /\ NoneEmpty(list) /\ search = <<>>
      /\ UNCHANGED <<a, b, work, search, i, j, pc>>
  BY DEF DmpInv, Dmp!Merge
<1>2. PICK x, y : Remains(list, a, b, x, y) /\ SaidUpTo(ops, a, b, x, y)
  BY <1>1 DEF DmpInv
<1>3. PICK o, r : o = Head(list) /\ r = Tail(list)
  OBVIOUS
<1>4. /\ o \in OpcodeSet /\ OpcodeTrue(o, a, b) /\ Remains(r, a, b, o.i2, o.j2)
  BY <1>1, <1>2, <1>3, OneFewer
<1>5. list \in Seq(OpcodeSet) /\ ops \in Seq(OpcodeSet)
  BY <1>2 DEF Remains, SaidUpTo
<1>6. /\ o = list[1] /\ r \in Seq(OpcodeSet) /\ (r = <<>> <=> Len(list) <= 1)
      /\ Len(list) > 1 => Head(r) = list[2]
  BY <1>1, <1>3, <1>5, NoneEmptyTail
<1>7. EditsOf(list) = EditsIn(o) + EditsOf(r)
  BY <1>1, <1>3, <1>5, EditsOfRest
<1>8. EditsOf(ops) + EditsOf(list) = LeastEdits(a, b)
  BY <1>1 DEF DmpLeast
<1>9. ASSUME NEW said \in Seq(OpcodeSet), NEW op \in OpcodeSet,
             EditsOf(list) = EditsIn(op) + EditsOf(said), ops' = Append(ops, op), list' = said
      PROVE  DmpLeast'
  <2>1. ops' = ops \o <<op>>
    BY <1>5, <1>9, AppendIsConcat
  <2>2. EditsOf(ops \o <<op>>) = EditsOf(ops) + EditsIn(op)
    BY <1>5, <1>9, EditsOfMore
  <2>3. EditsOf(ops) \in Int /\ EditsOf(said) \in Int
    BY <1>5, <1>9, EditsAreNumber
  <2>4. EditsIn(op) \in Int
    BY <1>9 DEF EditsIn, OpcodeSet
  <2>5. EditsOf(ops') + EditsOf(list') = LeastEdits(a, b)
    BY <1>8, <1>9, <2>1, <2>2, <2>3, <2>4
  <2>6. EditsOf(ops') + EditsOf(list') = LeastEdits(a', b') /\ search' = <<>> /\ pc' = "merge"
    BY <1>1, <2>5
  <2> QED BY <2>6 DEF DmpLeast
<1>10. CASE Len(list) > 1 /\ list[1].tag = "delete" /\ list[2].tag = "insert"
  <2>1. PICK e, w : e = Head(r) /\ w = Tail(r)
    OBVIOUS
  <2>2. r # <<>> /\ e = list[2]
    <3>1. ~(Len(list) <= 1)
      BY <1>5, <1>10
    <3> QED BY <1>6, <1>10, <2>1, <3>1
  <2>3. e \in OpcodeSet /\ OpcodeTrue(e, a, b)
    BY <1>4, <2>1, <2>2, OneFewer
  <2>4. w \in Seq(OpcodeSet)
    BY <1>6, <2>1, <2>2, HeadTailProperties
  <2>5. EditsOf(r) = EditsIn(e) + EditsOf(w)
    BY <1>6, <2>1, <2>2, EditsOfRest
  <2> DEFINE op == Opcode("replace", o.i1, o.i2, e.j1, e.j2)
  <2>6. /\ op \in OpcodeSet /\ op.tag = "replace" /\ op.i1 = o.i1 /\ op.i2 = o.i2
        /\ op.j1 = e.j1 /\ op.j2 = e.j2
    BY <1>4, <2>3 DEF Opcode, OpcodeSet, Tags
  <2>7. ops' = Append(ops, op) /\ list' = w
    <3>1. \A c, p, f, g, h : Dmp!Opcode(c, p, f, g, h) = Opcode(c, p, f, g, h)
      BY DmpWords
    <3>2. /\ ops' = Append(ops, Dmp!Opcode("replace", o.i1, o.i2, e.j1, e.j2))
          /\ list' = Tail(Tail(list))
      BY <1>6, <1>10, <2>2 DEF Dmp!Merge
    <3> QED BY <1>3, <2>1, <3>1, <3>2
  <2> HIDE DEF op
  <2>8. o.tag = "delete" /\ e.tag = "insert"
    BY <1>6, <1>10, <2>2
  <2>9. o.j1 = o.j2
    BY <1>4, <2>8 DEF OpcodeTrue
  <2>10. e.i1 = e.i2
    BY <2>3, <2>8 DEF OpcodeTrue
  <2>11. EditsIn(op) = EditsIn(o) + EditsIn(e)
    <3>1. PICK x1 \in Nat, x2 \in Nat, y1 \in Nat : x1 = o.i1 /\ x2 = o.i2 /\ y1 = o.j1
      BY <1>4 DEF OpcodeSet
    <3>2. PICK x3 \in Nat, y2 \in Nat, y3 \in Nat : x3 = e.i1 /\ y2 = e.j1 /\ y3 = e.j2
      BY <2>3 DEF OpcodeSet
    <3>3. EditsIn(o) = x2 - x1 + y1 - y1
      BY <2>8, <2>9, <3>1 DEF EditsIn
    <3>4. EditsIn(e) = x3 - x3 + y3 - y2
      BY <2>8, <2>10, <3>2 DEF EditsIn
    <3>5. EditsIn(op) = x2 - x1 + y3 - y2
      BY <2>6, <3>1, <3>2 DEF EditsIn
    <3> QED BY <3>3, <3>4, <3>5
  <2>12. EditsOf(list) = EditsIn(op) + EditsOf(w)
    <3>1. EditsIn(o) \in Int
      BY <1>4 DEF EditsIn, OpcodeSet
    <3>2. EditsIn(e) \in Int
      BY <2>3 DEF EditsIn, OpcodeSet
    <3>3. EditsOf(w) \in Int
      BY <2>4, EditsAreNumber
    <3> QED BY <1>7, <2>5, <2>11, <3>1, <3>2, <3>3
  <2> QED BY <1>9, <2>4, <2>6, <2>7, <2>12
<1>11. CASE ~(Len(list) > 1 /\ list[1].tag = "delete" /\ list[2].tag = "insert")
  <2>1. ops' = Append(ops, o) /\ list' = r
    BY <1>3, <1>6, <1>11 DEF Dmp!Merge
  <2> QED BY <1>4, <1>6, <1>7, <1>9, <2>1
<1> QED BY <1>10, <1>11

\* When nothing remains to be merged, all the edits are in what has been merged.
LEMMA DmpFinishLeast ==
  ASSUME DmpInv, DmpLeast, engine = "dmp", Dmp!Finish, engine' = engine
  PROVE  DmpLeast'
<1>1. /\ pc = "merge" /\ list = <<>> /\ pc' = "done" /\ search = <<>>
      /\ UNCHANGED <<a, b, work, search, i, j, list, ops>>
  BY DEF DmpInv, Dmp!Finish
<1>2. ops \in Seq(OpcodeSet)
  BY <1>1 DEF DmpInv, SaidUpTo
<1>3. EditsOf(ops) = LeastEdits(a, b)
  <2>1. EditsOf(ops) \in Int
    BY <1>2, EditsAreNumber
  <2>2. EditsOf(ops) + EditsOf(list) = LeastEdits(a, b)
    BY <1>1 DEF DmpLeast
  <2> QED BY <1>1, <2>1, <2>2, NoEdits
<1>4. EditsOf(ops') = LeastEdits(a', b') /\ search' = <<>>
  BY <1>1, <1>3
<1> QED BY <1>1, <1>4 DEF DmpLeast

\* No other engine runs once this one is chosen.
LEMMA DmpLeastNext == DmpInv /\ DmpLeast /\ [Next]_vars => DmpLeast'
<1> SUFFICES ASSUME DmpInv, DmpLeast, [Next]_vars, engine' = "dmp" PROVE DmpLeast'
  BY DEF DmpLeast
<1>1. CASE RunDmp
  <2>1. engine = "dmp" /\ Dmp!Next /\ engine' = engine
    BY <1>1 DEF RunDmp
  <2> QED BY <2>1, DmpTrimLeast, DmpComputeLeast, DmpBisectLeast, DmpNeverMetLeast,
             DmpTranslateLeast, DmpDividedLeast, DmpMergeLeast, DmpFinishLeast DEF Dmp!Next
<1>2. CASE UNCHANGED vars
  <2>1. UNCHANGED <<engine, a, b, i, j, ops, pc, work, search, list>>
    BY <1>2 DEF vars, dmpVars
  <2> QED BY <2>1 DEF DmpLeast, Dmp!InA, Dmp!InB
<1>3. CASE RunGreedy \/ RunMyers \/ RunSes \/ RunDifflib \/ RunChunk \/ RunRolling \/ WriteAndApply
  <2>1. engine' # "dmp"
    BY <1>3 DEF RunGreedy, RunMyers, RunSes, RunDifflib, RunChunk, RunRolling, WriteAndApply,
                ByteEngines
  <2> QED BY <2>1
<1> QED BY <1>1, <1>2, <1>3 DEF Next

\* When the Myers engine, or the bisecting one, is done, it has said as few edits as there can
\* be: the Myers engine because its frontier is as far as so many edits lead, the
\* bisecting one because it trims, finds within and cuts in two only where such edits go.
THEOREM EditsAreLeast == Spec => []LeastEditsFound
<1>1. DmpLeast => (engine = "dmp" => LeastEditsFound)
  BY DEF DmpLeast, LeastEditsFound, Compared, TextEngines
<1>2. (engine = "myers" => LeastEditsFound) /\ (engine = "dmp" => LeastEditsFound)
        => LeastEditsFound
  BY DEF LeastEditsFound
<1> QED BY <1>1, <1>2, DmpInvInit, DmpInvNext, DmpLeastInit, DmpLeastNext, MyersLeastEdits,
           PTL DEF Spec

-------------------------------------------------------------------------------
(* The longest match. *)

\* Regions of the two texts, and runs of lines that are alike.
RegionSet == [alo : Nat, ahi : Nat, blo : Nat, bhi : Nat]
RunSet == [i : Nat, j : Nat, size : Nat]

RegionTrue(r, s, t) ==
  /\ r \in RegionSet
  /\ r.alo <= r.ahi /\ r.ahi <= Len(s) /\ r.blo <= r.bhi /\ r.bhi <= Len(t)

RunTrue(m, s, t) == m \in RunSet /\ Matches(s, t, m.i, m.j, m.size)

\* A run lies in a region.
Within(m, r) ==
  r.alo <= m.i /\ m.i + m.size <= r.ahi /\ r.blo <= m.j /\ m.j + m.size <= r.bhi

\* The words of the module for what all matchers say are those of Opcodes.
LEMMA DifflibWords ==
  /\ \A p, q, r, s, t : Difflib!Matches(p, q, r, s, t) = Matches(p, q, r, s, t)
  /\ \A p, q, r, s : Difflib!Extent(p, q, r, s) = Extent(p, q, r, s)
  /\ \A p, q, r, s : Difflib!Change(p, q, r, s) = Change(p, q, r, s)
  /\ \A p, q, r, s, t : Difflib!Opcode(p, q, r, s, t) = Opcode(p, q, r, s, t)
  /\ \A p : Difflib!Reverse(p) = Dmp!Reverse(p)
<1>1. \A p, q, r, s, t : Difflib!Matches(p, q, r, s, t) = Matches(p, q, r, s, t)
  BY DEF Difflib!Matches, Matches
<1>2. \A p, q, r, s : Difflib!Extent(p, q, r, s) = Extent(p, q, r, s)
  BY DEF Difflib!Extent, Extent, Difflib!Smaller, Smaller, Difflib!MatchesExactly, MatchesExactly,
         Difflib!Matches, Matches
<1>3. \A p, q, r, s, t : Difflib!Opcode(p, q, r, s, t) = Opcode(p, q, r, s, t)
  BY DEF Difflib!Opcode, Opcode
<1>4. \A p, q, r, s : Difflib!Change(p, q, r, s) = Change(p, q, r, s)
  BY DEF Difflib!Change, Change, Difflib!Opcode, Opcode
<1>5. \A p : Difflib!Reverse(p) = Dmp!Reverse(p)
  BY DEF Difflib!Reverse, Dmp!Reverse
<1> QED BY <1>1, <1>2, <1>3, <1>4, <1>5

\* A run and the one that begins where it ends are a run.
LEMMA RunsJoin ==
  ASSUME NEW s, NEW t, NEW x \in Nat, NEW y \in Nat, NEW m \in Nat, NEW n \in Nat,
         Matches(s, t, x, y, m), Matches(s, t, x + m, y + m, n)
  PROVE  Matches(s, t, x, y, m + n)
<1>1. \A z \in 1..m : s[x + z] = t[y + z]
  BY DEF Matches
<1>2. \A z \in 1..n : s[(x + m) + z] = t[(y + m) + z]
  BY DEF Matches
<1>3. ASSUME NEW z \in 1..(m + n), z > m PROVE s[x + z] = t[y + z]
  <2>1. z - m \in 1..n /\ (x + m) + (z - m) = x + z /\ (y + m) + (z - m) = y + z
    BY <1>3
  <2> QED BY <1>2, <2>1
<1>4. \A z \in 1..(m + n) : z <= m => z \in 1..m
  OBVIOUS
<1>5. x + (m + n) = (x + m) + n /\ y + (m + n) = (y + m) + n
  OBVIOUS
<1>6. \A z \in 1..(m + n) : s[x + z] = t[y + z]
  BY <1>1, <1>3, <1>4
<1> QED BY <1>5, <1>6 DEF Matches

\* What is between two places of a sequence.
LEMMA PartBetween ==
  ASSUME NEW S, NEW s \in Seq(S), NEW x \in Nat, NEW z \in Nat, x <= z, z <= Len(s)
  PROVE  SubSeq(s, x + 1, z) \in Seq(S) /\ Len(SubSeq(s, x + 1, z)) = z - x
<1>1. PICK n \in Nat : n = z - x
  OBVIOUS
<1>2. z = x + n
  BY <1>1
<1> QED BY <1>1, <1>2, Slice

\* A run of n lines from (x, y) in a region.
RunIn(s, t, alo, ahi, blo, bhi, x, y, n) ==
  Matches(s, t, x, y, n) /\ alo <= x /\ x + n <= ahi /\ blo <= y /\ y + n <= bhi

\* How far it grows at its ends.
GrowsBy(s, t, alo, ahi, blo, bhi, x, y, n, left, right) ==
  /\ left = Extent(Dmp!Reverse(SubSeq(s, alo + 1, x)), Dmp!Reverse(SubSeq(t, blo + 1, y)), 0, 0)
  /\ right = Extent(SubSeq(s, x + n + 1, ahi), SubSeq(t, y + n + 1, bhi), 0, 0)

\* A run grows to a run that is still within its region.
LEMMA RunGrows ==
  ASSUME NEW S, NEW s \in Seq(S), NEW t \in Seq(S), NEW alo \in Nat, NEW ahi \in Nat, NEW blo \in Nat, NEW bhi \in Nat,
         ahi <= Len(s), bhi <= Len(t),
         NEW x \in Nat, NEW y \in Nat, NEW n \in Nat, RunIn(s, t, alo, ahi, blo, bhi, x, y, n),
         NEW before, NEW after, GrowsBy(s, t, alo, ahi, blo, bhi, x, y, n, before, after)
  PROVE  /\ before \in Nat /\ after \in Nat /\ x - before \in Nat /\ y - before \in Nat
         /\ RunIn(s, t, alo, ahi, blo, bhi, x - before, y - before, before + n + after)
<1>a. /\ Matches(s, t, x, y, n)
      /\ alo <= x /\ x + n <= ahi /\ ahi <= Len(s) /\ blo <= y /\ y + n <= bhi /\ bhi <= Len(t)
  BY DEF RunIn
<1> DEFINE u == SubSeq(s, alo + 1, x)
           v == SubSeq(t, blo + 1, y)
           left == Extent(Dmp!Reverse(u), Dmp!Reverse(v), 0, 0)
           p == SubSeq(s, x + n + 1, ahi)
           q == SubSeq(t, y + n + 1, bhi)
           right == Extent(p, q, 0, 0)
<1>b. Len(s) \in Nat /\ Len(t) \in Nat
  OBVIOUS
<1>1. /\ u \in Seq(S) /\ Len(u) = x - alo
      /\ v \in Seq(S) /\ Len(v) = y - blo
  <2>1. x <= Len(s) /\ y <= Len(t)
    BY <1>a, <1>b
  <2> QED BY <1>a, <2>1, PartBetween
<1>2. left \in Nat /\ left <= x - alo /\ left <= y - blo
      /\ Matches(u, v, (x - alo) - left, (y - blo) - left, left)
  <2> HIDE DEF u, v
  <2> QED BY <1>1, EndsAlike
<1>3. Matches(s, t, x - left, y - left, left)
  <2>1. x - alo \in Nat /\ alo + (x - alo) = x /\ y - blo \in Nat /\ blo + (y - blo) = y
        /\ alo + (x - alo) <= Len(s) /\ blo + (y - blo) <= Len(t)
    BY <1>a, <1>b
  <2>2. u = SubSeq(s, alo + 1, alo + (x - alo)) /\ v = SubSeq(t, blo + 1, blo + (y - blo))
    BY <2>1
  <2> HIDE DEF left, u, v
  <2>3. /\ (x - alo) - left \in Nat /\ (y - blo) - left \in Nat
        /\ alo + ((x - alo) - left) = x - left /\ blo + ((y - blo) - left) = y - left
    BY <1>2, <2>1
  <2>4. Matches(s, t, alo + ((x - alo) - left), blo + ((y - blo) - left), left)
    BY <1>2, <2>1, <2>2, <2>3, PartsAgree
  <2> QED BY <2>3, <2>4
<1>4. /\ p \in Seq(S) /\ Len(p) = ahi - (x + n)
      /\ q \in Seq(S) /\ Len(q) = bhi - (y + n)
  <2>1. x + n \in Nat /\ y + n \in Nat
    OBVIOUS
  <2> QED BY <1>a, <2>1, PartBetween
<1>5. right \in Nat /\ Matches(p, q, 0, 0, right)
  <2> HIDE DEF p, q
  <2>1. 0 \in 0..Len(p) /\ 0 \in 0..Len(q) /\ Len(p) \in Nat /\ Len(q) \in Nat
    BY <1>4
  <2> QED BY <2>1, ExtentMatches DEF MatchesExactly
<1>6. /\ Matches(s, t, x + n, y + n, right)
      /\ right <= ahi - (x + n) /\ right <= bhi - (y + n)
  <2>1. ahi - (x + n) \in Nat /\ (x + n) + (ahi - (x + n)) = ahi
        /\ bhi - (y + n) \in Nat /\ (y + n) + (bhi - (y + n)) = bhi
        /\ x + n \in Nat /\ y + n \in Nat
    BY <1>a
  <2>2. p = SubSeq(s, (x + n) + 1, (x + n) + (ahi - (x + n)))
        /\ q = SubSeq(t, (y + n) + 1, (y + n) + (bhi - (y + n)))
    BY <2>1
  <2> HIDE DEF right, p, q
  <2>3. (x + n) + 0 = x + n /\ (y + n) + 0 = y + n /\ 0 + right = right
        /\ (x + n) + (ahi - (x + n)) <= Len(s) /\ (y + n) + (bhi - (y + n)) <= Len(t)
    BY <1>a, <1>5, <2>1
  <2>4. Matches(s, t, (x + n) + 0, (y + n) + 0, right) /\ 0 + right <= ahi - (x + n) /\ 0 + right <= bhi - (y + n)
    BY <1>5, <2>1, <2>2, <2>3, PartsAgree
  <2> QED BY <2>3, <2>4
<1> HIDE DEF left, right
<1>7. Matches(s, t, x - left, y - left, left + n)
  <2>1. x - left \in Nat /\ y - left \in Nat /\ (x - left) + left = x /\ (y - left) + left = y
    BY <1>2, <1>a
  <2> QED BY <1>a, <1>2, <1>3, <2>1, RunsJoin
<1>8. Matches(s, t, x - left, y - left, (left + n) + right)
  <2>1. /\ x - left \in Nat /\ y - left \in Nat /\ left + n \in Nat
        /\ (x - left) + (left + n) = x + n /\ (y - left) + (left + n) = y + n
    BY <1>a, <1>2
  <2> QED BY <1>5, <1>6, <1>7, <2>1, RunsJoin
<1>9. /\ alo <= x - left /\ blo <= y - left /\ x - left \in Nat /\ y - left \in Nat
      /\ (x - left) + (left + n + right) <= ahi /\ (y - left) + (left + n + right) <= bhi
  BY <1>a, <1>2, <1>5, <1>6, SMTT(30)
<1>10. left = before /\ right = after
  BY DEF GrowsBy, left, right, u, v, p, q
<1> HIDE DEF u, v, p, q
<1> QED BY <1>2, <1>5, <1>8, <1>9, <1>10 DEF RunIn

\* The match that find_longest_match returns is a run within the region.
LEMMA LongestIsRun ==
  ASSUME a \in Seq(Entries), b \in Seq(Entries), NEW r, RegionTrue(r, a, b),
         NEW m \in Difflib!LongestMatch(r)
  PROVE  RunTrue(m, a, b) /\ Within(m, r)
<1>1. PICK alo \in Nat, ahi \in Nat, blo \in Nat, bhi \in Nat :
        alo = r.alo /\ ahi = r.ahi /\ blo = r.blo /\ bhi = r.bhi
  BY DEF RegionTrue, RegionSet
<1>2. alo <= ahi /\ ahi <= Len(a) /\ blo <= bhi /\ bhi <= Len(b)
  BY <1>1 DEF RegionTrue
<1>3. PICK n : /\ m = Difflib!Grown(n, r)
               /\ n \in Difflib!Runs(r) \/ n = Difflib!Block(alo, blo, 0)
  <2>1. \A N : m \in {Difflib!Grown(n, r) : n \in N} => \E n \in N : m = Difflib!Grown(n, r)
    OBVIOUS
  <2>2. \E n : /\ m = Difflib!Grown(n, r)
               /\ n \in (IF Difflib!Runs(r) = {} THEN {Difflib!Block(r.alo, r.blo, 0)}
                   ELSE {l \in Difflib!Runs(r) : \A z \in Difflib!Runs(r) \ {l} : Difflib!Better(l, z)})
    BY <2>1 DEF Difflib!LongestMatch
  <2> QED BY <1>1, <2>2
<1>4. PICK x \in Nat, y \in Nat, l \in Nat :
        /\ x = n.i /\ y = n.j /\ l = n.size /\ Matches(a, b, x, y, l)
        /\ alo <= x /\ x + l <= ahi /\ blo <= y /\ y + l <= bhi
  <2>1. CASE n = Difflib!Block(alo, blo, 0)
    <3>1. n.i = alo /\ n.j = blo /\ n.size = 0
      BY <2>1 DEF Difflib!Block
    <3>2. Matches(a, b, alo, blo, 0)
      <4>1. alo + 0 <= Len(a) /\ blo + 0 <= Len(b)
        BY <1>2
      <4> QED BY <4>1 DEF Matches
    <3>3. alo <= alo /\ alo + 0 <= ahi /\ blo <= blo /\ blo + 0 <= bhi /\ 0 \in Nat
      BY <1>2
    <3> QED BY <3>1, <3>2, <3>3
  <2>2. CASE n \in Difflib!Runs(r)
    <3>1. /\ n \in [i : alo..(ahi - 1), j : blo..(bhi - 1), size : 1..(bhi - blo)]
          /\ n.i + n.size <= ahi /\ n.j + n.size <= bhi
          /\ Matches(a, b, n.i, n.j, n.size)
      BY <1>1, <2>2, DifflibWords DEF Difflib!Runs
    <3>2. PICK x \in alo..(ahi - 1), y \in blo..(bhi - 1), l \in 1..(bhi - blo) :
            x = n.i /\ y = n.j /\ l = n.size
      BY <3>1
    <3>3. x \in Nat /\ y \in Nat /\ l \in Nat /\ alo <= x /\ blo <= y
      OBVIOUS
    <3> QED BY <3>1, <3>2, <3>3
  <2> QED BY <1>3, <2>1, <2>2
<1>5. PICK left, right : GrowsBy(a, b, alo, ahi, blo, bhi, x, y, l, left, right)
  BY DEF GrowsBy
<1>6. m = Difflib!Block(x - left, y - left, left + l + right)
  BY <1>1, <1>3, <1>4, <1>5, DifflibWords DEF Difflib!Grown, GrowsBy
<1>7. /\ left \in Nat /\ right \in Nat /\ x - left \in Nat /\ y - left \in Nat
      /\ RunIn(a, b, alo, ahi, blo, bhi, x - left, y - left, left + l + right)
  <2>1. RunIn(a, b, alo, ahi, blo, bhi, x, y, l)
    BY <1>4 DEF RunIn
  <2> QED BY <1>2, <1>5, <2>1, RunGrows
<1>8. PICK x2 \in Nat, y2 \in Nat, n2 \in Nat :
        x2 = x - left /\ y2 = y - left /\ n2 = left + l + right
  BY <1>7
<1>9. RunIn(a, b, alo, ahi, blo, bhi, x2, y2, n2)
  BY <1>7, <1>8
<1>10. m \in RunSet /\ m.i = x2 /\ m.j = y2 /\ m.size = n2
  BY <1>6, <1>8 DEF Difflib!Block, RunSet
<1> QED BY <1>1, <1>9, <1>10 DEF RunTrue, Within, RunIn

-------------------------------------------------------------------------------
(* Regions and matches, one before the other in both texts. *)

\* The region that a match covers.
Covered(m) == Difflib!Region(m.i, m.i + m.size, m.j, m.j + m.size)

First(p, q) == p.ahi <= q.alo /\ p.bhi <= q.blo

InTurn(p, q) == First(p, q) \/ First(q, p)

PartOf(p, r) == r.alo <= p.alo /\ p.ahi <= r.ahi /\ r.blo <= p.blo /\ p.bhi <= r.bhi

\* A part of a region keeps its place among the others.
LEMMA PartInTurn ==
  ASSUME NEW p \in RegionSet, NEW r \in RegionSet, NEW q \in RegionSet, PartOf(p, r)
  PROVE  /\ InTurn(r, q) => InTurn(p, q)
         /\ InTurn(q, r) => InTurn(q, p)
<1>1. PICK x1 \in Nat, x2 \in Nat, y1 \in Nat, y2 \in Nat :
        x1 = p.alo /\ x2 = p.ahi /\ y1 = p.blo /\ y2 = p.bhi
  BY DEF RegionSet
<1>2. PICK u1 \in Nat, u2 \in Nat, v1 \in Nat, v2 \in Nat :
        u1 = r.alo /\ u2 = r.ahi /\ v1 = r.blo /\ v2 = r.bhi
  BY DEF RegionSet
<1>3. PICK w1 \in Nat, w2 \in Nat, z1 \in Nat, z2 \in Nat :
        w1 = q.alo /\ w2 = q.ahi /\ z1 = q.blo /\ z2 = q.bhi
  BY DEF RegionSet
<1>4. u1 <= x1 /\ x2 <= u2 /\ v1 <= y1 /\ y2 <= v2
  BY <1>1, <1>2 DEF PartOf
<1>5. (u2 <= w1 /\ v2 <= z1 => x2 <= w1 /\ y2 <= z1) /\ (w2 <= u1 /\ z2 <= v1 => w2 <= x1 /\ z2 <= y1)
  BY <1>4
<1> QED BY <1>1, <1>2, <1>3, <1>5 DEF InTurn, First

\* A match covers a region.
LEMMA CoveredIs ==
  ASSUME NEW m \in RunSet
  PROVE  /\ Covered(m) \in RegionSet
         /\ Covered(m).alo = m.i /\ Covered(m).ahi = m.i + m.size
         /\ Covered(m).blo = m.j /\ Covered(m).bhi = m.j + m.size
BY DEF Covered, Difflib!Region, RunSet, RegionSet

\* The regions to look at, and the matches found: each is so, and they lie one before
\* another.
Waiting(q, s, t) ==
  /\ q \in Seq(RegionSet)
  /\ \A n \in 1..Len(q) : RegionTrue(q[n], s, t)
  /\ \A m, n \in 1..Len(q) : m < n => InTurn(q[m], q[n])

Found(f, s, t) ==
  /\ \A m \in f : RunTrue(m, s, t) /\ m.size > 0
  /\ \A m, n \in f : m # n => InTurn(Covered(m), Covered(n))

Clear(q, f) == \A n \in 1..Len(q), m \in f : InTurn(Covered(m), q[n])

\* Its elements are those of s but the last, then the one of u and the one of v, if any.
GivenAt(w, s, u, v, l, e, f, n) ==
  \/ n <= l /\ w[n] = s[n]
  \/ n = l + 1 /\ e = 1 /\ w[n] = u[1]
  \/ n = l + e + 1 /\ f = 1 /\ w[n] = v[1]
GivenWay(w, s, u, v, l, e, f) ==
  /\ Len(w) = l + e + f
  /\ \A n \in 1..Len(w) : GivenAt(w, s, u, v, l, e, f, n)

\* The last of a sequence gives way to up to two others.
LEMMA LastGivesWay ==
  ASSUME NEW S, NEW s \in Seq(S), s # <<>>, NEW u \in Seq(S), NEW v \in Seq(S),
         NEW e \in Nat, NEW f \in Nat, e = Len(u), f = Len(v), e <= 1, f <= 1
  PROVE  \E l \in Nat :
           /\ Difflib!Front(s) \o u \o v \in Seq(S) /\ Len(s) = l + 1 /\ Difflib!Last(s) = s[l + 1]
           /\ GivenWay(Difflib!Front(s) \o u \o v, s, u, v, l, e, f)
<1>1. PICK l \in Nat : Len(s) = l + 1 /\ l = Len(s) - 1
  <2>1. PICK h \in Nat \ {0} : h = Len(s)
    BY EmptySeq
  <2>2. h - 1 \in Nat /\ h = (h - 1) + 1
    OBVIOUS
  <2> QED BY <2>1, <2>2
<1> DEFINE x == SubSeq(s, 0 + 1, 0 + l)
<1>2. x \in Seq(S) /\ Len(x) = l /\ \A n \in 1..l : x[n] = s[n]
  <2>1. x \in Seq(S) /\ Len(x) = l /\ \A n \in 1..l : x[n] = s[0 + n]
    BY <1>1, Slice
  <2>2. \A n \in 1..l : 0 + n = n
    OBVIOUS
  <2> QED BY <2>1, <2>2
<1>3. Difflib!Front(s) = x /\ Difflib!Last(s) = s[l + 1]
  BY <1>1 DEF Difflib!Front, Difflib!Last
<1> HIDE DEF x
<1>4. /\ x \o u \in Seq(S) /\ Len(x \o u) = l + e
      /\ \A n \in 1..(l + e) : (x \o u)[n] = IF n <= l THEN x[n] ELSE u[n - l]
  BY <1>2, EndToEnd
<1> DEFINE y == x \o u
           w == y \o v
<1>5. /\ w \in Seq(S) /\ Len(w) = l + e + f
      /\ \A n \in 1..(l + e + f) : w[n] = IF n <= l + e THEN y[n] ELSE v[n - (l + e)]
  <2> HIDE DEF y
  <2>1. y \in Seq(S) /\ Len(y) = l + e
    BY <1>4 DEF y
  <2> QED BY <2>1, EndToEnd
<1> HIDE DEF y, w
<1>6. ASSUME NEW n \in 1..(l + e + f)
      PROVE  GivenAt(w, s, u, v, l, e, f, n)
  <2>1. CASE n <= l
    <3>1. n \in 1..l /\ n \in 1..(l + e) /\ n <= l + e
      BY <2>1
    <3>2. w[n] = y[n]
      BY <1>5, <3>1
    <3>3. y[n] = x[n]
      BY <1>4, <2>1, <3>1 DEF y
    <3>4. x[n] = s[n]
      BY <1>2, <3>1
    <3> QED BY <2>1, <3>2, <3>3, <3>4 DEF GivenAt
  <2>2. CASE l < n /\ n <= l + e
    <3>1. n = l + 1 /\ e = 1 /\ n \in 1..(l + e) /\ n - l = 1 /\ ~(n <= l)
      BY <2>2
    <3>2. w[n] = y[n] /\ y[n] = u[n - l]
      BY <1>4, <1>5, <2>2, <3>1 DEF y
    <3> QED BY <3>1, <3>2 DEF GivenAt
  <2>3. CASE n > l + e
    <3>1. n = l + e + 1 /\ f = 1 /\ n - (l + e) = 1 /\ ~(n <= l + e)
      BY <2>3
    <3>2. w[n] = v[n - (l + e)]
      BY <1>5, <3>1
    <3> QED BY <3>1, <3>2 DEF GivenAt
  <2>4. n <= l \/ (l < n /\ n <= l + e) \/ n > l + e
    <3>1. n \in Int /\ l \in Int /\ e \in Int
      BY <1>1
    <3> QED BY <3>1
  <2> QED BY <2>1, <2>2, <2>3, <2>4
<1>7. w = Difflib!Front(s) \o u \o v
  BY <1>3 DEF w, y
<1> QED BY <1>1, <1>3, <1>5, <1>6, <1>7 DEF GivenWay

\* What is left of a region beside a match within it.
LEMMA BesideMatch ==
  ASSUME NEW s, NEW t, Len(s) \in Nat, Len(t) \in Nat, NEW r, RegionTrue(r, s, t),
         NEW m, RunTrue(m, s, t), Within(m, r), NEW p
  PROVE  /\ p = Difflib!Region(r.alo, m.i, r.blo, m.j) =>
              RegionTrue(p, s, t) /\ PartOf(p, r) /\ First(p, Covered(m))
         /\ p = Difflib!Region(m.i + m.size, r.ahi, m.j + m.size, r.bhi) =>
              RegionTrue(p, s, t) /\ PartOf(p, r) /\ First(Covered(m), p)
<1>1. PICK x1 \in Nat, x2 \in Nat, y1 \in Nat, y2 \in Nat :
        x1 = r.alo /\ x2 = r.ahi /\ y1 = r.blo /\ y2 = r.bhi
  BY DEF RegionTrue, RegionSet
<1>2. PICK x \in Nat, y \in Nat, n \in Nat : x = m.i /\ y = m.j /\ n = m.size
  BY DEF RunTrue, RunSet
<1>3. /\ x1 <= x /\ x + n <= x2 /\ y1 <= y /\ y + n <= y2 /\ x2 <= Len(s) /\ y2 <= Len(t)
      /\ x <= Len(s) /\ y <= Len(t) /\ x <= x2 /\ y <= y2 /\ x1 <= x + n /\ y1 <= y + n
      /\ x + n \in Nat /\ y + n \in Nat /\ x1 <= x1 /\ x2 <= x2 /\ y1 <= y1 /\ y2 <= y2
      /\ x + n <= x + n /\ y + n <= y + n
  <2>1. x1 <= x /\ x + n <= x2 /\ y1 <= y /\ y + n <= y2 /\ x2 <= Len(s) /\ y2 <= Len(t)
    BY <1>1, <1>2 DEF RegionTrue, Within
  <2> QED BY <2>1
<1>4. /\ Covered(m).alo = x /\ Covered(m).ahi = x + n
      /\ Covered(m).blo = y /\ Covered(m).bhi = y + n
  BY <1>2, CoveredIs DEF RunTrue
<1>5. ASSUME p = Difflib!Region(x1, x, y1, y)
      PROVE  RegionTrue(p, s, t) /\ PartOf(p, r) /\ First(p, Covered(m))
  <2>1. p \in RegionSet /\ p.alo = x1 /\ p.ahi = x /\ p.blo = y1 /\ p.bhi = y
    BY <1>5 DEF Difflib!Region, RegionSet
  <2>2. x <= x /\ y <= y
    OBVIOUS
  <2> QED BY <1>1, <1>3, <1>4, <2>1, <2>2 DEF RegionTrue, PartOf, First
<1>6. ASSUME p = Difflib!Region(x + n, x2, y + n, y2)
      PROVE  RegionTrue(p, s, t) /\ PartOf(p, r) /\ First(Covered(m), p)
  <2>1. p \in RegionSet /\ p.alo = x + n /\ p.ahi = x2 /\ p.blo = y + n /\ p.bhi = y2
    BY <1>3, <1>6 DEF Difflib!Region, RegionSet
  <2> QED BY <1>1, <1>3, <1>4, <2>1 DEF RegionTrue, PartOf, First
<1> QED BY <1>1, <1>2, <1>5, <1>6

\* A match found in the last region: it joins the others, and what is left of the region
\* takes its place in the queue.
LEMMA LookedAt ==
  ASSUME NEW s, NEW t, Len(s) \in Nat, Len(t) \in Nat,
         NEW q, NEW f, Waiting(q, s, t), Found(f, s, t), Clear(q, f), q # <<>>,
         NEW m, RunTrue(m, s, t), m.size > 0, Within(m, Difflib!Last(q))
  PROVE  LET w == Difflib!Front(q) \o Difflib!Before(m, Difflib!Last(q))
                                   \o Difflib!After(m, Difflib!Last(q))
         IN  Waiting(w, s, t) /\ Found(f \cup {m}, s, t) /\ Clear(w, f \cup {m})
<1>1. PICK r : r = Difflib!Last(q)
  OBVIOUS
<1>2. PICK u \in Seq(RegionSet), v \in Seq(RegionSet), e \in Nat, g \in Nat :
        /\ u = Difflib!Before(m, r) /\ v = Difflib!After(m, r)
        /\ e = Len(u) /\ g = Len(v) /\ e <= 1 /\ g <= 1
        /\ e = 1 => RegionTrue(u[1], s, t) /\ PartOf(u[1], r) /\ First(u[1], Covered(m))
        /\ g = 1 => RegionTrue(v[1], s, t) /\ PartOf(v[1], r) /\ First(Covered(m), v[1])
  <2>1. PICK h \in Nat \ {0} : h = Len(q) /\ h \in 1..Len(q)
    BY EmptySeq DEF Waiting
  <2>2. RegionTrue(r, s, t)
    BY <1>1, <2>1 DEF Waiting, Difflib!Last
  <2> DEFINE x == Difflib!Region(r.alo, m.i, r.blo, m.j)
             y == Difflib!Region(m.i + m.size, r.ahi, m.j + m.size, r.bhi)
  <2>3. RegionTrue(x, s, t) /\ PartOf(x, r) /\ First(x, Covered(m))
    BY <1>1, <2>2, BesideMatch
  <2>4. RegionTrue(y, s, t) /\ PartOf(y, r) /\ First(Covered(m), y)
    BY <1>1, <2>2, BesideMatch
  <2>5. Difflib!Before(m, r) = <<x>> \/ Difflib!Before(m, r) = <<>>
    BY DEF Difflib!Before
  <2>6. Difflib!After(m, r) = <<y>> \/ Difflib!After(m, r) = <<>>
    BY DEF Difflib!After
  <2> HIDE DEF x, y
  <2>7. x \in RegionSet /\ y \in RegionSet
    BY <2>3, <2>4 DEF RegionTrue
  <2>8. /\ <<x>> \in Seq(RegionSet) /\ Len(<<x>>) = 1 /\ <<x>>[1] = x
        /\ <<y>> \in Seq(RegionSet) /\ Len(<<y>>) = 1 /\ <<y>>[1] = y
        /\ <<>> \in Seq(RegionSet) /\ Len(<<>>) = 0
    BY <2>7
  <2>9. \E u \in Seq(RegionSet), e \in Nat :
          /\ u = Difflib!Before(m, r) /\ e = Len(u) /\ e <= 1
          /\ e = 1 => RegionTrue(u[1], s, t) /\ PartOf(u[1], r) /\ First(u[1], Covered(m))
    <3>1. PICK z : z = Difflib!Before(m, r)
      OBVIOUS
    <3>2. CASE z = <<x>>
      <4>1. z \in Seq(RegionSet) /\ Len(z) = 1 /\ z[1] = x
        BY <2>8, <3>2
      <4>2. 1 \in Nat /\ 1 <= 1
        OBVIOUS
      <4> QED BY <2>3, <3>1, <4>1, <4>2
    <3>3. CASE z = <<>>
      <4>1. z \in Seq(RegionSet) /\ Len(z) = 0
        BY <2>8, <3>3
      <4>2. 0 \in Nat /\ 0 <= 1 /\ 0 # 1
        OBVIOUS
      <4> QED BY <3>1, <4>1, <4>2
    <3> QED BY <2>5, <3>1, <3>2, <3>3
  <2>10. \E v \in Seq(RegionSet), g \in Nat :
          /\ v = Difflib!After(m, r) /\ g = Len(v) /\ g <= 1
          /\ g = 1 => RegionTrue(v[1], s, t) /\ PartOf(v[1], r) /\ First(Covered(m), v[1])
    <3>1. PICK z : z = Difflib!After(m, r)
      OBVIOUS
    <3>2. CASE z = <<y>>
      <4>1. z \in Seq(RegionSet) /\ Len(z) = 1 /\ z[1] = y
        BY <2>8, <3>2
      <4>2. 1 \in Nat /\ 1 <= 1
        OBVIOUS
      <4> QED BY <2>4, <3>1, <4>1, <4>2
    <3>3. CASE z = <<>>
      <4>1. z \in Seq(RegionSet) /\ Len(z) = 0
        BY <2>8, <3>3
      <4>2. 0 \in Nat /\ 0 <= 1 /\ 0 # 1
        OBVIOUS
      <4> QED BY <3>1, <4>1, <4>2
    <3> QED BY <2>6, <3>1, <3>2, <3>3
  <2> QED BY <2>9, <2>10
<1> DEFINE w == Difflib!Front(q) \o u \o v
<1>3. PICK l \in Nat :
        /\ w \in Seq(RegionSet) /\ r = q[l + 1] /\ Len(q) = l + 1 /\ Len(w) = l + e + g
        /\ \A n \in 1..Len(w) :
             \/ n <= l /\ w[n] = q[n]
             \/ n = l + 1 /\ e = 1 /\ w[n] = u[1]
             \/ n = l + e + 1 /\ g = 1 /\ w[n] = v[1]
  <2>1. q \in Seq(RegionSet)
    BY DEF Waiting
  <2>2. PICK l \in Nat :
          /\ Difflib!Front(q) \o u \o v \in Seq(RegionSet) /\ Len(q) = l + 1
          /\ Difflib!Last(q) = q[l + 1]
          /\ GivenWay(Difflib!Front(q) \o u \o v, q, u, v, l, e, g)
    BY <1>2, <2>1, LastGivesWay
  <2>3. GivenWay(w, q, u, v, l, e, g) /\ w \in Seq(RegionSet)
    BY <2>2
  <2> HIDE DEF w
  <2> QED BY <1>1, <2>2, <2>3 DEF GivenWay, GivenAt
<1> HIDE DEF w
<1>4. RegionTrue(r, s, t) /\ r \in RegionSet
  <2>1. l + 1 \in 1..Len(q)
    BY <1>3
  <2> QED BY <1>3, <2>1 DEF Waiting, RegionTrue
<1>5. Covered(m) \in RegionSet /\ PartOf(Covered(m), r)
  <2>1. m \in RunSet
    BY DEF RunTrue
  <2> QED BY <1>1, <2>1, CoveredIs DEF Within, PartOf
<1>6. /\ e = 1 => u[1] \in RegionSet
      /\ g = 1 => v[1] \in RegionSet
  BY <1>2 DEF RegionTrue
<1>7. ASSUME NEW n \in 1..l
      PROVE  /\ RegionTrue(q[n], s, t) /\ q[n] \in RegionSet
             /\ InTurn(q[n], r) /\ InTurn(q[n], Covered(m))
             /\ e = 1 => InTurn(q[n], u[1])
             /\ g = 1 => InTurn(q[n], v[1])
  <2>1. n \in 1..Len(q) /\ l + 1 \in 1..Len(q) /\ n < l + 1
    BY <1>3
  <2>2. RegionTrue(q[n], s, t) /\ q[n] \in RegionSet /\ InTurn(q[n], r)
    BY <1>3, <2>1 DEF Waiting, RegionTrue
  <2> QED BY <1>2, <1>4, <1>5, <1>6, <2>2, PartInTurn
<1>8. e = 1 /\ g = 1 => InTurn(u[1], v[1])
  <2> SUFFICES ASSUME e = 1, g = 1 PROVE First(u[1], v[1])
    BY DEF InTurn
  <2>1. First(u[1], Covered(m)) /\ First(Covered(m), v[1])
    BY <1>2
  <2>2. PICK x1 \in Nat, x2 \in Nat, y1 \in Nat, y2 \in Nat :
          /\ x1 = Covered(m).alo /\ x2 = Covered(m).ahi
          /\ y1 = Covered(m).blo /\ y2 = Covered(m).bhi /\ x1 <= x2 /\ y1 <= y2
    <3>1. PICK x \in Nat, y \in Nat, n \in Nat : x = m.i /\ y = m.j /\ n = m.size /\ m \in RunSet
      BY DEF RunTrue, RunSet
    <3>2. x <= x + n /\ y <= y + n /\ x + n \in Nat /\ y + n \in Nat
      OBVIOUS
    <3> QED BY <3>1, <3>2, CoveredIs
  <2>3. PICK z1 \in Nat, z2 \in Nat : z1 = u[1].ahi /\ z2 = u[1].bhi
    BY <1>6 DEF RegionSet
  <2>4. PICK w1 \in Nat, w2 \in Nat : w1 = v[1].alo /\ w2 = v[1].blo
    BY <1>6 DEF RegionSet
  <2>5. z1 <= x1 /\ z2 <= y1 /\ x2 <= w1 /\ y2 <= w2
    BY <2>1, <2>2, <2>3, <2>4 DEF First
  <2>6. z1 <= w1 /\ z2 <= w2
    BY <2>2, <2>5
  <2> QED BY <2>3, <2>4, <2>6 DEF First
<1>9. Waiting(w, s, t)
  <2>1. ASSUME NEW n \in 1..Len(w) PROVE RegionTrue(w[n], s, t)
    <3>1. n <= l => n \in 1..l
      BY <1>3
    <3> QED BY <1>2, <1>3, <1>7, <3>1
  <2>2. ASSUME NEW n \in 1..Len(w), NEW h \in 1..Len(w), n < h PROVE InTurn(w[n], w[h])
    <3>0. n \in Nat /\ h \in Nat /\ n >= 1 /\ h >= 1
      BY <1>3
    <3>1. CASE h <= l
      <4>1. n \in 1..Len(q) /\ h \in 1..Len(q) /\ ~(n >= l + 1) /\ ~(h >= l + 1) /\ n <= l
        BY <1>3, <2>2, <3>0, <3>1
      <4>2. w[n] = q[n] /\ w[h] = q[h]
        <5>1. n # l + 1 /\ n # l + e + 1 /\ h # l + 1 /\ h # l + e + 1
          BY <3>0, <3>1, <4>1
        <5> QED BY <1>3, <5>1
      <4> QED BY <2>2, <4>1, <4>2 DEF Waiting
    <3>2. CASE n <= l /\ ~(h <= l)
      <4>1. n \in 1..l
        BY <3>0, <3>2
      <4>2. w[n] = q[n]
        <5>1. n # l + 1 /\ n # l + e + 1
          BY <3>0, <3>2
        <5> QED BY <1>3, <5>1
      <4>3. (e = 1 /\ w[h] = u[1]) \/ (g = 1 /\ w[h] = v[1])
        BY <1>3, <3>2
      <4> QED BY <1>7, <4>1, <4>2, <4>3
    <3>3. CASE ~(n <= l) /\ ~(h <= l)
      <4>1. (n = l + 1 /\ e = 1 /\ w[n] = u[1]) \/ (n = l + e + 1 /\ g = 1 /\ w[n] = v[1])
        BY <1>3, <3>3
      <4>2. (h = l + 1 /\ e = 1 /\ w[h] = u[1]) \/ (h = l + e + 1 /\ g = 1 /\ w[h] = v[1])
        BY <1>3, <3>3
      <4>3. n = l + 1 /\ h = l + e + 1 /\ e = 1
        BY <1>2, <2>2, <3>0, <4>1, <4>2
      <4>4. n # l + e + 1 /\ h # l + 1
        BY <4>3
      <4> QED BY <1>8, <4>1, <4>2, <4>4
    <3>4. (h <= l) \/ (n <= l /\ ~(h <= l)) \/ (~(n <= l) /\ ~(h <= l))
      BY <2>2, <3>0
    <3> QED BY <3>1, <3>2, <3>3, <3>4
  <2> QED BY <1>3, <2>1, <2>2 DEF Waiting
<1>10. Found(f \cup {m}, s, t)
  <2>1. ASSUME NEW n \in f PROVE InTurn(Covered(m), Covered(n)) /\ InTurn(Covered(n), Covered(m))
    <3>1. l + 1 \in 1..Len(q)
      BY <1>3
    <3>2. InTurn(Covered(n), r)
      BY <1>3, <3>1 DEF Clear
    <3>3. Covered(n) \in RegionSet
      BY CoveredIs DEF Found, RunTrue
    <3>4. InTurn(Covered(n), Covered(m))
      BY <1>4, <1>5, <3>2, <3>3, PartInTurn
    <3> QED BY <3>4 DEF InTurn
  <2> QED BY <2>1 DEF Found
<1>11. Clear(w, f \cup {m})
  <2>1. ASSUME NEW n \in 1..Len(w), NEW h \in f PROVE InTurn(Covered(h), w[n])
    <3>1. l + 1 \in 1..Len(q) /\ (n <= l => n \in 1..Len(q))
      BY <1>3
    <3>2. InTurn(Covered(h), r) /\ (n <= l => InTurn(Covered(h), q[n]))
      BY <1>3, <3>1 DEF Clear
    <3>3. Covered(h) \in RegionSet
      BY CoveredIs DEF Found, RunTrue
    <3>4. (e = 1 => InTurn(Covered(h), u[1])) /\ (g = 1 => InTurn(Covered(h), v[1]))
      BY <1>2, <1>4, <1>6, <3>2, <3>3, PartInTurn
    <3> QED BY <1>3, <3>2, <3>4
  <2>2. ASSUME NEW n \in 1..Len(w) PROVE InTurn(Covered(m), w[n])
    <3>1. n <= l => n \in 1..l
      BY <1>3
    <3>2. n <= l => InTurn(Covered(m), q[n])
      BY <1>7, <3>1 DEF InTurn
    <3>3. e = 1 => InTurn(Covered(m), u[1])
      BY <1>2 DEF InTurn
    <3>4. g = 1 => InTurn(Covered(m), v[1])
      BY <1>2 DEF InTurn
    <3> QED BY <1>3, <3>2, <3>3, <3>4
  <2> QED BY <2>1, <2>2 DEF Clear
<1> QED BY <1>1, <1>2, <1>9, <1>10, <1>11 DEF w

\* Nothing found in the last region: it leaves the queue.
LEMMA LookedInVain ==
  ASSUME NEW s, NEW t, NEW q, NEW f, Waiting(q, s, t), Clear(q, f), q # <<>>
  PROVE  Waiting(Difflib!Front(q), s, t) /\ Clear(Difflib!Front(q), f)
<1>1. PICK h \in Nat \ {0} : h = Len(q)
  BY EmptySeq DEF Waiting
<1>2. PICK l \in Nat : l = h - 1
  OBVIOUS
<1> DEFINE w == SubSeq(q, 0 + 1, 0 + l)
<1>3. w \in Seq(RegionSet) /\ Len(w) = l /\ \A n \in 1..l : w[n] = q[0 + n]
  <2>1. q \in Seq(RegionSet) /\ 0 + l <= Len(q)
    BY <1>1, <1>2 DEF Waiting
  <2> QED BY <2>1, Slice
<1>4. Difflib!Front(q) = w
  BY <1>1, <1>2 DEF Difflib!Front
<1> HIDE DEF w
<1>5. \A n \in 1..l : w[n] = q[n] /\ n \in 1..Len(q)
  <2>1. \A n \in 1..l : 0 + n = n /\ n \in 1..Len(q)
    BY <1>1, <1>2
  <2> QED BY <1>3, <2>1
<1> QED BY <1>3, <1>4, <1>5 DEF Waiting, Clear

-------------------------------------------------------------------------------
(* Matches in order. *)

\* Runs of which each begins where the one before it ends, or later.
InLine(bs, s, t) ==
  /\ bs \in Seq(RunSet)
  /\ \A n \in 1..Len(bs) : RunTrue(bs[n], s, t)
  /\ \A n \in 1..Len(bs) : n > 1 => First(Covered(bs[n - 1]), Covered(bs[n]))

\* The last of them comes before m.
EndsBefore(bs, m) == bs # <<>> => First(Covered(bs[Len(bs)]), Covered(m))

\* One more of them.
LEMMA OneMoreInLine ==
  ASSUME NEW s, NEW t, NEW bs, NEW m, InLine(bs, s, t), RunTrue(m, s, t), EndsBefore(bs, m)
  PROVE  /\ InLine(Append(bs, m), s, t) /\ Append(bs, m) # <<>>
         /\ Append(bs, m)[Len(Append(bs, m))] = m
<1>1. bs \in Seq(RunSet) /\ m \in RunSet
  BY DEF InLine, RunTrue
<1>2. PICK l \in Nat : l = Len(bs)
  BY <1>1
<1> DEFINE w == Append(bs, m)
<1>3. /\ w \in Seq(RunSet) /\ Len(w) = l + 1 /\ w[l + 1] = m
      /\ \A n \in 1..l : w[n] = bs[n]
  BY <1>1, <1>2, AppendProperties
<1>4. l + 1 # 0 /\ l + 1 \in 1..(l + 1)
  OBVIOUS
<1>5. w # <<>>
  BY <1>3, <1>4, EmptySeq
<1> HIDE DEF w
<1>6. ASSUME NEW n \in 1..(l + 1) PROVE RunTrue(w[n], s, t)
  <2>1. CASE n \in 1..l
    BY <1>2, <1>3, <2>1 DEF InLine
  <2>2. CASE n = l + 1
    BY <1>3, <2>2
  <2> QED BY <2>1, <2>2
<1>7. ASSUME NEW n \in 1..(l + 1), n > 1 PROVE First(Covered(w[n - 1]), Covered(w[n]))
  <2>1. CASE n \in 1..l
    <3>1. n - 1 \in 1..l
      BY <1>7, <2>1
    <3> QED BY <1>2, <1>3, <1>7, <2>1, <3>1 DEF InLine
  <2>2. CASE n = l + 1
    <3>1. n - 1 = l /\ l \in 1..l /\ l # 0
      BY <1>7, <2>2
    <3>2. bs # <<>>
      BY <1>2, <3>1, EmptySeq
    <3> QED BY <1>2, <1>3, <2>2, <3>1, <3>2 DEF EndsBefore
  <2> QED BY <2>1, <2>2
<1>8. InLine(w, s, t)
  BY <1>3, <1>6, <1>7 DEF InLine
<1> QED BY <1>3, <1>5, <1>8 DEF w

\* Without the last of them.
LEMMA AllButLast ==
  ASSUME NEW s, NEW t, NEW bs, InLine(bs, s, t), bs # <<>>
  PROVE  /\ RunTrue(Difflib!Last(bs), s, t) /\ Difflib!Last(bs) = bs[Len(bs)]
         /\ InLine(Difflib!Front(bs), s, t) /\ EndsBefore(Difflib!Front(bs), Difflib!Last(bs))
<1>1. bs \in Seq(RunSet)
  BY DEF InLine
<1>2. PICK h \in Nat \ {0} : h = Len(bs)
  BY <1>1, EmptySeq
<1>3. PICK l \in Nat : l = h - 1 /\ h = l + 1
  OBVIOUS
<1> DEFINE w == SubSeq(bs, 0 + 1, 0 + l)
<1>4. w \in Seq(RunSet) /\ Len(w) = l /\ \A n \in 1..l : w[n] = bs[0 + n]
  BY <1>1, <1>2, <1>3, Slice
<1>5. Difflib!Front(bs) = w /\ Difflib!Last(bs) = bs[h]
  BY <1>2, <1>3 DEF Difflib!Front, Difflib!Last
<1> HIDE DEF w
<1>6. \A n \in 1..l : w[n] = bs[n] /\ n \in 1..Len(bs) /\ (n > 1 => n - 1 \in 1..l)
  <2>1. \A n \in 1..l : 0 + n = n /\ n \in 1..Len(bs) /\ (n > 1 => n - 1 \in 1..l)
    BY <1>2, <1>3
  <2> QED BY <1>4, <2>1
<1>7. InLine(w, s, t)
  BY <1>4, <1>6 DEF InLine
<1>8. RunTrue(bs[h], s, t)
  BY <1>2 DEF InLine
<1>9. EndsBefore(w, bs[h])
  <2> SUFFICES ASSUME w # <<>> PROVE First(Covered(w[l]), Covered(bs[h]))
    BY <1>4 DEF EndsBefore
  <2>1. l # 0
    BY <1>4, EmptySeq
  <2>2. l \in 1..l /\ h \in 1..Len(bs) /\ h > 1 /\ h - 1 = l
    BY <1>2, <1>3, <2>1
  <2>3. w[l] = bs[l]
    BY <1>6, <2>2
  <2> QED BY <2>2, <2>3 DEF InLine
<1> QED BY <1>2, <1>5, <1>7, <1>8, <1>9

\* The match that is least in a comes before all others.
LEMMA LeastIsFirst ==
  ASSUME NEW s, NEW t, NEW f, Found(f, s, t), NEW m \in f, \A n \in f : m.i <= n.i
  PROVE  \A n \in f \ {m} : First(Covered(m), Covered(n))
<1> SUFFICES ASSUME NEW n \in f \ {m} PROVE ~First(Covered(n), Covered(m))
  BY DEF Found, InTurn
<1>1. PICK x \in Nat, k1 \in Nat : x = m.i /\ k1 = m.size /\ m \in RunSet
  BY DEF Found, RunTrue, RunSet
<1>2. PICK y \in Nat, k2 \in Nat : y = n.i /\ k2 = n.size /\ n \in RunSet /\ k2 > 0
  BY DEF Found, RunTrue, RunSet
<1>3. x <= y /\ ~(y + k2 <= x)
  BY <1>1, <1>2
<1> QED BY <1>1, <1>2, <1>3, CoveredIs DEF First

\* bs becomes w when m is collapsed.
Collapses(bs, m, w) ==
  LET l == Difflib!Last(bs) IN
  w = IF bs # <<>> /\ Difflib!Touches(l, m)
      THEN Append(Difflib!Front(bs), Difflib!Block(l.i, l.j, l.size + m.size))
      ELSE Append(bs, m)

LeastOf(m, f) == \A n \in f : m.i <= n.i

AllAfter(bs, f) == \A n \in f : EndsBefore(bs, n)

\* The first of the matches that are left joins those in line, or makes the last of them
\* longer.
LEMMA CollapsedOne ==
  ASSUME NEW s, NEW t, NEW bs, NEW f, NEW m \in f, Found(f, s, t), InLine(bs, s, t),
         AllAfter(bs, f), LeastOf(m, f), NEW w, Collapses(bs, m, w)
  PROVE  Found(f \ {m}, s, t) /\ InLine(w, s, t) /\ AllAfter(w, f \ {m})
<1>1. Found(f \ {m}, s, t)
  BY DEF Found
<1>2. RunTrue(m, s, t) /\ EndsBefore(bs, m) /\ \A n \in f \ {m} : First(Covered(m), Covered(n))
  BY LeastIsFirst DEF Found, LeastOf, AllAfter
<1>3. CASE w = Append(bs, m)
  <2>1. InLine(w, s, t) /\ w # <<>> /\ w[Len(w)] = m
    BY <1>2, <1>3, OneMoreInLine
  <2> QED BY <1>1, <1>2, <2>1 DEF EndsBefore, AllAfter
<1>4. CASE bs # <<>> /\ Difflib!Touches(Difflib!Last(bs), m)
           /\ w = Append(Difflib!Front(bs), Difflib!Block(Difflib!Last(bs).i, Difflib!Last(bs).j,
                                                          Difflib!Last(bs).size + m.size))
  <2>1. PICK l : l = Difflib!Last(bs)
    OBVIOUS
  <2>2. /\ RunTrue(l, s, t) /\ InLine(Difflib!Front(bs), s, t)
        /\ EndsBefore(Difflib!Front(bs), l)
    BY <1>4, <2>1, AllButLast
  <2>3. PICK x \in Nat, y \in Nat, n1 \in Nat : x = l.i /\ y = l.j /\ n1 = l.size
    BY <2>2 DEF RunTrue, RunSet
  <2>4. PICK n2 \in Nat : n2 = m.size /\ m.i = x + n1 /\ m.j = y + n1
    BY <1>2, <1>4, <2>1, <2>3 DEF RunTrue, RunSet, Difflib!Touches
  <2>5. PICK e : e = Difflib!Block(x, y, n1 + n2)
    OBVIOUS
  <2>6. e \in RunSet /\ e.i = x /\ e.j = y /\ e.size = n1 + n2
    BY <2>5 DEF Difflib!Block, RunSet
  <2>7. RunTrue(e, s, t)
    <3>1. Matches(s, t, x, y, n1) /\ Matches(s, t, x + n1, y + n1, n2)
      BY <1>2, <2>2, <2>3, <2>4 DEF RunTrue
    <3>2. Matches(s, t, x, y, n1 + n2)
      BY <3>1, RunsJoin
    <3> QED BY <2>6, <3>2 DEF RunTrue
  <2>8. l \in RunSet /\ m \in RunSet
    BY <1>2, <2>2 DEF RunTrue
  <2>9. /\ Covered(e).alo = Covered(l).alo /\ Covered(e).blo = Covered(l).blo
        /\ Covered(e).ahi = Covered(m).ahi /\ Covered(e).bhi = Covered(m).bhi
    <3>1. x + (n1 + n2) = (x + n1) + n2 /\ y + (n1 + n2) = (y + n1) + n2
      OBVIOUS
    <3>2. Covered(e).alo = x /\ Covered(e).blo = y /\ Covered(l).alo = x /\ Covered(l).blo = y
      BY <2>3, <2>6, <2>8, CoveredIs
    <3>3. Covered(e).ahi = x + (n1 + n2) /\ Covered(e).bhi = y + (n1 + n2)
      BY <2>6, CoveredIs
    <3>4. Covered(m).ahi = (x + n1) + n2 /\ Covered(m).bhi = (y + n1) + n2
      BY <2>4, <2>8, CoveredIs
    <3> QED BY <3>1, <3>2, <3>3, <3>4
  <2>10. EndsBefore(Difflib!Front(bs), e)
    BY <2>2, <2>9 DEF EndsBefore, First
  <2>11. w = Append(Difflib!Front(bs), e)
    BY <1>4, <2>1, <2>3, <2>4, <2>5
  <2>12. InLine(w, s, t) /\ w # <<>> /\ w[Len(w)] = e
    BY <2>2, <2>7, <2>10, <2>11, OneMoreInLine
  <2>13. \A n \in f \ {m} : First(Covered(e), Covered(n))
    BY <1>2, <2>9 DEF First
  <2> QED BY <1>1, <2>12, <2>13 DEF EndsBefore, AllAfter
<1> QED BY <1>3, <1>4 DEF Collapses

-------------------------------------------------------------------------------
(* What is said of them. *)

\* The runs that are still to be said by who stands at (x, y), up to the end of both.
RunsAhead(bs, s, t, x, y) ==
  /\ InLine(bs, s, t)
  /\ IF bs = <<>> THEN x = Len(s) /\ y = Len(t)
     ELSE /\ x <= bs[1].i /\ y <= bs[1].j
          /\ bs[Len(bs)].i + bs[Len(bs)].size = Len(s)
          /\ bs[Len(bs)].j + bs[Len(bs)].size = Len(t)

\* The one that ends both texts is put behind them.
LEMMA EndsBoth ==
  ASSUME NEW S, NEW s \in Seq(S), NEW t \in Seq(S), NEW bs, InLine(bs, s, t)
  PROVE  RunsAhead(Append(bs, Difflib!Block(Len(s), Len(t), 0)), s, t, 0, 0)
<1>1. PICK x \in Nat, y \in Nat : x = Len(s) /\ y = Len(t)
  OBVIOUS
<1>2. PICK e : e = Difflib!Block(x, y, 0)
  OBVIOUS
<1>3. e \in RunSet /\ e.i = x /\ e.j = y /\ e.size = 0
  BY <1>2 DEF Difflib!Block, RunSet
<1>4. RunTrue(e, s, t)
  <2>1. Matches(s, t, x, y, 0)
    <3>1. x + 0 <= Len(s) /\ y + 0 <= Len(t) /\ 1..0 = {}
      BY <1>1
    <3> QED BY <3>1 DEF Matches
  <2> QED BY <1>3, <2>1 DEF RunTrue
<1>5. EndsBefore(bs, e)
  <2> SUFFICES ASSUME bs # <<>> PROVE First(Covered(bs[Len(bs)]), Covered(e))
    BY DEF EndsBefore
  <2>1. PICK h \in Nat \ {0} : h = Len(bs) /\ h \in 1..Len(bs)
    BY EmptySeq DEF InLine
  <2>2. RunTrue(bs[h], s, t)
    BY <2>1 DEF InLine
  <2>3. PICK u \in Nat, v \in Nat, n \in Nat : u = bs[h].i /\ v = bs[h].j /\ n = bs[h].size
    BY <2>2 DEF RunTrue, RunSet
  <2>4. u + n <= x /\ v + n <= y
    BY <1>1, <2>2, <2>3 DEF RunTrue, Matches
  <2>5. Covered(bs[h]).ahi = u + n /\ Covered(bs[h]).bhi = v + n
    BY <2>2, <2>3, CoveredIs DEF RunTrue
  <2>6. Covered(e).alo = x /\ Covered(e).blo = y
    BY <1>3, CoveredIs
  <2> QED BY <2>1, <2>4, <2>5, <2>6 DEF First
<1>6. PICK w : w = Append(bs, e)
  OBVIOUS
<1>7. InLine(w, s, t) /\ w # <<>> /\ w[Len(w)] = e
  BY <1>4, <1>5, <1>6, OneMoreInLine
<1>8. 0 <= w[1].i /\ 0 <= w[1].j
  <2>1. 1 \in 1..Len(w)
    BY <1>7, EmptySeq DEF InLine
  <2>2. w[1] \in RunSet
    BY <1>7, <2>1 DEF InLine, RunTrue
  <2>3. \A n \in Nat : 0 <= n
    OBVIOUS
  <2> QED BY <2>2, <2>3 DEF RunSet
<1>9. x + 0 = x /\ y + 0 = y
  OBVIOUS
<1> QED BY <1>1, <1>2, <1>3, <1>6, <1>7, <1>8, <1>9 DEF RunsAhead

\* One of them is said: what lies before it, and the run.
LEMMA SayRun ==
  ASSUME NEW S, NEW s \in Seq(S), NEW t \in Seq(S), NEW said, NEW x \in Nat, NEW y \in Nat,
         SaidUpTo(said, s, t, x, y), NoneEmpty(said),
         NEW bs, bs # <<>>, RunsAhead(bs, s, t, x, y), NEW m, m = Head(bs)
  PROVE  /\ m \in RunSet
         /\ SaidUpTo(said \o UpToBlock(x, y, m), s, t, m.i + m.size, m.j + m.size)
         /\ NoneEmpty(said \o UpToBlock(x, y, m))
         /\ RunsAhead(Tail(bs), s, t, m.i + m.size, m.j + m.size)
<1>1. bs \in Seq(RunSet) /\ InLine(bs, s, t)
  BY DEF RunsAhead, InLine
<1>2. PICK l \in Nat : Len(bs) = l + 1
  <2>1. PICK h \in Nat \ {0} : h = Len(bs)
    BY <1>1, EmptySeq
  <2>2. h - 1 \in Nat /\ h = (h - 1) + 1
    OBVIOUS
  <2> QED BY <2>1, <2>2
<1>3. m = bs[1] /\ 1 \in 1..Len(bs)
  BY <1>1, <1>2, HeadTailProperties
<1>4. RunTrue(m, s, t)
  BY <1>1, <1>3 DEF InLine
<1>5. PICK u \in Nat, v \in Nat, n \in Nat : u = m.i /\ v = m.j /\ n = m.size
  BY <1>4 DEF RunTrue, RunSet
<1>6. Matches(s, t, u, v, n) /\ u + n <= Len(s) /\ v + n <= Len(t) /\ x <= u /\ y <= v
  BY <1>3, <1>4, <1>5 DEF RunTrue, Matches, RunsAhead
<1>7. PICK chg : chg = Change(x, u, y, v)
  OBVIOUS
<1>8. SaidUpTo(said \o chg, s, t, u, v) /\ NoneEmpty(said \o chg)
  <2>1. u \in x..Len(s) /\ v \in y..Len(t) /\ Len(s) \in Nat /\ Len(t) \in Nat
    BY <1>6
  <2> QED BY <1>7, <2>1, SayChange
<1>9. SaidUpTo(said \o UpToBlock(x, y, m), s, t, u + n, v + n) /\ NoneEmpty(said \o UpToBlock(x, y, m))
  <2>1. chg \in Seq(OpcodeSet)
    BY <1>7, ChangeIsOpcodes
  <2>2. CASE n = 0
    <3>1. UpToBlock(x, y, m) = chg
      <4>1. UpToBlock(x, y, m) = chg \o <<>>
        BY <1>5, <1>7, <2>2 DEF UpToBlock
      <4> QED BY <2>1, <4>1, ConcatEmptySeq
    <3>2. u + n = u /\ v + n = v
      BY <2>2
    <3> QED BY <1>8, <3>1, <3>2
  <2>3. CASE n # 0
    <3>1. PICK eq : eq = <<Opcode("equal", u, u + n, v, v + n)>>
      OBVIOUS
    <3>2. UpToBlock(x, y, m) = chg \o eq
      BY <1>5, <1>7, <2>3, <3>1 DEF UpToBlock
    <3>3. SaidUpTo((said \o chg) \o eq, s, t, u + n, v + n) /\ NoneEmpty((said \o chg) \o eq)
      <4>1. n \in Nat \ {0} /\ Len(s) \in Nat /\ Len(t) \in Nat
        BY <2>3
      <4> QED BY <1>6, <1>8, <3>1, <4>1, SayEqual
    <3>4. (said \o chg) \o eq = said \o (chg \o eq)
      <4>1. said \in Seq(OpcodeSet)
        BY DEF SaidUpTo
      <4>2. eq \in Seq(OpcodeSet)
        <5>1. Opcode("equal", u, u + n, v, v + n) \in OpcodeSet
          BY DEF Opcode, OpcodeSet, Tags
        <5> QED BY <3>1, <5>1
      <4> QED BY <2>1, <4>1, <4>2, ConcatAssociative
    <3> QED BY <3>2, <3>3, <3>4
  <2> QED BY <2>2, <2>3
<1>10. RunsAhead(Tail(bs), s, t, u + n, v + n)
  <2>1. PICK w : w = Tail(bs)
    OBVIOUS
  <2>2. w \in Seq(RunSet) /\ Len(w) = l /\ \A z \in 1..l : w[z] = bs[z + 1]
    <3>1. (l + 1) - 1 = l
      OBVIOUS
    <3> QED BY <1>1, <1>2, <2>1, <3>1, HeadTailProperties
  <2>3. \A z \in 1..l : z + 1 \in 1..Len(bs) /\ z + 1 > 1 /\ (z + 1) - 1 = z
    BY <1>2
  <2>4. InLine(w, s, t)
    <3>1. \A z \in 1..l : z > 1 => z - 1 \in 1..l /\ (z - 1) + 1 = z
      OBVIOUS
    <3>2. \A z \in 1..l : RunTrue(w[z], s, t)
      BY <1>1, <2>2, <2>3 DEF InLine
    <3>3. ASSUME NEW z \in 1..l, z > 1 PROVE First(Covered(w[z - 1]), Covered(w[z]))
      <4>1. w[z] = bs[z + 1] /\ w[z - 1] = bs[z]
        BY <2>2, <3>1, <3>3
      <4>2. First(Covered(bs[(z + 1) - 1]), Covered(bs[z + 1]))
        BY <1>1, <2>3 DEF InLine
      <4> QED BY <2>3, <4>1, <4>2
    <3> QED BY <2>2, <3>2, <3>3 DEF InLine
  <2>5. CASE l = 0
    <3>1. w = <<>> /\ bs[Len(bs)] = m
      BY <1>2, <1>3, <2>2, <2>5, EmptySeq
    <3>2. u + n = Len(s) /\ v + n = Len(t)
      BY <1>5, <3>1 DEF RunsAhead
    <3> QED BY <2>1, <2>4, <3>1, <3>2 DEF RunsAhead
  <2>6. CASE l # 0
    <3>1. w # <<>> /\ 1 \in 1..l /\ l \in 1..l /\ 1 + 1 \in 1..Len(bs)
      BY <1>2, <2>2, <2>6, EmptySeq
    <3>2. w[1] = bs[1 + 1] /\ w[l] = bs[Len(bs)]
      BY <1>2, <2>2, <3>1
    <3>3. First(Covered(m), Covered(w[1]))
      <4>1. 1 + 1 > 1 /\ (1 + 1) - 1 = 1
        OBVIOUS
      <4>2. First(Covered(bs[(1 + 1) - 1]), Covered(bs[1 + 1]))
        BY <1>1, <3>1, <4>1 DEF InLine
      <4> QED BY <1>3, <3>2, <4>1, <4>2
    <3>4. w[1] \in RunSet /\ m \in RunSet
      BY <1>4, <2>4, <2>2, <3>1 DEF InLine, RunTrue
    <3>5. u + n <= w[1].i /\ v + n <= w[1].j
      BY <1>5, <3>3, <3>4, CoveredIs DEF First
    <3> QED BY <2>1, <2>2, <2>4, <3>1, <3>2, <3>5 DEF RunsAhead
  <2> QED BY <2>5, <2>6
<1> QED BY <1>4, <1>5, <1>9, <1>10 DEF RunTrue

-------------------------------------------------------------------------------
(* The steps of difflib's algorithm. *)

\* While there are regions to look at, these and the matches found lie one before
\* another; then the matches that are sorted are in line before those that are not; then
\* what has been said leads to where the runs ahead begin.
DifflibInv ==
  engine = "difflib" =>
    /\ a \in Seq(Entries) /\ b \in Seq(Entries) /\ i \in Nat /\ j \in Nat
    /\ pc \in {"match", "say", "done"}
    /\ NoneEmpty(ops) /\ SaidUpTo(ops, a, b, i, j)
    /\ pc = "match" =>
         /\ i = 0 /\ j = 0
         /\ Waiting(queue, a, b) /\ Found(found, a, b) /\ Clear(queue, found)
         /\ InLine(blocks, a, b) /\ AllAfter(blocks, found)
         /\ queue # <<>> => blocks = <<>>
    /\ pc = "say" => RunsAhead(blocks, a, b, i, j)
    /\ pc = "done" => i = Len(a) /\ j = Len(b)

\* At the start one region is the whole of both.
LEMMA DifflibInvInit == Init => DifflibInv
<1> SUFFICES ASSUME Init, engine = "difflib" PROVE DifflibInv
  BY DEF DifflibInv
<1>1. a \in Seq(Entries) /\ b \in Seq(Entries)
  <2>1. a \in Upto(MaxText) /\ b \in Upto(MaxText)
    BY DEF Init, TextEngines
  <2>2. \A m \in 0..MaxText : [1..m -> Entries] \subseteq Seq(Entries)
    OBVIOUS
  <2> QED BY <2>1, <2>2 DEF Upto
<1>2. Difflib!Start
  BY DEF Init
<1>3. PICK x \in Nat, y \in Nat : x = Len(a) /\ y = Len(b)
  BY <1>1
<1>4. PICK r : r = Difflib!Region(0, x, 0, y)
  OBVIOUS
<1>5. r \in RegionSet /\ r.alo = 0 /\ r.ahi = x /\ r.blo = 0 /\ r.bhi = y
  BY <1>4 DEF Difflib!Region, RegionSet
<1>6. /\ queue = <<r>> /\ found = {} /\ blocks = <<>> /\ i = 0 /\ j = 0 /\ ops = <<>>
      /\ pc = "match"
  BY <1>2, <1>3, <1>4 DEF Difflib!Start
<1>7. RegionTrue(r, a, b)
  <2>1. x <= x /\ y <= y /\ 0 <= x /\ 0 <= y
    OBVIOUS
  <2> QED BY <1>3, <1>5, <2>1 DEF RegionTrue
<1>8. Waiting(queue, a, b)
  <2>1. queue \in Seq(RegionSet) /\ Len(queue) = 1 /\ queue[1] = r
    BY <1>5, <1>6
  <2>2. \A n \in 1..1 : n = 1
    OBVIOUS
  <2>3. ~(1 < 1)
    OBVIOUS
  <2> QED BY <1>7, <2>1, <2>2, <2>3 DEF Waiting
<1>9. Found(found, a, b) /\ Clear(queue, found)
  BY <1>6 DEF Found, Clear
<1>10. InLine(blocks, a, b) /\ AllAfter(blocks, found)
  <2>1. blocks \in Seq(RunSet) /\ Len(blocks) = 0
    BY <1>6
  <2> QED BY <1>6, <2>1 DEF InLine, AllAfter
<1> QED BY <1>1, <1>6, <1>8, <1>9, <1>10, NothingSaid DEF DifflibInv

\* Looking at a region.
LEMMA DifflibLooks ==
  ASSUME DifflibInv, engine = "difflib", Difflib!LookAt, engine' = engine
  PROVE  DifflibInv'
<1>1. /\ pc = "match" /\ queue # <<>> /\ UNCHANGED <<a, b, blocks, i, j, ops, pc>>
      /\ \E m \in Difflib!LongestMatch(Difflib!Last(queue)) :
           \/ m.size = 0 /\ queue' = Difflib!Front(queue) /\ UNCHANGED found
           \/ /\ m.size > 0
              /\ queue' = Difflib!Front(queue) \o Difflib!Before(m, Difflib!Last(queue))
                                               \o Difflib!After(m, Difflib!Last(queue))
              /\ found' = found \cup {m}
  BY DEF Difflib!LookAt
<1>2. /\ a \in Seq(Entries) /\ b \in Seq(Entries)
      /\ Waiting(queue, a, b) /\ Found(found, a, b) /\ Clear(queue, found) /\ blocks = <<>>
  BY <1>1 DEF DifflibInv
<1>3. PICK m \in Difflib!LongestMatch(Difflib!Last(queue)) :
           \/ m.size = 0 /\ queue' = Difflib!Front(queue) /\ UNCHANGED found
           \/ /\ m.size > 0
              /\ queue' = Difflib!Front(queue) \o Difflib!Before(m, Difflib!Last(queue))
                                               \o Difflib!After(m, Difflib!Last(queue))
              /\ found' = found \cup {m}
  BY <1>1
<1>4. RunTrue(m, a, b) /\ Within(m, Difflib!Last(queue))
  <2>1. RegionTrue(Difflib!Last(queue), a, b)
    <3>1. PICK h \in Nat \ {0} : h = Len(queue) /\ h \in 1..Len(queue)
      BY <1>1, <1>2, EmptySeq DEF Waiting
    <3> QED BY <1>2, <3>1 DEF Waiting, Difflib!Last
  <2> QED BY <1>2, <2>1, LongestIsRun
<1>5. Waiting(queue', a, b) /\ Found(found', a, b) /\ Clear(queue', found')
  <2>1. CASE m.size = 0 /\ queue' = Difflib!Front(queue) /\ UNCHANGED found
    BY <1>1, <1>2, <2>1, LookedInVain
  <2>2. CASE /\ m.size > 0
             /\ queue' = Difflib!Front(queue) \o Difflib!Before(m, Difflib!Last(queue))
                                              \o Difflib!After(m, Difflib!Last(queue))
             /\ found' = found \cup {m}
    <3>1. Len(a) \in Nat /\ Len(b) \in Nat
      BY <1>2
    <3> QED BY <1>1, <1>2, <1>4, <2>2, <3>1, LookedAt
  <2> QED BY <1>3, <2>1, <2>2
<1>6. Waiting(queue', a', b') /\ Found(found', a', b')
  BY <1>1, <1>5
<1>7. InLine(blocks', a', b') /\ AllAfter(blocks', found')
  BY <1>1, <1>2 DEF DifflibInv, AllAfter, EndsBefore
<1>8. SaidUpTo(ops', a', b', i', j')
  BY <1>1 DEF DifflibInv
<1> QED BY <1>1, <1>2, <1>5, <1>6, <1>7, <1>8 DEF DifflibInv

\* Sorting and collapsing.
LEMMA DifflibCollapses ==
  ASSUME DifflibInv, engine = "difflib", Difflib!Collapse, engine' = engine
  PROVE  DifflibInv'
<1>1. /\ pc = "match" /\ queue = <<>> /\ UNCHANGED <<a, b, queue, i, j, ops, pc>>
  BY DEF Difflib!Collapse
<1>2. PICK m \in found :
        LeastOf(m, found) /\ found' = found \ {m} /\ Collapses(blocks, m, blocks')
  BY DEF Difflib!Collapse, LeastOf, Collapses
<1>3. /\ Found(found, a, b) /\ InLine(blocks, a, b)
      /\ AllAfter(blocks, found)
  BY <1>1 DEF DifflibInv
<1>4. /\ Found(found', a, b) /\ InLine(blocks', a, b)
      /\ AllAfter(blocks', found')
  BY <1>2, <1>3, CollapsedOne
<1>5. Waiting(queue', a', b') /\ Found(found', a', b') /\ InLine(blocks', a', b')
  BY <1>1, <1>4 DEF DifflibInv
<1>6. Clear(queue', found')
  BY <1>1 DEF Clear
<1>7. SaidUpTo(ops', a', b', i', j')
  BY <1>1 DEF DifflibInv
<1> QED BY <1>1, <1>4, <1>5, <1>6, <1>7 DEF DifflibInv

\* The last block.
LEMMA DifflibMatched ==
  ASSUME DifflibInv, engine = "difflib", Difflib!AllMatched, engine' = engine
  PROVE  DifflibInv'
<1>1. /\ pc = "match" /\ pc' = "say" /\ UNCHANGED <<a, b, i, j, ops>>
      /\ blocks' = Append(blocks, Difflib!Block(Len(a), Len(b), 0))
  BY DEF Difflib!AllMatched
<1>2. /\ a \in Seq(Entries) /\ b \in Seq(Entries) /\ InLine(blocks, a, b) /\ i = 0 /\ j = 0
      /\ SaidUpTo(ops, a, b, i, j) /\ NoneEmpty(ops)
  BY <1>1 DEF DifflibInv
<1>3. RunsAhead(blocks', a, b, 0, 0)
  BY <1>1, <1>2, EndsBoth
<1>4. RunsAhead(blocks', a', b', i', j') /\ SaidUpTo(ops', a', b', i', j')
  BY <1>1, <1>2, <1>3
<1> QED BY <1>1, <1>2, <1>4 DEF DifflibInv

\* Saying a block and what lies before it.
LEMMA DifflibSays ==
  ASSUME DifflibInv, engine = "difflib", Difflib!SayBlock, engine' = engine
  PROVE  DifflibInv'
<1>1. /\ pc = "say" /\ blocks # <<>> /\ UNCHANGED <<a, b, pc>> /\ blocks' = Tail(blocks)
  BY DEF Difflib!SayBlock
<1>2. PICK m : m = Head(blocks)
  OBVIOUS
<1>3. i' = m.i + m.size /\ j' = m.j + m.size /\ ops' = ops \o UpToBlock(i, j, m)
  <2>1. Difflib!UpToBlock(i, j, m) = UpToBlock(i, j, m)
    BY DifflibWords DEF Difflib!UpToBlock, UpToBlock
  <2> QED BY <1>2, <2>1 DEF Difflib!SayBlock
<1>4. /\ a \in Seq(Entries) /\ b \in Seq(Entries) /\ i \in Nat /\ j \in Nat
      /\ RunsAhead(blocks, a, b, i, j) /\ SaidUpTo(ops, a, b, i, j) /\ NoneEmpty(ops)
  BY <1>1 DEF DifflibInv
<1>5. /\ m \in RunSet
      /\ SaidUpTo(ops', a, b, i', j') /\ NoneEmpty(ops') /\ RunsAhead(blocks', a, b, i', j')
  BY <1>1, <1>2, <1>3, <1>4, SayRun
<1>6. i' \in Nat /\ j' \in Nat
  BY <1>3, <1>5 DEF RunSet
<1>7. SaidUpTo(ops', a', b', i', j') /\ RunsAhead(blocks', a', b', i', j')
  BY <1>1, <1>5
<1> QED BY <1>1, <1>4, <1>5, <1>6, <1>7 DEF DifflibInv

\* Each step keeps the invariant.
LEMMA DifflibInvNext == DifflibInv /\ [Next]_vars => DifflibInv'
<1> SUFFICES ASSUME DifflibInv, [Next]_vars, engine' = "difflib" PROVE DifflibInv'
  BY DEF DifflibInv
<1>1. CASE RunDifflib
  <2>1. engine = "difflib" /\ Difflib!Next /\ engine' = engine
    BY <1>1 DEF RunDifflib
  <2>2. CASE Difflib!Finish
    <3>1. /\ pc = "say" /\ pc' = "done" /\ blocks = <<>>
          /\ UNCHANGED <<a, b, queue, found, blocks, i, j, ops>>
      BY <2>2 DEF Difflib!Finish
    <3>2. i = Len(a) /\ j = Len(b)
      BY <2>1, <3>1 DEF DifflibInv, RunsAhead
    <3> QED BY <2>1, <3>1, <3>2 DEF DifflibInv
  <2> QED BY <2>1, <2>2, DifflibLooks, DifflibCollapses, DifflibMatched, DifflibSays
          DEF Difflib!Next
<1>2. CASE UNCHANGED vars
  <2>1. UNCHANGED <<engine, a, b, i, j, ops, pc, queue, found, blocks>>
    BY <1>2 DEF vars, difflibVars
  <2> QED BY <2>1 DEF DifflibInv
<1>3. CASE RunGreedy \/ RunMyers \/ RunDmp \/ RunSes \/ RunChunk \/ RunRolling \/ WriteAndApply
  <2>1. engine' # "difflib"
    BY <1>3 DEF RunGreedy, RunMyers, RunDmp, RunSes, RunChunk, RunRolling, WriteAndApply,
                ByteEngines
  <2> QED BY <2>1
<1> QED BY <1>1, <1>2, <1>3 DEF Next

\* difflib's algorithm: what it says is so of both texts, in order and without a gap, and
\* each opcode says something, whatever lines are popular and in whatever order the
\* regions are looked at: the matches never cross one another.
THEOREM DifflibOpcodesLegal == Spec => [](engine = "difflib" => OpcodesLegal)
<1>1. DifflibInv => (engine = "difflib" => OpcodesLegal)
  BY DEF DifflibInv, OpcodesLegal, SaidUpTo
<1> QED BY <1>1, DifflibInvInit, DifflibInvNext, PTL DEF Spec

\* When it is done, it has accounted for every line of both.
THEOREM DifflibOpcodesCover == Spec => [](engine = "difflib" => OpcodesCover)
<1>1. DifflibInv => (engine = "difflib" => OpcodesCover)
  BY DEF DifflibInv, OpcodesCover, Compared, TextEngines, SaidUpTo, Covers
<1> QED BY <1>1, DifflibInvInit, DifflibInvNext, PTL DEF Spec

===============================================================================
