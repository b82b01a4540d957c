-------------------------------- MODULE Numbers --------------------------------
(***************************************************************************)
(* Facts about numbers that the proofs rest on: induction for sets of      *)
(* naturals (the library states it for a predicate, which no prover here   *)
(* can instantiate, and well-foundedness for sets, from which it follows), *)
(* sums that run along a sequence, and remainders; and what numbers the    *)
(* elements of a sequence have when it is cut or put together.             *)
(***************************************************************************)
EXTENDS Integers, WellFoundedInduction, SequenceTheorems, TLAPS

\* Every set of naturals that has an element has a least one.
LEMMA LeastNatural ==
  ASSUME NEW T \in SUBSET Nat, T # {}
  PROVE  \E x \in T : \A y \in T : x <= y
<1> DEFINE R == OpToRel(<, Nat)
<1>1. IsWellFoundedOn(R, Nat)
  BY NatLessThanWellFounded
<1>2. \A x, y \in Nat : (<<y, x>> \in R) <=> y < x
  BY DEF OpToRel
<1> HIDE DEF R
<1>3. PICK x \in T : \A y \in T : ~ (<<y, x>> \in R)
  BY <1>1, WFMin
<1>4. \A y \in T : x \in Nat /\ y \in Nat /\ ~(y < x)
  BY <1>2, <1>3
<1>5. \A y \in T : x <= y
  BY <1>4
<1> QED BY <1>3, <1>5

\* A set with 0 in it that has n + 1 when it has n has every number up to a bound.
LEMMA InductionUpTo ==
  ASSUME NEW n \in Nat, NEW S,
         0 \in S,
         \A k \in 0..(n - 1) : k \in S => k + 1 \in S
  PROVE  \A k \in 0..n : k \in S
<1> DEFINE T == {k \in 0..n : k \notin S}
<1>1. SUFFICES ASSUME T # {} PROVE FALSE
  OBVIOUS
<1>2. PICK x \in T : \A y \in T : x <= y
  <2>1. T \in SUBSET Nat
    OBVIOUS
  <2> QED BY <1>1, <2>1, LeastNatural
<1>3. x \in 0..n /\ x \notin S /\ x # 0
  OBVIOUS
<1>4. x - 1 \in 0..(n - 1) /\ x - 1 \in 0..n /\ x - 1 + 1 = x /\ ~(x <= x - 1)
  BY <1>3
<1>5. x - 1 \in S
  BY <1>2, <1>4
<1> QED BY <1>3, <1>4, <1>5

\* The same without a bound.
LEMMA InductionOnNat ==
  ASSUME NEW S, 0 \in S, \A k \in Nat : k \in S => k + 1 \in S
  PROVE  \A k \in Nat : k \in S
<1> SUFFICES ASSUME NEW k \in Nat PROVE k \in S
  OBVIOUS
<1>1. \A m \in 0..k : m \in S
  <2>1. \A m \in 0..(k - 1) : m \in S => m + 1 \in S
    OBVIOUS
  <2> QED BY <2>1, InductionUpTo
<1> QED BY <1>1

\* What begins with c and goes on by the m-th step from m - 1 to m.
Iterates(f, n, c, step) ==
  f[0] = c /\ \A m \in 1..n : f[m] = step[m][f[m - 1]]

\* There is such a function.
LEMMA Iteration ==
  ASSUME NEW n \in Nat, NEW S, NEW c \in S, NEW step \in [1..n -> [S -> S]]
  PROVE  \E f \in [0..n -> S] : Iterates(f, n, c, step)
<1> DEFINE R == {m \in 0..n : \E f \in [0..m -> S] : Iterates(f, m, c, step)}
<1>1. 0 \in R
  <2>1. [m \in 0..0 |-> c] \in [0..0 -> S] /\ Iterates([m \in 0..0 |-> c], 0, c, step)
    BY DEF Iterates
  <2> QED BY <2>1
<1>2. ASSUME NEW m \in 0..(n - 1), m \in R PROVE m + 1 \in R
  <2>1. PICK f \in [0..m -> S] : Iterates(f, m, c, step)
    BY <1>2
  <2> DEFINE g == [l \in 0..(m + 1) |-> IF l <= m THEN f[l] ELSE step[m + 1][f[m]]]
  <2>2. step[m + 1][f[m]] \in S
    <3>1. m + 1 \in 1..n /\ f[m] \in S
      OBVIOUS
    <3>2. step[m + 1] \in [S -> S]
      BY <3>1
    <3> QED BY <3>1, <3>2
  <2>3. /\ g \in [0..(m + 1) -> S] /\ \A l \in 0..m : g[l] = f[l]
        /\ g[m + 1] = step[m + 1][f[m]]
    BY <2>2
  <2> HIDE DEF g
  <2>4. \A l \in 1..(m + 1) : g[l] = step[l][g[l - 1]]
    <3> SUFFICES ASSUME NEW l \in 1..(m + 1) PROVE g[l] = step[l][g[l - 1]]
      OBVIOUS
    <3>1. l - 1 \in 0..m /\ (l = m + 1 => l - 1 = m) /\ (l # m + 1 => l \in 1..m /\ l \in 0..m)
      OBVIOUS
    <3> QED BY <2>1, <2>3, <3>1 DEF Iterates
  <2>5. Iterates(g, m + 1, c, step)
    BY <2>1, <2>3, <2>4 DEF Iterates
  <2>6. m + 1 \in 0..n
    OBVIOUS
  <2> QED BY <2>3, <2>5, <2>6
<1> HIDE DEF R
<1>3. \A m \in 0..n : m \in R
  <2>1. \A m \in 0..(n - 1) : m \in R => m + 1 \in R
    BY <1>2
  <2> QED BY <1>1, <2>1, InductionUpTo
<1>4. n \in R
  BY <1>3
<1> QED BY <1>4 DEF R

\* f sums up the n numbers of s, from c on.
Sums(f, c, s, n) ==
  f \in [0..n -> Int] /\ f[0] = c /\ \A k \in 1..n : f[k] = f[k - 1] + s[k]

\* There is such a function.
LEMMA RunningSum ==
  ASSUME NEW n \in Nat, NEW c \in Int, NEW s \in [1..n -> Int]
  PROVE  \E f : Sums(f, c, s, n)
<1> DEFINE S == {m \in 0..n : \E f : Sums(f, c, s, m)}
<1>1. 0 \in S
  <2>1. Sums([k \in 0..0 |-> c], c, s, 0)
    BY DEF Sums
  <2> QED BY <2>1
<1>2. ASSUME NEW m \in 0..(n - 1), m \in S PROVE m + 1 \in S
  <2>1. PICK f : Sums(f, c, s, m)
    BY <1>2
  <2> DEFINE g == [k \in 0..(m + 1) |-> IF k <= m THEN f[k] ELSE f[m] + s[m + 1]]
  <2>2. /\ f \in [0..m -> Int] /\ f[0] = c /\ \A k \in 1..m : f[k] = f[k - 1] + s[k]
        /\ s[m + 1] \in Int /\ f[m] \in Int
    BY <2>1 DEF Sums
  <2>3. g \in [0..(m + 1) -> Int] /\ g[0] = c
    BY <2>2
  <2>4. \A k \in 1..(m + 1) : g[k] = g[k - 1] + s[k]
    BY <2>2
  <2>5. Sums(g, c, s, m + 1)
    BY <2>3, <2>4 DEF Sums
  <2>6. m + 1 \in 0..n
    OBVIOUS
  <2> HIDE DEF g
  <2> QED BY <2>5, <2>6
<1> HIDE DEF S
<1>3. n \in S
  <2>1. \A m \in 0..(n - 1) : m \in S => m + 1 \in S
    BY <1>2
  <2>2. \A m \in 0..n : m \in S
    BY <1>1, <2>1, InductionUpTo
  <2> QED BY <2>2
<1> QED BY <1>3 DEF S

\* Each sum is a number, and comes from the one before.
LEMMA SumStep ==
  ASSUME NEW n \in Nat, NEW c, NEW s, NEW f, Sums(f, c, s, n)
  PROVE  /\ f[0] = c
         /\ \A k \in 0..n : f[k] \in Int
         /\ \A k \in 0..(n - 1) : f[k + 1] = f[k] + s[k + 1]
<1>1. \A k \in 0..(n - 1) : k + 1 \in 1..n /\ k + 1 - 1 = k
  OBVIOUS
<1> QED BY <1>1 DEF Sums

\* A function is the sums if it begins and goes on as they do.
LEMMA SumsAre ==
  ASSUME NEW n \in Nat, NEW c, NEW s, NEW f \in [0..n -> Int], f[0] = c,
         \A k \in 0..(n - 1) : f[k + 1] = f[k] + s[k + 1]
  PROVE  Sums(f, c, s, n)
<1>1. ASSUME NEW k \in 1..n PROVE f[k] = f[k - 1] + s[k]
  <2>1. k - 1 \in 0..(n - 1) /\ k - 1 + 1 = k
    OBVIOUS
  <2> QED BY <2>1
<1> QED BY <1>1 DEF Sums

\* What a remainder is.
LEMMA RemainderIs ==
  ASSUME NEW m \in Nat \ {0}, NEW x \in Int
  PROVE  (x % m) \in 0..(m - 1) /\ \E q \in Int : x = (m * q) + (x % m)
<1>1. (x % m) \in 0..(m - 1)
  OBVIOUS
<1>2. x = (m * (x \div m)) + (x % m)
  OBVIOUS
<1>3. (x \div m) \in Int
  OBVIOUS
<1> QED BY <1>1, <1>2, <1>3

\* The same with names for what there is.
LEMMA RemainderAnd ==
  ASSUME NEW m \in Nat \ {0}, NEW x \in Int
  PROVE  \E r, q \in Int : r = x % m /\ x = (m * q) + r
<1>1. PICK q \in Int : x = (m * q) + (x % m)
  BY RemainderIs
<1>2. (x % m) \in Int
  BY RemainderIs
<1> QED BY <1>1, <1>2

\* It is the only one.
LEMMA OneRemainder ==
  ASSUME NEW m \in Nat \ {0}, NEW r \in 0..(m - 1), NEW s \in 0..(m - 1), NEW q \in Int,
         r = s + (m * q)
  PROVE  r = s
<1>1. q > 0 => m * q >= m
  OBVIOUS
<1>2. q < 0 => m * q <= -m
  OBVIOUS
<1>3. q = 0 => m * q = 0
  OBVIOUS
<1> QED BY <1>1, <1>2, <1>3

\* Numbers that differ by a multiple have one remainder.
LEMMA SameRemainder ==
  ASSUME NEW m \in Nat \ {0}, NEW x \in Int, NEW y \in Int, NEW q \in Int, x = y + (m * q)
  PROVE  x % m = y % m
<1>1. PICK p \in Int : x = (m * p) + (x % m)
  BY RemainderIs
<1>2. PICK r \in Int : y = (m * r) + (y % m)
  BY RemainderIs
<1>3. PICK u \in 0..(m - 1) : u = x % m
  BY RemainderIs
<1>4. PICK v \in 0..(m - 1) : v = y % m
  BY RemainderIs
<1>5. u = v + (m * ((q + r) - p))
  BY <1>1, <1>2, <1>3, <1>4
<1>6. (q + r) - p \in Int
  OBVIOUS
<1>7. u = v
  BY <1>5, <1>6, OneRemainder
<1> QED BY <1>3, <1>4, <1>7

\* A remainder may be taken of a summand first.
LEMMA RemainderOfSum ==
  ASSUME NEW m \in Nat \ {0}, NEW x \in Int, NEW y \in Int
  PROVE  ((x % m) + y) % m = (x + y) % m
<1>1. PICK q \in Int : x = (m * q) + (x % m)
  BY RemainderIs
<1>2. PICK u \in Int : u = x % m
  BY RemainderIs
<1>3. x + y = (u + y) + (m * q)
  BY <1>1, <1>2
<1>4. (x + y) % m = (u + y) % m
  <2>1. x + y \in Int /\ u + y \in Int
    BY <1>2
  <2>2. PICK v \in Int : v = x + y
    BY <2>1
  <2>3. PICK w \in Int : w = u + y
    BY <2>1
  <2>4. v % m = w % m
    BY <1>3, <2>2, <2>3, SameRemainder
  <2> QED BY <2>2, <2>3, <2>4
<1> QED BY <1>2, <1>4

\* The remainder of what is at most once too large.
LEMMA RemainderOnce ==
  ASSUME NEW m \in Nat \ {0}, NEW x \in 0..(m - 1)
  PROVE  x % m = x /\ (x + m) % m = x
OBVIOUS

-------------------------------------------------------------------------------
(* Sequences. *)

\* A function on the first numbers is a sequence of that length.
LEMMA FunctionIsSeq ==
  ASSUME NEW S, NEW n \in Nat, NEW f \in [1..n -> S]
  PROVE  f \in Seq(S) /\ Len(f) = n /\ DOMAIN f = 1..n
OBVIOUS

\* Two sequences of known lengths end to end.
LEMMA EndToEnd ==
  ASSUME NEW S, NEW s \in Seq(S), NEW t \in Seq(S), NEW m, NEW n, Len(s) = m, Len(t) = n
  PROVE  /\ s \o t \in Seq(S) /\ Len(s \o t) = m + n
         /\ \A k \in 1..(m + n) : (s \o t)[k] = IF k <= m THEN s[k] ELSE t[k - m]
BY ConcatProperties

\* The n elements after the first m.
LEMMA Slice ==
  ASSUME NEW S, NEW s \in Seq(S), NEW m \in Nat, NEW n \in Nat, m + n <= Len(s)
  PROVE  /\ SubSeq(s, m + 1, m + n) \in Seq(S) /\ Len(SubSeq(s, m + 1, m + n)) = n
         /\ \A k \in 1..n : SubSeq(s, m + 1, m + n)[k] = s[m + k]
<1>1. \A k \in (m + 1)..(m + n) : s[k] \in S
  <2>1. \A k \in (m + 1)..(m + n) : k \in 1..Len(s)
    BY LenProperties
  <2> QED BY <2>1, ElementOfSeq
<1>2. m + 1 \in Int /\ m + n \in Int
  OBVIOUS
<1> QED BY <1>1, <1>2, SubSeqProperties
===============================================================================
