---------------------------- MODULE TornTailProofs ----------------------------
(***************************************************************************)
(* What readers answer over a stream whose last write was cut short, for   *)
(* every set of contents, signers and versions: the invariant TornInv of   *)
(* TornTail is kept by every step.  The commits before the cut are those   *)
(* of SimpleRCS, whose invariant and lemmas are used.                      *)
(***************************************************************************)
EXTENDS TornTail, SimpleRCSProofs

-------------------------------------------------------------------------------
(* Before the cut. *)

\* A rewrite in place for a commit does not leave the stream as long as it was, so that
\* the size it had is no key for the cache.
LEMMA CommitResizes ==
  ASSUME UncutInv, PatchesResize, FormatVersion = 2, NEW input \in Inputs, NEW m \in Metas,
         NEW old, NEW new, CommitStep(input, m, WithNewline[input], old, new)
  PROVE  eof' # eof
<1> DEFINE n == Len(stream)
           b == stream[n]
           c == WithNewline[input]
           signed(x) == Cardinality({s \in Signers : x.sigs[s] # Unsigned})
<1>1. /\ n \in DOMAIN stream /\ stream # <<>> /\ BlockShape(b) /\ BlockShape(old)
      /\ BlockShape(new) /\ ~IsDelta(b) /\ ~IsDelta(new) /\ old.sigs = b.sigs
      /\ b.payload \in Contents /\ c \in Contents /\ new.payload = c
  <2>1. n \in DOMAIN stream /\ stream # <<>> /\ BlockShape(b)
    BY DEF CommitStep, UncutInv, IInv, TypeOK, IsSequence
  <2>2. ~IsDelta(b)
    BY <2>1, LoadedHead DEF UncutInv, IInv
  <2>3. b.payload \in Contents
    BY <2>1, <2>2 DEF BlockShape, IsDelta
  <2> QED BY <2>1, <2>2, <2>3 DEF CommitStep
<1>2. /\ eof = b.start + BlockLen(b) /\ b.form = FullForm(b.payload)
      /\ eof' = (b.start + BlockLen(old)) + BlockLen(new)
  BY <1>1 DEF UncutInv, CommitStep
<1>3. b.start \in Nat /\ BlockLen(b) \in Nat /\ BlockLen(old) \in Nat
  BY <1>1, BlockLenNat DEF BlockShape
<1>4. /\ signed(b) \in Nat /\ signed(new) \in Nat /\ signed(old) = signed(b)
      /\ signed(new) \in 0..Cardinality(Signers)
  <2>1. ASSUME NEW x
        PROVE  /\ IsFiniteSet({s \in Signers : x.sigs[s] # Unsigned})
               /\ Cardinality({s \in Signers : x.sigs[s] # Unsigned}) <= Cardinality(Signers)
    <3>1. {s \in Signers : x.sigs[s] # Unsigned} \in SUBSET Signers
      OBVIOUS
    <3> QED BY <3>1, SignerAssumption, FS_Subset
  <2>2. \A x : signed(x) \in Nat
    BY <2>1, FS_CardinalityType
  <2>3. signed(new) <= Cardinality(Signers)
    BY <2>1
  <2>4. Cardinality(Signers) \in Nat
    BY SignerAssumption, FS_CardinalityType
  <2>5. signed(old) = signed(b)
    BY <1>1
  <2> HIDE DEF signed, b
  <2>6. signed(new) \in 0..Cardinality(Signers)
    BY <2>2, <2>3, <2>4
  <2> QED BY <2>2, <2>5, <2>6
<1>5. BlockLen(b) = 1 + ContentLen[b.payload] + signed(b)
      /\ BlockLen(new) = 1 + ContentLen[c] + signed(new)
  BY <1>1 DEF BlockLen
<1>6. ContentLen[b.payload] \in Nat /\ ContentLen[c] \in Nat /\ PatchLen \in Nat
  BY <1>1, FormatAssumption
<1> HIDE DEF signed
<1>7. CASE old = b
  BY <1>2, <1>3, <1>4, <1>5, <1>6, <1>7
<1>8. CASE old # b
  <2>1. PICK snapshot \in BOOLEAN : old = Demoted(b, c, snapshot)
    BY DEF CommitStep
  <2>2. /\ (c \in Binaries) <=> (b.payload \in Binaries)
        /\ old = [b EXCEPT !.form = "delta", !.payload = ReverseDelta(c, b.payload)]
    BY <1>2, <1>8, <2>1 DEF Demoted, FullForm
  <2>3. IsDelta(old) /\ old.payload = ReverseDelta(c, b.payload)
    BY <1>1, <2>2 DEF IsDelta, BlockShape
  <2>4. BlockLen(old) = 1 + DeltaLen(ReverseDelta(c, b.payload)) + signed(b)
    BY <1>4, <2>3 DEF BlockLen, signed
  <2>5. CASE b.payload \in Binaries
    <3>1. DeltaLen(ReverseDelta(c, b.payload)) = PatchLen
      BY <2>5 DEF DeltaLen, ReverseDelta
    <3>2. ContentLen[b.payload] # (1 + PatchLen) + (ContentLen[c] + signed(new))
      BY <1>4, <2>2, <2>5 DEF PatchesResize
    <3> HIDE DEF n, b, c
    <3> QED BY <1>2, <1>3, <1>4, <1>5, <1>6, <2>4, <3>1, <3>2
  <2>6. CASE b.payload \notin Binaries
    <3> DEFINE more == IF ContentLen[b.payload] > ContentLen[c]
                       THEN ContentLen[b.payload] - ContentLen[c] ELSE 0
    <3>1. DeltaLen(ReverseDelta(c, b.payload)) = 1 + more
      BY <2>6 DEF DeltaLen, ReverseDelta
    <3>2. more \in Nat /\ ContentLen[b.payload] <= more + ContentLen[c]
      BY <1>6
    <3> HIDE DEF more, n, b, c
    <3> QED BY <1>2, <1>3, <1>4, <1>5, <1>6, <2>4, <3>1, <3>2
  <2> QED BY <2>5, <2>6
<1> QED BY <1>7, <1>8

\* Every commit before the cut keeps what is known of the store.
LEMMA UncutCommit ==
  ASSUME UncutInv, PathBacked \/ PatchesResize, FormatVersion = 2, Commit
  PROVE  UncutInv'
<1>1. PICK input \in Inputs, m \in Metas, S \in SUBSET Signers, st \in Stamps :
        \/ FirstCommit(input, m, S, st)
        \/ \E snapshot \in BOOLEAN : NextCommit(input, m, snapshot, S, st)
  BY DEF Commit
<1>2. IInv
  BY DEF UncutInv
<1>3. CASE FirstCommit(input, m, S, st)
  <2> DEFINE c == WithNewline[input]
             new == NewBlock(0, m, c, NoHash, S, st, eof)
  <2>1. IInv'
    BY <1>2, <1>3, FirstCommitInv
  <2>2. stream = <<>> /\ Loaded(FALSE) = NoHead
    BY <1>2, <1>3, LoadedHead DEF IInv, FirstCommit
  <2>3. /\ stream' = Append(stream, new) /\ eof' = eof + BlockLen(new) /\ head' = Loaded(FALSE)
        /\ call' = Answer("commit", input, new.ver)
    BY <1>3 DEF FirstCommit, LoadHead
  <2>4. new.start = eof /\ new.form = FullForm(new.payload)
    BY DEF NewBlock
  <2> HIDE DEF new
  <2>5. stream' = <<new>>
    <3>1. stream' = Append(<<>>, new)
      BY <2>2, <2>3
    <3> QED BY <3>1
  <2>6. head' = NoHead
    BY <2>2, <2>3
  <2>7. Len(stream') = 1 /\ stream'[1] = new
    BY <2>5
  <2>8. call'.op = "commit" /\ ~call'.running
    BY <2>3 DEF Answer
  <2>9. eof' = new.start + BlockLen(new)
    BY <2>3, <2>4
  <2> QED BY <2>1, <2>4, <2>6, <2>7, <2>8, <2>9 DEF UncutInv
<1>4. ASSUME NEW snapshot \in BOOLEAN, NextCommit(input, m, snapshot, S, st)
      PROVE  UncutInv'
  <2>1. PICK old, new : CommitStep(input, m, WithNewline[input], old, new)
    BY <1>2, <1>4, NextCommitStep
  <2>2. IInv'
    <3>1. PathBacked \/ eof' # eof
      BY <2>1, CommitResizes
    <3> QED BY <1>2, <1>4, <3>1, NextCommitInv
  <2> DEFINE n == Len(stream)
  <2>3. /\ n \in Nat \ {0} /\ n \in DOMAIN stream
        /\ stream' = SubSeq(stream, 1, n - 1) \o <<old, new>>
        /\ head' = [at |-> n, block |-> stream[n]]
        /\ call' = Answer("commit", input, n)
        /\ eof' = new.start + BlockLen(new) /\ new.form = FullForm(new.payload)
    BY <2>1 DEF CommitStep
  <2>4. ~IsDelta(stream[n])
    BY <1>2, <2>3, LoadedHead DEF IInv, TypeOK, IsSequence
  <2>5. Len(stream') = n + 1 /\ stream'[n + 1] = new
    <3>1. stream' = Rewritten(stream, <<old, new>>) /\ IsSequence(stream) /\ stream # <<>>
      BY <1>2, <2>3 DEF Rewritten, IInv, TypeOK
    <3> HIDE DEF n
    <3> QED BY <3>1, LastReplacedByTwo DEF n
  <2> HIDE DEF n
  <2> QED BY <2>2, <2>3, <2>4, <2>5 DEF UncutInv, Answer
<1> QED BY <1>1, <1>3, <1>4

-------------------------------------------------------------------------------
(* What the scan finds in the bytes that are left. *)

\* The scan finds the last block that is not a delta, when there is one.
LEMMA HeadAtLast ==
  ASSUME NEW s, IsSequence(s), \E i \in DOMAIN s : ~IsDelta(s[i])
  PROVE  /\ HeadAt(s) \in DOMAIN s /\ ~IsDelta(s[HeadAt(s)])
         /\ \A j \in DOMAIN s : j > HeadAt(s) => IsDelta(s[j])
<1> DEFINE n == Len(s)
           T == {k \in 0..n : n - k \in DOMAIN s /\ ~IsDelta(s[n - k])}
<1>1. n \in Nat /\ DOMAIN s = 1..n
  BY DEF IsSequence
<1> HIDE DEF n
<1>2. T \in SUBSET Nat /\ T # {}
  <2>1. PICK i \in DOMAIN s : ~IsDelta(s[i])
    OBVIOUS
  <2>2. n - i \in 0..n /\ n - (n - i) = i
    BY <1>1
  <2>3. n - i \in T
    BY <2>1, <2>2
  <2> QED BY <1>1, <2>3
<1>3. PICK k \in T : \A y \in T : k <= y
  BY <1>2, LeastNatural
<1>4. k \in 0..n /\ n - k \in DOMAIN s /\ ~IsDelta(s[n - k])
  OBVIOUS
<1>5. ASSUME NEW j \in DOMAIN s, j > n - k PROVE IsDelta(s[j])
  <2>1. n - j \in 0..n /\ n - (n - j) = j /\ ~(k <= n - j)
    BY <1>1, <1>4, <1>5
  <2>2. n - j \notin T
    BY <1>3, <2>1
  <2> QED BY <2>1, <2>2
<1> HIDE DEF T
<1>6. \E i \in DOMAIN s : /\ ~IsDelta(s[i])
                          /\ \A j \in DOMAIN s : j > i => IsDelta(s[j])
  BY <1>4, <1>5
<1> QED BY <1>6 DEF HeadAt

\* A scan that meets a block with a text finds it, and takes it for the HEAD.
LEMMA ScannedAt ==
  ASSUME NEW s, \E i \in DOMAIN s : ~IsDelta(s[i])
  PROVE  Scanned(s, FALSE).at = HeadAt(s) /\ Scanned(s, FALSE).block = s[HeadAt(s)]
BY DEF Scanned

\* A block of the chain that is not a delta is whole.
LEMMA ChainIsWhole ==
  ASSUME NEW i \in DOMAIN stream', BlockShape(stream'[i]), Linked(i)', ~IsDelta(stream'[i])
  PROVE  stream'[i].ver = i - 1 /\ Whole(i)'
<1>1. stream'[i].payload = committed'[i].text
  BY DEF Linked
<1>2. stream'[i] = [stream'[i] EXCEPT !.payload = stream'[i].payload]
  BY DEF BlockShape
<1> QED BY <1>1, <1>2 DEF Linked, Whole

\* A block that can stand last in what is left, though it is not of the chain: a
\* delta that lost the block above it, or a new HEAD, whole or damaged.
LastLeft(i) ==
  /\ i = Len(stream)
  /\ \/ IsDelta(stream[i])
     \/ stream[i].ver = i - 1 /\ (Whole(i) \/ Damaged(stream[i]))

\* A new instance over such bytes finds a HEAD that is whole or damaged.
LEMMA FoundHead ==
  ASSUME FormatVersion = 2, IsSequence(stream'), head' = Scanned(stream', FALSE),
         headCacheSize' = eof', headMetaOnly' = FALSE,
         Len(stream') <= Len(committed'), committed' \in Seq([text : Contents, meta : Metas]),
         \A i \in DOMAIN stream' : (BlockShape(stream'[i]) /\ Linked(i)') \/ LastLeft(i)'
  PROVE  LeftInv'
<1> DEFINE n == Len(stream')
<1>1. n \in Nat /\ DOMAIN stream' = 1..n
  BY DEF IsSequence
<1>2. CASE ~ \E i \in DOMAIN stream' : ~IsDelta(stream'[i])
  BY <1>2 DEF LeftInv, Scanned
<1>3. CASE \E i \in DOMAIN stream' : ~IsDelta(stream'[i])
  <2>0. PICK k \in DOMAIN stream' : k = HeadAt(stream')
    BY <1>3, HeadAtLast
  <2>1. k \in DOMAIN stream' /\ ~IsDelta(stream'[k])
    BY <1>3, <2>0, HeadAtLast
  <2>3. stream'[k].ver = k - 1 /\ (Whole(k)' \/ Damaged(stream'[k]))
    <3>1. CASE BlockShape(stream'[k]) /\ Linked(k)'
      BY <2>1, <3>1, ChainIsWhole
    <3>2. CASE LastLeft(k)'
      BY <2>1, <3>2 DEF LastLeft
    <3> QED BY <2>1, <3>1, <3>2
  <2>4. ASSUME NEW i \in 1..(k - 1) PROVE BlockShape(stream'[i]) /\ Linked(i)'
    <3>1. i \in 1..n /\ i # n
      <4>1. k \in 1..n
        BY <1>1, <2>1
      <4> HIDE DEF n
      <4> QED BY <1>1, <4>1
    <3> QED BY <1>1, <3>1 DEF LastLeft
  <2>5. head'.at = k /\ head'.block = stream'[k]
    BY <2>0, <1>3, ScannedAt
  <2> QED BY <2>1, <2>3, <2>4, <2>5 DEF LeftInv
<1> QED BY <1>2, <1>3

\* The constructor answers nothing, so that the chain that is left is all there is.
LEMMA RecoveredInv ==
  ASSUME LeftInv', cut' = TRUE, call' = Answer("open", EmptyText, NoText)
  PROVE  TornInv'
<1>1. call'.op = "open" /\ ~call'.running
  BY DEF Answer
<1>2. head' # NoHead => ~IsDelta(head'.block)
  BY DEF LeftInv
<1> QED BY <1>1, <1>2 DEF TornInv, LeftWalkInv, ReadsWhatIsLeft, DeltaNeverServed,
                          VerifyJudgesHead

-------------------------------------------------------------------------------
(* The cuts. *)

\* The blocks before the last one stay in the chain when the tail is rewritten.
LEMMA ChainKept ==
  ASSUME IInv, NEW i \in 1..(Len(stream) - 1), Len(stream') >= Len(stream),
         \A j \in 1..(Len(stream) - 1) : stream'[j] = stream[j],
         \A j \in 1..Len(stream) : committed'[j] = committed[j] /\ endorsed'[j] = endorsed[j]
  PROVE  BlockShape(stream'[i]) /\ Linked(i)'
<1> DEFINE n == Len(stream)
<1>0. n \in Nat /\ DOMAIN stream = 1..n
  BY DEF IInv, TypeOK, IsSequence
<1>1. i \in DOMAIN stream /\ i \in 1..n /\ i + 1 \in 1..n /\ (i # 1 => i - 1 \in 1..(n - 1))
  BY <1>0
<1>2. BlockShape(stream[i]) /\ Linked(i)
  BY <1>1 DEF IInv, TypeOK, ChainInv
<1>3. stream'[i] = stream[i] /\ (i # 1 => stream'[i - 1] = stream[i - 1])
  BY <1>1
<1>4. /\ committed'[i] = committed[i] /\ committed'[i + 1] = committed[i + 1]
      /\ endorsed'[i] = endorsed[i]
  BY <1>1
<1>5. i < Len(stream') /\ i < n
  <2>1. i < n
    BY <1>0
  <2>2. Len(stream') >= n
    OBVIOUS
  <2> QED BY <2>1, <2>2 DEF n
<1> QED BY <1>2, <1>3, <1>4, <1>5 DEF Linked

\* A first commit that is cut short leaves nothing, or its block whole or damaged.
LEMMA CutFirstInv ==
  ASSUME UncutInv, FormatVersion = 2, NEW input \in Inputs, NEW m \in Metas,
         NEW snapshot \in BOOLEAN, CutCommit(input, m, snapshot), Loaded(FALSE) = NoHead
  PROVE  TornInv'
<1> DEFINE c == WithNewline[input]
           new == NewBlock(0, m, c, NoHash, {}, NoStamp, eof)
<1>1. stream = <<>> /\ committed = <<>>
  <2>1. stream = <<>>
    BY LoadedHead DEF UncutInv, IInv
  <2> QED BY <2>1, EmptySeq DEF UncutInv, IInv, ChainInv, TypeOK
<1>2. c \in Contents
  BY StoreAssumption
<1>3. /\ Recovered(stream, TornAppends(new))
      /\ committed' = Append(committed, [text |-> c, meta |-> m])
  BY DEF CutCommit
<1>4. committed' = <<[text |-> c, meta |-> m]>>
  BY <1>1, <1>3
<1>5. /\ new.ver = 0 /\ new.payload = c /\ new.prev = NoHash /\ new.form = FullForm(c)
      /\ new.hash = Digest(0, m, c, NoHash) /\ new.meta = m
      /\ new = [new EXCEPT !.payload = new.payload]
      /\ DOMAIN new = {"ver", "start", "meta", "form", "payload", "hash", "prev", "sigs"}
  BY FormatVersion = 2 DEF NewBlock
<1>6. PICK tail \in TornAppends(new) : stream' = stream \o tail
  BY <1>3 DEF Recovered
<1> HIDE DEF new, c
<1>7. stream' = tail
  <2>1. \A x : <<>> \o <<x>> = <<x>>
    OBVIOUS
  <2>2. <<>> \o <<>> = <<>>
    OBVIOUS
  <2> QED BY <1>1, <1>6, <2>1, <2>2 DEF TornAppends
<1>8. committed' \in Seq([text : Contents, meta : Metas]) /\ Len(committed') = 1
      /\ committed'[1].text = c
  BY <1>2, <1>4
<1>9. LeftInv'
  <2>1. /\ head' = Scanned(stream', FALSE) /\ headCacheSize' = eof' /\ headMetaOnly' = FALSE
    BY <1>3 DEF Recovered
  <2>2. CASE tail = <<>>
    <3>1. stream' = <<>> /\ IsSequence(stream') /\ Len(stream') = 0 /\ DOMAIN stream' = {}
      BY <1>7, <2>2 DEF IsSequence
    <3>2. Len(stream') <= Len(committed')
      BY <1>8, <3>1
    <3>3. \A i \in DOMAIN stream' : (BlockShape(stream'[i]) /\ Linked(i)') \/ LastLeft(i)'
      BY <3>1
    <3> QED BY <1>8, <2>1, <3>1, <3>2, <3>3, FoundHead
  <2>3. CASE tail # <<>>
    <3>1. PICK b \in {Textless(new), Unhashed(new), new} : tail = <<b>>
      BY <1>6, <2>3 DEF TornAppends
    <3>2. /\ Len(stream') = 1 /\ DOMAIN stream' = {1} /\ stream'[1] = b
      BY <1>7, <3>1
    <3>3. IsSequence(stream')
      <4>1. stream' \in Seq({b})
        BY <1>7, <3>1
      <4> QED BY <4>1, IsSequenceOf
    <3>4. b.ver = 0 /\ (b = new \/ b.hash = NoHash)
      BY <1>5 DEF Textless, Unhashed
    <3>5. b = new => Whole(1)'
      BY <1>5, <1>8, <3>2 DEF Whole
    <3>6. b.hash = NoHash => Damaged(b)
      BY DEF Damaged, Digest, NoHash
    <3>7. LastLeft(1)'
      BY <3>2, <3>4, <3>5, <3>6 DEF LastLeft
    <3>8. Len(stream') <= Len(committed')
      BY <1>8, <3>2
    <3>9. \A i \in DOMAIN stream' : (BlockShape(stream'[i]) /\ Linked(i)') \/ LastLeft(i)'
      BY <3>2, <3>7
    <3> QED BY <1>8, <2>1, <3>3, <3>8, <3>9, FoundHead
  <2> QED BY <2>2, <2>3
<1>10. cut' = TRUE /\ call' = Answer("open", EmptyText, NoText)
  BY <1>3 DEF Recovered
<1> QED BY <1>9, <1>10, RecoveredInv

\* A HEAD that is loaded before the cut is the last block, whole.
LEMMA UncutHead ==
  ASSUME UncutInv, Loaded(FALSE) # NoHead, NEW n, n = Len(stream)
  PROVE  /\ n \in Nat \ {0} /\ DOMAIN stream = 1..n /\ IsSequence(stream) /\ stream # <<>>
         /\ Loaded(FALSE).at = n /\ Loaded(FALSE).block = stream[n]
         /\ BlockShape(stream[n]) /\ Linked(n) /\ ~IsDelta(stream[n])
         /\ stream[n].payload = committed[n].text /\ stream[n].ver = n - 1
         /\ stream[n].hash = Digest(n - 1, stream[n].meta, committed[n].text, stream[n].prev)
         /\ Len(committed) = n /\ Len(endorsed) = n
<1>1. IInv
  BY DEF UncutInv
<1>2. stream # <<>>
  BY <1>1, LoadedHead DEF IInv
<1>3. /\ n \in DOMAIN stream /\ ~IsDelta(stream[n]) /\ Loaded(FALSE) = [at |-> n, block |-> stream[n]]
      /\ stream[n].payload = committed[n].text
  BY <1>1, <1>2, LoadedHead DEF IInv
<1>4. n \in Nat \ {0} /\ DOMAIN stream = 1..n /\ IsSequence(stream)
  BY <1>1, <1>3 DEF IInv, TypeOK, IsSequence
<1>5. BlockShape(stream[n]) /\ Linked(n) /\ Len(committed) = n /\ Len(endorsed) = n
  BY <1>1, <1>3 DEF IInv, TypeOK, ChainInv
<1>6. /\ stream[n].ver = n - 1
      /\ stream[n].hash = Digest(n - 1, stream[n].meta, committed[n].text, stream[n].prev)
  BY <1>5 DEF Linked
<1>7. Loaded(FALSE).at = n /\ Loaded(FALSE).block = stream[n]
  <2> DEFINE L == Loaded(FALSE)
  <2>1. L = [at |-> n, block |-> stream[n]]
    BY <1>3
  <2> HIDE DEF L
  <2>2. L.at = n /\ L.block = stream[n]
    BY <2>1
  <2> QED BY <2>2 DEF L
<1> QED BY <1>2, <1>3, <1>4, <1>5, <1>6, <1>7

\* What a cut can leave of the two blocks a commit writes: the old HEAD alone, in
\* one state or another, or the demoted one and part of the new.
LEMMA TornShapes ==
  ASSUME NEW b, NEW old, NEW new, NEW tail \in TornTails(b, old, new)
  PROVE  \/ \E x \in {b, old} : tail = <<x>>
         \/ \E x \in {Textless(b), Mixed(old, b.hash)} : tail = <<x>> /\ old # b
         \/ \E y \in {Textless(new), Mixed(new, b.hash), Unhashed(new), new} : tail = <<old, y>>
BY DEF TornTails

\* A commit on a HEAD that is cut short leaves the versions before that HEAD, and
\* as HEAD the old one, a new one, damaged or not, or an older snapshot.
LEMMA CutNextInv ==
  ASSUME UncutInv, FormatVersion = 2, NEW input \in Inputs, NEW m \in Metas,
         NEW snapshot \in BOOLEAN, CutCommit(input, m, snapshot), Loaded(FALSE) # NoHead
  PROVE  TornInv'
<1>0. PICK n : n = Len(stream)
  OBVIOUS
<1> DEFINE b == stream[n]
           c == WithNewline[input]
           old == Demoted(b, c, snapshot)
           new == NewBlock(n, m, c, b.hash, {}, NoStamp, eof)
           version == [text |-> c, meta |-> m]
<1>1. /\ n \in Nat \ {0} /\ DOMAIN stream = 1..n /\ IsSequence(stream) /\ stream # <<>>
      /\ Loaded(FALSE).at = n /\ Loaded(FALSE).block = b
      /\ BlockShape(b) /\ Linked(n) /\ ~IsDelta(b) /\ b.payload = committed[n].text
      /\ b.ver = n - 1 /\ b.hash = Digest(n - 1, b.meta, committed[n].text, b.prev)
      /\ Len(committed) = n /\ Len(endorsed) = n
  BY <1>0, UncutHead
<1>2. c \in Contents
  BY StoreAssumption
<1>3. /\ BlockShape(old) /\ old.ver = n - 1 /\ old.meta = b.meta /\ old.hash = b.hash
      /\ old.prev = b.prev /\ old.sigs = b.sigs
      /\ IF IsDelta(old) THEN old.payload = ReverseDelta(c, committed[n].text)
         ELSE old.payload = committed[n].text
      /\ (old = b \/ IsDelta(old))
  <2>1. old = b \/ old = [b EXCEPT !.form = "delta", !.payload = ReverseDelta(c, b.payload)]
    BY DEF Demoted
  <2>2. old = b \/ IsDelta(old)
    BY <1>1, <2>1 DEF IsDelta, BlockShape
  <2> QED BY <1>1, <1>2, <2>2, DemotedBlock
<1>4. /\ new.ver = n /\ new.payload = c /\ new.prev = b.hash /\ new.form = FullForm(c)
      /\ new.hash = Digest(n, m, c, b.hash) /\ new.meta = m
      /\ new = [new EXCEPT !.payload = new.payload]
      /\ DOMAIN new = {"ver", "start", "meta", "form", "payload", "hash", "prev", "sigs"}
  BY FormatVersion = 2 DEF NewBlock
<1>5. /\ Recovered(SubSeq(stream, 1, n - 1), TornTails(b, old, new))
      /\ committed' = Append(committed, version)
      /\ endorsed' = Append(endorsed, Stamped(NoSigs))
  <2> DEFINE L == Loaded(FALSE)
             o == Demoted(L.block, c, snapshot)
             w == IF L = NoHead THEN NewBlock(0, m, c, NoHash, {}, NoStamp, eof)
                  ELSE NewBlock(L.block.ver + 1, m, c, LinkTo(L.block), {}, NoStamp, eof)
  <2>1. /\ Recovered(SubSeq(stream, 1, L.at - 1), TornTails(L.block, o, w))
        /\ committed' = Append(committed, version)
        /\ endorsed' = Append(endorsed, Stamped(NoSigs))
    BY DEF CutCommit
  <2>2. LinkTo(b) = b.hash /\ b.ver + 1 = n
    <3>1. b.hash # NoHash
      BY <1>1 DEF Digest, NoHash
    <3> HIDE DEF b
    <3> QED BY <1>1, <3>1, FormatVersion = 2 DEF LinkTo
  <2>3. L.at = n /\ L.block = b /\ L # NoHead
    BY <1>1
  <2> HIDE DEF L
  <2>4. o = old /\ w = new
    BY <2>2, <2>3
  <2> HIDE DEF o, w, old, new
  <2> QED BY <2>1, <2>3, <2>4
<1>6. PICK tail \in TornTails(b, old, new) : stream' = SubSeq(stream, 1, n - 1) \o tail
  BY <1>5 DEF Recovered
<1>7. stream' = Rewritten(stream, tail)
  BY <1>0, <1>6 DEF Rewritten
<1>8. \/ \E x \in {b, old} : tail = <<x>>
      \/ \E x \in {Textless(b), Mixed(old, b.hash)} : tail = <<x>> /\ old # b
      \/ \E y \in {Textless(new), Mixed(new, b.hash), Unhashed(new), new} : tail = <<old, y>>
  BY <1>6, TornShapes
<1>9. /\ committed' \in Seq([text : Contents, meta : Metas]) /\ Len(committed') = n + 1
      /\ \A j \in 1..n : committed'[j] = committed[j] /\ endorsed'[j] = endorsed[j]
      /\ committed'[n + 1].text = c
  <2>1. /\ committed \in Seq([text : Contents, meta : Metas])
        /\ endorsed \in Seq([Signers -> Stamps \cup {NoStamp}])
    BY DEF UncutInv, IInv, TypeOK
  <2>2. version \in [text : Contents, meta : Metas] /\ version.text = c
    BY <1>2
  <2> HIDE DEF version
  <2> QED BY <1>1, <1>5, <2>1, <2>2
<1>10. /\ head' = Scanned(stream', FALSE) /\ headCacheSize' = eof' /\ headMetaOnly' = FALSE
       /\ cut' = TRUE /\ call' = Answer("open", EmptyText, NoText)
  BY <1>5 DEF Recovered
<1>11. IInv
  BY DEF UncutInv
<1> HIDE DEF old, new, c
<1>12. ASSUME NEW x, tail = <<x>>,
              \/ x \in {b, old}
              \/ x \in {Textless(b), Mixed(old, b.hash)} /\ old # b
       PROVE  LeftInv'
  <2>1. /\ IsSequence(stream') /\ Len(stream') = n /\ DOMAIN stream' = 1..n
        /\ \A i \in 1..(n - 1) : stream'[i] = stream[i]
        /\ stream'[n] = x
    <3>1. stream' = Rewritten(stream, <<x>>)
      BY <1>7, <1>12
    <3> QED BY <1>0, <1>1, <3>1, LastReplaced
  <2>2. \A i \in 1..(n - 1) : BlockShape(stream'[i]) /\ Linked(i)'
    BY <1>0, <1>1, <1>9, <1>11, <2>1, ChainKept, SMTT(60)
  <2>3. IsDelta(x) \/ (x.ver = n - 1 /\ (Whole(n)' \/ Damaged(x)))
    <3>1. CASE x = b
      <4>1. n # 1 => stream'[n - 1] = stream[n - 1]
        <5>1. n # 1 => n - 1 \in 1..(n - 1)
          BY <1>1
        <5> QED BY <2>1, <5>1
      <4>2. b.prev = IF n = 1 THEN NoHash ELSE stream[n - 1].hash
        BY <1>1 DEF Linked
      <4>3. committed'[n].text = b.payload
        BY <1>1, <1>9
      <4>4. b = [b EXCEPT !.payload = b.payload]
        BY <1>1 DEF BlockShape
      <4>5. b.hash = Digest(b.ver, b.meta, b.payload, b.prev)
        BY <1>1
      <4> HIDE DEF b
      <4> QED BY <1>1, <2>1, <3>1, <4>1, <4>2, <4>3, <4>4, <4>5 DEF Whole
    <3>2. CASE x = old
      BY <1>3, <3>1, <3>2
    <3>3. CASE x = Textless(b)
      <4>1. x.hash = NoHash /\ x.ver = b.ver
        BY <1>1, <3>3 DEF Textless, BlockShape
      <4> QED BY <1>1, <4>1 DEF Damaged, Digest, NoHash
    <3>4. CASE x = Mixed(old, b.hash) /\ old # b
      <4>1. IsDelta(old)
        BY <1>3, <3>4
      <4>2. x.form = old.form
        BY <1>3, <3>4 DEF Mixed, BlockShape
      <4> QED BY <4>1, <4>2 DEF IsDelta
    <3> QED BY <1>12, <3>1, <3>2, <3>3, <3>4
  <2>4. LastLeft(n)'
    BY <2>1, <2>3 DEF LastLeft
  <2>5. Len(stream') <= Len(committed')
    BY <1>1, <1>9, <2>1
  <2>6. \A i \in DOMAIN stream' : (BlockShape(stream'[i]) /\ Linked(i)') \/ LastLeft(i)'
    <3>1. \A i \in 1..n : i = n \/ i \in 1..(n - 1)
      BY <1>1
    <3> QED BY <2>1, <2>2, <2>4, <3>1
  <2> QED BY <1>9, <1>10, <2>1, <2>5, <2>6, FoundHead
<1>13. ASSUME NEW y \in {Textless(new), Mixed(new, b.hash), Unhashed(new), new}, tail = <<old, y>>
       PROVE  LeftInv'
  <2>1. /\ IsSequence(stream') /\ Len(stream') = n + 1 /\ DOMAIN stream' = 1..(n + 1)
        /\ \A i \in 1..(n - 1) : stream'[i] = stream[i]
        /\ stream'[n] = old /\ stream'[n + 1] = y
    <3>1. stream' = Rewritten(stream, <<old, y>>)
      BY <1>7, <1>13
    <3> QED BY <1>0, <1>1, <3>1, LastReplacedByTwo
  <2>2. \A i \in 1..(n - 1) : BlockShape(stream'[i]) /\ Linked(i)'
    BY <1>0, <1>1, <1>9, <1>11, <2>1, ChainKept
  <2>3. BlockShape(stream'[n]) /\ Linked(n)'
    <3>1. n # 1 => stream'[n - 1] = stream[n - 1]
      <4>1. n # 1 => n - 1 \in 1..(n - 1)
        BY <1>1
      <4> QED BY <2>1, <4>1
    <3>2. /\ b.prev = IF n = 1 THEN NoHash ELSE stream[n - 1].hash
          /\ b.meta = committed[n].meta /\ Stamped(b.sigs) = endorsed[n]
      BY <1>1 DEF Linked
    <3>3. committed'[n] = committed[n] /\ endorsed'[n] = endorsed[n] /\ n < n + 1
      BY <1>1, <1>9
    <3>4. /\ old.ver = n - 1 /\ old.meta = committed'[n].meta
          /\ old.prev = IF n = 1 THEN NoHash ELSE stream'[n - 1].hash
          /\ old.hash = Digest(old.ver, old.meta, committed'[n].text, old.prev)
          /\ Stamped(old.sigs) = endorsed'[n]
      BY <1>1, <1>3, <3>1, <3>2, <3>3
    <3>5. IF IsDelta(old)
          THEN /\ n < Len(stream')
               /\ old.payload = ReverseDelta(committed'[n + 1].text, committed'[n].text)
          ELSE old.payload = committed'[n].text
      BY <1>3, <1>9, <2>1, <3>3
    <3> HIDE DEF b
    <3> QED BY <1>3, <2>1, <3>4, <3>5 DEF Linked
  <2>0. PICK k : k = n + 1
    OBVIOUS
  <2>4. y.ver = n /\ (Whole(k)' \/ Damaged(y))
    <3>1. CASE y = new
      <4>1. k # 1 /\ k - 1 = n
        BY <1>1, <2>0
      <4>2. new.hash = Digest(new.ver, new.meta, new.payload, new.prev)
        BY <1>4
      <4>3. new.prev = stream'[n].hash /\ new.payload = committed'[k].text /\ stream'[k] = new
        BY <2>0, <1>3, <1>4, <1>9, <2>1, <3>1
      <4> HIDE DEF b
      <4> QED BY <1>4, <3>1, <4>1, <4>2, <4>3 DEF Whole
    <3>2. CASE y \in {Textless(new), Unhashed(new)}
      <4>1. y.hash = NoHash /\ y.ver = n
        BY <1>4, <3>2 DEF Textless, Unhashed
      <4> QED BY <4>1 DEF Damaged, Digest, NoHash
    <3>3. CASE y = Mixed(new, b.hash)
      <4>1. y.hash = b.hash /\ y.ver = n
        BY <1>4, <3>3 DEF Mixed
      <4>2. y.hash = <<n - 1, b.meta, committed[n].text, b.prev>>
        BY <1>1, <4>1 DEF Digest
      <4>3. n - 1 # n
        BY <1>1
      <4> QED BY <4>1, <4>2, <4>3 DEF Damaged, Digest
    <3> QED BY <3>1, <3>2, <3>3
  <2>5. LastLeft(k)'
    <3>1. k - 1 = n /\ stream'[k] = y /\ Len(stream') = k
      BY <1>1, <2>0, <2>1
    <3> QED BY <2>4, <3>1 DEF LastLeft
  <2>6. Len(stream') <= Len(committed')
    BY <1>1, <1>9, <2>1
  <2>7. \A i \in DOMAIN stream' : (BlockShape(stream'[i]) /\ Linked(i)') \/ LastLeft(i)'
    <3>1. \A i \in 1..(n + 1) : i = n + 1 \/ i = n \/ i \in 1..(n - 1)
      BY <1>1
    <3> QED BY <2>0, <2>1, <2>2, <2>3, <2>5, <3>1
  <2> QED BY <1>9, <1>10, <2>1, <2>6, <2>7, FoundHead
<1>14. LeftInv'
  BY <1>8, <1>12, <1>13
<1> QED BY <1>10, <1>14, RecoveredInv

\* A signing that is cut short leaves HEAD whole but for its signatures.
LEMMA CutSignInv ==
  ASSUME UncutInv, FormatVersion = 2, NEW S \in SUBSET Signers, NEW st \in Stamps,
         CutSign(S, st)
  PROVE  TornInv'
<1>0. PICK n : n = Len(stream)
  OBVIOUS
<1> DEFINE b == stream[n]
<1>1. /\ n \in Nat \ {0} /\ DOMAIN stream = 1..n /\ IsSequence(stream) /\ stream # <<>>
      /\ Loaded(FALSE).at = n /\ Loaded(FALSE).block = b
      /\ BlockShape(b) /\ Linked(n) /\ ~IsDelta(b) /\ b.payload = committed[n].text
      /\ b.ver = n - 1 /\ b.hash = Digest(n - 1, b.meta, committed[n].text, b.prev)
      /\ Len(committed) = n /\ Len(endorsed) = n
  <2>1. Loaded(FALSE) # NoHead
    BY DEF CutSign
  <2> QED BY <1>0, <2>1, UncutHead
<1>2. /\ \E sigs \in TornSigs(b.sigs, S, st, b.hash) :
           stream' = SubSeq(stream, 1, n - 1) \o <<[b EXCEPT !.sigs = sigs]>>
      /\ head' = Scanned(stream', FALSE) /\ headCacheSize' = eof' /\ headMetaOnly' = FALSE
      /\ cut' = TRUE /\ call' = Answer("open", EmptyText, NoText)
      /\ UNCHANGED told
  <2> DEFINE L == Loaded(FALSE)
  <2>1. /\ Recovered(SubSeq(stream, 1, L.at - 1),
                     {<<[L.block EXCEPT !.sigs = sigs]>> :
                        sigs \in TornSigs(L.block.sigs, S, st, L.block.hash)})
        /\ UNCHANGED told
    BY DEF CutSign
  <2>2. L.at = n /\ L.block = b
    BY <1>1
  <2> HIDE DEF L, b
  <2> QED BY <2>1, <2>2 DEF Recovered
<1>3. PICK sigs : stream' = Rewritten(stream, <<[b EXCEPT !.sigs = sigs]>>)
  BY <1>0, <1>2 DEF Rewritten
<1> DEFINE x == [b EXCEPT !.sigs = sigs]
<1>4. /\ x.ver = n - 1 /\ x.payload = b.payload /\ x.prev = b.prev
      /\ x.hash = Digest(x.ver, x.meta, x.payload, x.prev)
      /\ x = [x EXCEPT !.payload = x.payload]
  BY <1>1 DEF BlockShape
<1> HIDE DEF x
<1>5. /\ IsSequence(stream') /\ Len(stream') = n /\ DOMAIN stream' = 1..n
      /\ \A i \in 1..(n - 1) : stream'[i] = stream[i]
      /\ stream'[n] = x
  <2>1. stream' = Rewritten(stream, <<x>>)
    BY <1>3 DEF x
  <2>2. LET r == Rewritten(stream, <<x>>)
        IN  /\ IsSequence(r) /\ Len(r) = n /\ DOMAIN r = 1..n
            /\ \A i \in 1..(n - 1) : r[i] = stream[i]
            /\ r[n] = x
    BY <1>0, <1>1, LastReplaced
  <2> QED BY <2>1, <2>2
<1>6. committed' = committed /\ endorsed' = endorsed
  BY <1>2 DEF told
<1>7. \A i \in 1..(n - 1) : BlockShape(stream'[i]) /\ Linked(i)'
  BY <1>0, <1>1, <1>5, <1>6, ChainKept DEF UncutInv
<1>8. LastLeft(n)'
  <2>1. n # 1 => stream'[n - 1] = stream[n - 1]
    <3>1. n # 1 => n - 1 \in 1..(n - 1)
      BY <1>1
    <3> QED BY <1>5, <3>1
  <2>2. b.prev = IF n = 1 THEN NoHash ELSE stream[n - 1].hash
    BY <1>1 DEF Linked
  <2>3. Whole(n)'
    <3> HIDE DEF b
    <3> QED BY <1>1, <1>4, <1>5, <1>6, <2>1, <2>2 DEF Whole
  <2> QED BY <1>4, <1>5, <2>3 DEF LastLeft
<1>9. Len(stream') <= Len(committed') /\ committed' \in Seq([text : Contents, meta : Metas])
  BY <1>1, <1>5, <1>6 DEF UncutInv, IInv, TypeOK
<1>10. \A i \in DOMAIN stream' : (BlockShape(stream'[i]) /\ Linked(i)') \/ LastLeft(i)'
  <2>1. \A i \in 1..n : i = n \/ i \in 1..(n - 1)
    BY <1>1
  <2> QED BY <1>5, <1>7, <1>8, <2>1
<1>11. LeftInv'
  BY <1>2, <1>5, <1>9, <1>10, FoundHead
<1> QED BY <1>2, <1>11, RecoveredInv

-------------------------------------------------------------------------------
(* The reads after the cut. *)

\* They find the HEAD that the new instance has found, and leave it and the stream.
LEMMA LeftLoaded ==
  ASSUME LeftInv, LoadHead(FALSE), UNCHANGED store
  PROVE  /\ Loaded(FALSE) = head
         /\ head' = head /\ headCacheSize' = headCacheSize /\ headMetaOnly' = headMetaOnly
<1>1. /\ head = Scanned(stream, FALSE) /\ headCacheSize = eof /\ ~headMetaOnly
      /\ headMetaOnly = FALSE
  BY DEF LeftInv
<1>2. Loaded(FALSE) = head
  BY <1>1 DEF Loaded
<1>3. head = NoHead \/ CacheHit(FALSE)
  BY <1>1 DEF CacheHit
<1>4. headMetaOnly' = headMetaOnly
  BY <1>2, <1>3 DEF LoadHead
<1>5. head' = head /\ headCacheSize' = headCacheSize
  BY <1>1, <1>2 DEF LoadHead
<1> QED BY <1>2, <1>4, <1>5

\* Nothing that is known of what is left changes with the call.
LEMMA LeftStays ==
  ASSUME LeftInv, UNCHANGED <<store, cache, told>>
  PROVE  /\ LeftInv' /\ head' = head /\ stream' = stream /\ committed' = committed
         /\ WholeHead' = WholeHead /\ SignaturesWhole' = SignaturesWhole
<1>1. /\ stream' = stream /\ eof' = eof /\ head' = head /\ headCacheSize' = headCacheSize
      /\ headMetaOnly' = headMetaOnly /\ committed' = committed /\ endorsed' = endorsed
  BY DEF store, cache, told
<1>2. \A i : (Linked(i) => Linked(i)') /\ (Whole(i) => Whole(i)')
  BY <1>1 DEF Linked, Whole
<1>3. LeftInv'
  BY <1>1, <1>2 DEF LeftInv
<1>4. WholeHead' = WholeHead /\ SignaturesWhole' = SignaturesWhole
  BY <1>1 DEF WholeHead, SignaturesWhole
<1> QED BY <1>1, <1>3, <1>4

\* A HEAD whose hash is right is the version that was committed, and the other way.
LEMMA WholeIsIntact ==
  ASSUME LeftInv, head # NoHead
  PROVE  /\ ~Damaged(head.block) => WholeHead
         /\ WholeHead => Whole(head.at) /\ ~Damaged(head.block)
         /\ Intact(head.block) <=> (WholeHead /\ SignaturesWhole)
         /\ head.at \in Nat \ {0} /\ head.at \in DOMAIN stream
         /\ head.block = stream[head.at] /\ head.block.ver = head.at - 1
         /\ Len(stream) \in Nat /\ DOMAIN stream = 1..Len(stream)
         /\ Len(stream) <= Len(committed) /\ head.at <= Len(committed)
<1>1. /\ head.at \in DOMAIN stream /\ head.block = stream[head.at]
      /\ head.block.ver = head.at - 1
      /\ Whole(head.at) \/ Damaged(head.block)
  BY DEF LeftInv
<1>2. ~Damaged(head.block) => WholeHead
  BY <1>1 DEF Damaged, Whole, WholeHead
<1>3. WholeHead => ~Damaged(head.block)
  BY DEF Damaged, WholeHead
<1>4. ~Damaged(head.block) => head.block.hash # NoHash
  <2>1. \A v, m, c, p : Digest(v, m, c, p) # NoHash
    BY DEF Digest, NoHash
  <2> QED BY <2>1 DEF Damaged
<1>5. Intact(head.block) <=> (~Damaged(head.block) /\ SignaturesWhole)
  BY <1>4 DEF Intact, Damaged, SignaturesWhole
<1>6. /\ Len(stream) \in Nat /\ DOMAIN stream = 1..Len(stream)
      /\ Len(stream) <= Len(committed) /\ Len(committed) \in Nat
  BY DEF LeftInv, IsSequence
<1>7. head.at \in Nat \ {0} /\ head.at <= Len(committed)
  <2> DEFINE k == head.at
  <2>1. k \in 1..Len(stream)
    BY <1>1, <1>6
  <2> HIDE DEF k
  <2>2. k \in Nat \ {0} /\ k <= Len(committed)
    BY <1>6, <2>1
  <2> QED BY <2>2 DEF k
<1> QED BY <1>1, <1>2, <1>3, <1>5, <1>6, <1>7

\* What was committed at a place in the chain is content, and no delta.
LEMMA LeftTexts ==
  ASSUME LeftInv, head # NoHead, NEW k \in 1..head.at
  PROVE  committed[k].text \in Contents /\ committed[k].text \notin Deltas
         /\ committed[k].text # Corrupt
<1>1. k \in 1..Len(committed)
  <2>1. head.at \in Nat /\ head.at <= Len(committed)
    BY WholeIsIntact
  <2>2. Len(committed) \in Nat
    BY DEF LeftInv
  <2> QED BY <2>1, <2>2
<1>2. committed \in Seq([text : Contents, meta : Metas])
  BY DEF LeftInv
<1>3. committed[k] \in [text : Contents, meta : Metas]
  BY <1>1, <1>2, ElementOfSeq
<1> QED BY <1>3, DeltaAssumption, ContentAssumption

\* Going back one block from one that has its text gives the one before with its own.
LEMMA LeftBack ==
  ASSUME LeftInv, head # NoHead, FormatVersion = 2, NEW k \in 1..head.at, k # 1,
         NEW cur, cur.payload = committed[k].text
  PROVE  LET prev == [stream[k - 1] EXCEPT !.payload = committed[k - 1].text] IN
         /\ k - 1 \in 1..(head.at - 1) /\ BlockShape(stream[k - 1]) /\ Linked(k - 1)
         /\ Before(k, cur) = prev
         /\ prev.payload = committed[k - 1].text /\ prev.payload # Corrupt
         /\ prev.payload \in Contents /\ prev.payload \notin Deltas
         /\ prev.ver = k - 2 /\ prev.hash = stream[k - 1].hash
<1>1. k - 1 \in 1..(head.at - 1) /\ k - 1 \in 1..head.at /\ k - 1 + 1 = k /\ k - 1 - 1 = k - 2
  <2>1. head.at \in Nat
    BY WholeIsIntact
  <2> QED BY <2>1
<1>2. PICK i : i = k - 1
  OBVIOUS
<1>3. BlockShape(stream[i]) /\ Linked(i)
  BY <1>1, <1>2 DEF LeftInv
<1>4. committed[i].text \in Contents /\ committed[i].text \notin Deltas /\ committed[i].text # Corrupt
  BY <1>1, <1>2, LeftTexts
<1>5. TextBefore(cur.payload, stream[i]) = committed[i].text
  <2>1. CASE IsDelta(stream[i])
    <3>1. /\ stream[i].payload = ReverseDelta(committed[i + 1].text, committed[i].text)
          /\ stream[i].payload \notin Contents
      BY <1>3, <2>1, DeltaAssumption DEF Linked, BlockShape, IsDelta
    <3>2. i + 1 = k
      BY <1>1, <1>2
    <3> QED BY <2>1, <3>1, <3>2 DEF TextBefore, Applied, ReverseDelta
  <2>2. CASE ~IsDelta(stream[i])
    BY <1>3, <2>2 DEF TextBefore, Linked
  <2> QED BY <2>1, <2>2
<1>6. Before(k, cur) = [stream[i] EXCEPT !.payload = committed[i].text]
  BY <1>2, <1>5 DEF Before
<1> DEFINE prev == [stream[i] EXCEPT !.payload = committed[i].text]
<1>7. /\ prev.payload = committed[i].text /\ prev.ver = stream[i].ver
      /\ prev.hash = stream[i].hash
  BY <1>3 DEF BlockShape
<1>8. stream[i].ver = k - 2
  BY <1>1, <1>2, <1>3 DEF Linked
<1> QED BY <1>1, <1>2, <1>3, <1>4, <1>6, <1>7, <1>8

\* The parts of the invariant that a call after the cut touches.
LeftAnswers == LeftWalkInv /\ ReadsWhatIsLeft /\ DeltaNeverServed /\ VerifyJudgesHead

\* A call after the cut that leaves the store alone has only its answer to account for.
LEMMA LeftKeeps ==
  ASSUME LeftInv, cut' = TRUE, UNCHANGED <<store, cache, told>>, LeftAnswers'
  PROVE  TornInv'
<1>1. LeftInv'
  BY LeftStays
<1> QED BY <1>1 DEF TornInv, LeftAnswers

\* checkout before its loop.
LEMMA LeftCheckout ==
  ASSUME LeftInv, cut = TRUE, UNCHANGED cut, FormatVersion = 2, head = NoHead \/ WholeHead,
         NEW v \in 0..MaxVersions, Checkout(v)
  PROVE  TornInv'
<1>1. /\ LoadHead(FALSE) /\ UNCHANGED <<store, told>>
      /\ call' = IF Loaded(FALSE) = NoHead THEN Answer("checkout", v, EmptyText)
                 ELSE IF Loaded(FALSE).block.ver = v
                 THEN Answer("checkout", v, Loaded(FALSE).block.payload)
                 ELSE Walk("checkout", v, Loaded(FALSE).at, Loaded(FALSE).block)
  BY DEF Checkout
<1>2. /\ Loaded(FALSE) = head /\ UNCHANGED <<store, cache, told>>
  BY <1>1, LeftLoaded DEF cache
<1>3. /\ LeftInv' /\ head' = head /\ stream' = stream /\ committed' = committed
      /\ WholeHead' = WholeHead /\ SignaturesWhole' = SignaturesWhole
  BY <1>2, LeftStays
<1>4. v \in Nat
  BY StoreAssumption
<1>5. head # NoHead => ~IsDelta(head.block)
  BY DEF LeftInv
<1>6. CASE head = NoHead
  <2>1. call' = Answer("checkout", v, EmptyText)
    BY <1>1, <1>2, <1>6
  <2>2. /\ call'.op = "checkout" /\ call'.running = FALSE /\ call'.target = v
        /\ call'.out = EmptyText
    BY <2>1 DEF Answer
  <2>3. EmptyText \notin Deltas
    BY StoreAssumption
  <2>4. LeftAnswers'
    BY <1>3, <1>4, <1>6, <2>2, <2>3
       DEF LeftAnswers, LeftWalkInv, ReadsWhatIsLeft, DeltaNeverServed, VerifyJudgesHead
  <2> QED BY <1>2, <2>4, LeftKeeps
<1>7. CASE head # NoHead
  <2>1. PICK k : k = head.at
    OBVIOUS
  <2>2. /\ WholeHead /\ k \in Nat \ {0} /\ head.block.ver = k - 1 /\ head.block = stream[k]
        /\ Whole(k)
    BY <1>7, <2>1, WholeIsIntact
  <2>3. /\ head.block.payload = committed[k].text
        /\ head.block = [stream[k] EXCEPT !.payload = committed[k].text]
    BY <2>2 DEF Whole
  <2>4. committed[k].text \notin Deltas
    <3>1. k \in 1..head.at
      BY <2>1, <2>2
    <3> QED BY <1>7, <3>1, LeftTexts
  <2>5. CASE k - 1 = v
    <3>1. call' = Answer("checkout", v, committed[k].text)
      BY <1>1, <1>2, <1>7, <2>2, <2>3, <2>5
    <3>2. /\ call'.op = "checkout" /\ call'.running = FALSE /\ call'.target = v
          /\ call'.out = committed[k].text
      BY <3>1 DEF Answer
    <3>3. v <= head.block.ver /\ v + 1 = k
      BY <1>4, <2>2, <2>5
    <3>4. LeftAnswers'
      BY <1>3, <1>4, <1>5, <1>7, <2>4, <3>2, <3>3
         DEF LeftAnswers, LeftWalkInv, ReadsWhatIsLeft, DeltaNeverServed, VerifyJudgesHead
    <3> QED BY <1>2, <3>4, LeftKeeps
  <2>6. CASE k - 1 # v
    <3>1. call' = Walk("checkout", v, k, head.block)
      BY <1>1, <1>2, <1>7, <2>1, <2>2, <2>6
    <3>2. /\ call'.op = "checkout" /\ call'.running = TRUE /\ call'.target = v
          /\ call'.at = k /\ call'.cur = head.block
      BY <3>1 DEF Walk
    <3>3. v \notin (k - 1)..(head.at - 1) /\ k \in 1..head.at /\ ~(k < head.at)
      BY <1>4, <2>1, <2>2, <2>6
    <3>4. LeftWalkInv'
      BY <1>3, <1>4, <1>7, <2>1, <2>2, <2>3, <3>2, <3>3 DEF LeftWalkInv
    <3>5. LeftAnswers'
      BY <1>3, <1>5, <3>2, <3>4
         DEF LeftAnswers, ReadsWhatIsLeft, DeltaNeverServed, VerifyJudgesHead
    <3> QED BY <1>2, <3>5, LeftKeeps
  <2> QED BY <2>5, <2>6
<1> QED BY <1>6, <1>7

\* verify before its loop.
LEMMA LeftVerify ==
  ASSUME LeftInv, cut = TRUE, UNCHANGED cut, FormatVersion = 2, Verify
  PROVE  TornInv'
<1>0. FormatVersion # 1
  BY FormatVersion = 2
<1>1. /\ LoadHead(FALSE) /\ UNCHANGED <<store, told>>
      /\ call' = IF Loaded(FALSE) = NoHead THEN Answer("verify", 0, TRUE)
                 ELSE Walk("verify", 0, Loaded(FALSE).at, Loaded(FALSE).block)
  BY <1>0 DEF Verify
<1>2. /\ Loaded(FALSE) = head /\ UNCHANGED <<store, cache, told>>
  BY <1>1, LeftLoaded DEF cache
<1>3. /\ LeftInv' /\ head' = head /\ stream' = stream /\ committed' = committed
  BY <1>2, LeftStays
<1>4. head # NoHead => ~IsDelta(head.block)
  BY DEF LeftInv
<1>5. CASE head = NoHead
  <2>1. call' = Answer("verify", 0, TRUE)
    BY <1>1, <1>2, <1>5
  <2>2. call'.op = "verify" /\ call'.running = FALSE
    BY <2>1 DEF Answer
  <2>3. LeftAnswers'
    BY <1>3, <1>5, <2>2
       DEF LeftAnswers, LeftWalkInv, ReadsWhatIsLeft, DeltaNeverServed, VerifyJudgesHead
  <2> QED BY <1>2, <2>3, LeftKeeps
<1>6. CASE head # NoHead
  <2>1. call' = Walk("verify", 0, head.at, head.block)
    BY <1>1, <1>2, <1>6
  <2>2. /\ call'.op = "verify" /\ call'.running = TRUE /\ call'.at = head.at
        /\ call'.cur = head.block
    BY <2>1 DEF Walk
  <2>3. head.at \in 1..head.at /\ ~(head.at < head.at)
    BY <1>6, WholeIsIntact
  <2>4. LeftWalkInv'
    BY <1>3, <1>6, <2>2, <2>3 DEF LeftWalkInv
  <2>5. LeftAnswers'
    BY <1>3, <1>4, <2>2, <2>4
       DEF LeftAnswers, ReadsWhatIsLeft, DeltaNeverServed, VerifyJudgesHead
  <2> QED BY <1>2, <2>5, LeftKeeps
<1> QED BY <1>5, <1>6

\* A turn of checkout's loop.
LEMMA LeftCheckoutStep ==
  ASSUME LeftInv, LeftWalkInv, cut = TRUE, UNCHANGED cut, FormatVersion = 2, CheckoutStep
  PROVE  TornInv'
<1>0. PICK k, v : k = call.at /\ v = call.target
  OBVIOUS
<1> DEFINE prev == Before(k, call.cur)
<1>1. /\ call.running /\ call.op = "checkout" /\ UNCHANGED <<store, cache, told>>
      /\ call' = IF k = 1 THEN Answer("checkout", v, NotFound)
                 ELSE IF prev.payload = Corrupt THEN Answer("checkout", v, Corrupt)
                 ELSE IF prev.ver = v THEN Answer("checkout", v, prev.payload)
                 ELSE Walk("checkout", v, k - 1, prev)
  BY <1>0 DEF CheckoutStep
<1>2. /\ head # NoHead /\ k \in 1..head.at /\ v \in Nat /\ WholeHead
      /\ (k = head.at => call.cur = head.block)
      /\ call.cur = [stream[k] EXCEPT !.payload = committed[k].text]
      /\ v \notin (k - 1)..(head.at - 1)
  BY <1>0, <1>1 DEF LeftWalkInv
<1>3. /\ LeftInv' /\ head' = head /\ stream' = stream /\ committed' = committed
      /\ WholeHead' = WholeHead /\ SignaturesWhole' = SignaturesWhole
  BY <1>1, LeftStays
<1>4. /\ head.at \in Nat \ {0} /\ head.block.ver = head.at - 1 /\ head.block = stream[head.at]
      /\ Whole(head.at) /\ ~IsDelta(head.block) /\ k \in Nat \ {0} /\ k <= head.at
  <2>1. /\ head.at \in Nat \ {0} /\ head.block.ver = head.at - 1
        /\ head.block = stream[head.at] /\ Whole(head.at)
    BY <1>2, WholeIsIntact
  <2>2. ~IsDelta(head.block)
    BY <1>2 DEF LeftInv
  <2>3. k \in Nat \ {0} /\ k <= head.at
    BY <1>2, <2>1
  <2> QED BY <2>1, <2>2, <2>3
<1>5. CASE k = 1
  <2>1. call' = Answer("checkout", v, NotFound)
    BY <1>1, <1>5
  <2>2. /\ call'.op = "checkout" /\ call'.running = FALSE /\ call'.target = v
        /\ call'.out = NotFound
    BY <2>1 DEF Answer
  <2>3. ~(v <= head.block.ver) /\ NotFound \notin Deltas
    BY <1>2, <1>4, <1>5, StoreAssumption
  <2>4. LeftAnswers'
    BY <1>2, <1>3, <1>4, <2>2, <2>3
       DEF LeftAnswers, LeftWalkInv, ReadsWhatIsLeft, DeltaNeverServed, VerifyJudgesHead
  <2> QED BY <1>1, <2>4, LeftKeeps
<1>6. CASE k # 1
  <2>1. call.cur.payload = committed[k].text
    <3>1. CASE k = head.at
      BY <1>2, <1>4, <3>1 DEF Whole
    <3>2. CASE k # head.at
      <4>1. k \in 1..(head.at - 1)
        BY <1>2, <1>4, <3>2
      <4>2. BlockShape(stream[k])
        BY <1>2, <4>1 DEF LeftInv
      <4> QED BY <1>2, <4>2 DEF BlockShape
    <3> QED BY <3>1, <3>2
  <2>2. /\ k - 1 \in 1..(head.at - 1)
        /\ prev = [stream[k - 1] EXCEPT !.payload = committed[k - 1].text]
        /\ prev.payload = committed[k - 1].text /\ prev.payload # Corrupt
        /\ prev.payload \notin Deltas /\ prev.ver = k - 2
    BY <1>2, <1>6, <2>1, LeftBack
  <2> HIDE DEF prev
  <2>3. CASE k - 2 = v
    <3>1. call' = Answer("checkout", v, committed[k - 1].text)
      BY <1>1, <1>6, <2>2, <2>3
    <3>2. /\ call'.op = "checkout" /\ call'.running = FALSE /\ call'.target = v
          /\ call'.out = committed[k - 1].text
      BY <3>1 DEF Answer
    <3>3. v <= head.block.ver /\ v + 1 = k - 1
      BY <1>2, <1>4, <2>3
    <3>4. LeftAnswers'
      BY <1>2, <1>3, <1>4, <2>2, <3>2, <3>3
         DEF LeftAnswers, LeftWalkInv, ReadsWhatIsLeft, DeltaNeverServed, VerifyJudgesHead
    <3> QED BY <1>1, <3>4, LeftKeeps
  <2>4. CASE k - 2 # v
    <3>1. call' = Walk("checkout", v, k - 1, prev)
      BY <1>1, <1>6, <2>2, <2>4
    <3>2. /\ call'.op = "checkout" /\ call'.running = TRUE /\ call'.target = v
          /\ call'.at = k - 1 /\ call'.cur = prev
      BY <3>1 DEF Walk
    <3>3. /\ v \notin (k - 1 - 1)..(head.at - 1) /\ k - 1 \in 1..head.at
          /\ k - 1 # head.at
      BY <1>2, <1>4, <1>6, <2>4
    <3>4. LeftWalkInv'
      BY <1>2, <1>3, <2>2, <3>2, <3>3 DEF LeftWalkInv
    <3>5. LeftAnswers'
      BY <1>3, <1>4, <3>2, <3>4
         DEF LeftAnswers, ReadsWhatIsLeft, DeltaNeverServed, VerifyJudgesHead
    <3> QED BY <1>1, <3>5, LeftKeeps
  <2> QED BY <2>3, <2>4
<1> QED BY <1>5, <1>6

\* A turn of verify's loop.
LEMMA LeftVerifyStep ==
  ASSUME LeftInv, LeftWalkInv, cut = TRUE, UNCHANGED cut, FormatVersion = 2, VerifyStep
  PROVE  TornInv'
<1>0. PICK k, cur : k = call.at /\ cur = call.cur
  OBVIOUS
<1> DEFINE prev == Before(k, cur)
<1>1. /\ call.running /\ call.op = "verify" /\ UNCHANGED <<store, cache, told>>
      /\ call' = IF ~Intact(cur) THEN Answer("verify", 0, FALSE)
                 ELSE IF k = 1 THEN Answer("verify", 0, TRUE)
                 ELSE IF prev.payload = Corrupt \/ cur.prev # prev.hash
                      THEN Answer("verify", 0, FALSE)
                 ELSE Walk("verify", 0, k - 1, prev)
  BY <1>0 DEF VerifyStep
<1>2. /\ head # NoHead /\ k \in 1..head.at
      /\ (k = head.at => cur = head.block)
      /\ (k < head.at =>
            /\ WholeHead /\ SignaturesWhole
            /\ cur = [stream[k] EXCEPT !.payload = committed[k].text])
  BY <1>0, <1>1 DEF LeftWalkInv
<1>3. /\ LeftInv' /\ head' = head /\ stream' = stream /\ committed' = committed
      /\ WholeHead' = WholeHead /\ SignaturesWhole' = SignaturesWhole
  BY <1>1, LeftStays
<1>4. /\ head.at \in Nat \ {0} /\ head.block = stream[head.at]
      /\ (WholeHead => Whole(head.at))
      /\ (Intact(head.block) <=> (WholeHead /\ SignaturesWhole))
      /\ ~IsDelta(head.block) /\ k \in Nat \ {0} /\ k <= head.at
  <2>1. /\ head.at \in Nat \ {0} /\ head.block = stream[head.at]
        /\ (WholeHead => Whole(head.at))
        /\ (Intact(head.block) <=> (WholeHead /\ SignaturesWhole))
    BY <1>2, WholeIsIntact
  <2>2. ~IsDelta(head.block)
    BY <1>2 DEF LeftInv
  <2>3. k \in Nat \ {0} /\ k <= head.at
    BY <1>2, <2>1
  <2> QED BY <2>1, <2>2, <2>3
<1>5. k # head.at =>
        /\ cur.payload = committed[k].text /\ Intact(cur)
        /\ (k # 1 => cur.prev = stream[k - 1].hash)
  <2> SUFFICES ASSUME k # head.at
               PROVE  /\ cur.payload = committed[k].text /\ Intact(cur)
                      /\ (k # 1 => cur.prev = stream[k - 1].hash)
    OBVIOUS
  <2>1. k < head.at /\ k \in 1..(head.at - 1)
    BY <1>2, <1>4
  <2>2. BlockShape(stream[k]) /\ Linked(k)
    BY <1>2, <2>1 DEF LeftInv
  <2>3. cur = [stream[k] EXCEPT !.payload = committed[k].text]
    BY <1>2, <2>1
  <2>4. /\ cur.payload = committed[k].text /\ cur.hash = stream[k].hash
        /\ cur.prev = stream[k].prev /\ cur.ver = stream[k].ver /\ cur.meta = stream[k].meta
        /\ cur.sigs = stream[k].sigs
    BY <2>2, <2>3 DEF BlockShape
  <2>5. cur.hash = Digest(cur.ver, cur.meta, cur.payload, cur.prev)
    BY <2>2, <2>4 DEF Linked
  <2>6. \A s \in Signers : cur.sigs[s] # Unsigned => cur.sigs[s].over = cur.hash
    <3>1. cur.sigs \in [Signers -> {Unsigned} \cup [stamp : Stamps, over : {cur.hash}]]
      BY <2>2, <2>4 DEF BlockShape
    <3> QED BY <3>1
  <2>7. \A v, m, c, p : Digest(v, m, c, p) # NoHash
    BY DEF Digest, NoHash
  <2>8. Intact(cur)
    BY <2>5, <2>6, <2>7 DEF Intact
  <2> QED BY <2>2, <2>4, <2>8 DEF Linked
<1>6. CASE ~Intact(cur)
  <2>1. call' = Answer("verify", 0, FALSE)
    BY <1>1, <1>6
  <2>2. call'.op = "verify" /\ call'.running = FALSE /\ call'.out = FALSE
    BY <2>1 DEF Answer
  <2>3. ~(WholeHead /\ SignaturesWhole)
    BY <1>2, <1>4, <1>5, <1>6
  <2>4. VerifyJudgesHead'
    BY <1>3, <2>2, <2>3 DEF VerifyJudgesHead
  <2>5. LeftAnswers'
    BY <1>3, <1>4, <2>2, <2>4 DEF LeftAnswers, LeftWalkInv, ReadsWhatIsLeft, DeltaNeverServed
  <2> QED BY <1>1, <2>5, LeftKeeps
<1>7. CASE Intact(cur)
  <2>1. WholeHead /\ SignaturesWhole /\ Whole(head.at)
    <3>1. k # head.at => k < head.at
      BY <1>4
    <3> QED BY <1>2, <1>4, <1>7, <3>1
  <2>2. cur.payload = committed[k].text /\ (k # 1 => cur.prev = stream[k - 1].hash)
    <3>1. CASE k = head.at
      BY <1>2, <1>4, <2>1, <3>1 DEF Whole
    <3> QED BY <1>5, <3>1
  <2>3. CASE k = 1
    <3>1. call' = Answer("verify", 0, TRUE)
      BY <1>1, <1>7, <2>3
    <3>2. call'.op = "verify" /\ call'.running = FALSE /\ call'.out = TRUE
      BY <3>1 DEF Answer
    <3>3. VerifyJudgesHead'
      BY <1>3, <2>1, <3>2 DEF VerifyJudgesHead
    <3>4. LeftAnswers'
      BY <1>3, <1>4, <3>2, <3>3 DEF LeftAnswers, LeftWalkInv, ReadsWhatIsLeft, DeltaNeverServed
    <3> QED BY <1>1, <3>4, LeftKeeps
  <2>4. CASE k # 1
    <3>1. /\ k - 1 \in 1..(head.at - 1)
          /\ prev = [stream[k - 1] EXCEPT !.payload = committed[k - 1].text]
          /\ prev.payload # Corrupt /\ prev.hash = stream[k - 1].hash
      BY <1>2, <2>2, <2>4, LeftBack
    <3> HIDE DEF prev
    <3>2. call' = Walk("verify", 0, k - 1, prev)
      BY <1>1, <1>7, <2>2, <2>4, <3>1
    <3>3. /\ call'.op = "verify" /\ call'.running = TRUE
          /\ call'.at = k - 1 /\ call'.cur = prev
      BY <3>2 DEF Walk
    <3>4. k - 1 \in 1..head.at /\ k - 1 # head.at
      BY <1>4, <2>4
    <3>5. LeftWalkInv'
      BY <1>2, <1>3, <2>1, <3>1, <3>3, <3>4 DEF LeftWalkInv
    <3>6. LeftAnswers'
      BY <1>3, <1>4, <3>3, <3>5
         DEF LeftAnswers, ReadsWhatIsLeft, DeltaNeverServed, VerifyJudgesHead
    <3> QED BY <1>1, <3>6, LeftKeeps
  <2> QED BY <2>3, <2>4
<1> QED BY <1>6, <1>7

-------------------------------------------------------------------------------
(* The invariant and what follows from it. *)

\* An empty store meets it.
LEMMA TornInitInv ==
  ASSUME TornInit, FormatVersion = 2
  PROVE  TornInv
<1>1. /\ IInv /\ stream = <<>> /\ head = NoHead /\ cut = FALSE
      /\ call = Answer("open", EmptyText, NoText)
  BY InitInv DEF TornInit, Init
<1>2. call.op = "open" /\ ~call.running
  BY <1>1 DEF Answer
<1> QED BY <1>1, <1>2
        DEF TornInv, UncutInv, ReadsWhatIsLeft, DeltaNeverServed, VerifyJudgesHead

\* Every step keeps it.
LEMMA TornNextInv ==
  ASSUME TornInv, PathBacked \/ PatchesResize, FormatVersion = 2, [TornNext]_tornVars
  PROVE  TornInv'
<1>1. /\ cut \in BOOLEAN /\ (~cut => UncutInv) /\ (cut => LeftInv /\ LeftWalkInv)
      /\ (cut => cut = TRUE)
  BY DEF TornInv
<1>2. CASE ~cut /\ Commit /\ UNCHANGED cut
  <2>1. UncutInv' /\ cut' = FALSE
    BY <1>1, <1>2, UncutCommit
  <2>2. /\ ~call'.running /\ call'.op \notin {"checkout", "verify"}
        /\ (head' # NoHead => ~IsDelta(head'.block))
    BY <2>1 DEF UncutInv
  <2> QED BY <2>1, <2>2 DEF TornInv, ReadsWhatIsLeft, DeltaNeverServed, VerifyJudgesHead
<1>3. ASSUME NEW input \in Inputs, NEW m \in Metas, NEW snapshot \in BOOLEAN,
             CutCommit(input, m, snapshot)
      PROVE  TornInv'
  <2>1. UncutInv
    BY <1>1, <1>3 DEF CutCommit
  <2> QED BY <1>3, <2>1, CutFirstInv, CutNextInv
<1>4. ASSUME NEW S \in SUBSET Signers, NEW st \in Stamps, CutSign(S, st)
      PROVE  TornInv'
  <2>1. UncutInv
    BY <1>1, <1>4 DEF CutSign
  <2> QED BY <1>4, <2>1, CutSignInv
<1>5. ASSUME cut, head = NoHead \/ WholeHead, UNCHANGED cut,
             NEW v \in 0..MaxVersions, Checkout(v)
      PROVE  TornInv'
  BY <1>1, <1>5, LeftCheckout
<1>6. CASE cut /\ Verify /\ UNCHANGED cut
  BY <1>1, <1>6, LeftVerify
<1>7. CASE WalkStep /\ UNCHANGED cut
  <2>1. cut
    BY <1>1, <1>7 DEF UncutInv, WalkStep, CheckoutStep, VerifyStep
  <2> QED BY <1>1, <1>7, <2>1, LeftCheckoutStep, LeftVerifyStep DEF WalkStep
<1>8. CASE UNCHANGED tornVars
  <2>1. /\ UNCHANGED <<store, cache, told>> /\ call' = call /\ cut' = cut
        /\ head' = head /\ stream' = stream /\ eof' = eof /\ committed' = committed
        /\ headCacheSize' = headCacheSize /\ headMetaOnly' = headMetaOnly /\ endorsed' = endorsed
    BY <1>8 DEF tornVars, vars, store, cache, told
  <2>2. CASE ~cut
    <3>1. IInv'
      <4>1. TypeOK' /\ CacheInv' /\ WalkInv' /\ AnswerInv'
        BY <1>1, <2>1, <2>2 DEF UncutInv, IInv, TypeOK, CacheInv, WalkInv, AnswerInv,
             CheckoutAnswers, VerifyAccepts, LogAnswers, MatchesHeadPredicts
      <4>2. ChainInv'
        BY <1>1, <2>1, <2>2 DEF UncutInv, IInv, ChainInv, Linked
      <4> QED BY <4>1, <4>2 DEF IInv
    <3>2. UncutInv'
      BY <1>1, <2>1, <2>2, <3>1 DEF UncutInv
    <3> QED BY <2>1, <2>2, <3>2
            DEF TornInv, ReadsWhatIsLeft, DeltaNeverServed, VerifyJudgesHead
  <2>3. CASE cut
    <3>1. LeftInv' /\ WholeHead' = WholeHead /\ SignaturesWhole' = SignaturesWhole
      BY <1>1, <2>1, <2>3, LeftStays
    <3>2. LeftWalkInv'
      BY <1>1, <2>1, <2>3, <3>1 DEF LeftWalkInv
    <3>3. ReadsWhatIsLeft' /\ DeltaNeverServed'
      BY <2>1 DEF TornInv, ReadsWhatIsLeft, DeltaNeverServed
    <3>4. VerifyJudgesHead'
      BY <2>1, <3>1 DEF TornInv, VerifyJudgesHead
    <3> QED BY <1>1, <2>1, <2>3, <3>1, <3>2, <3>3, <3>4 DEF TornInv
  <2> QED BY <2>2, <2>3
<1> QED BY <1>2, <1>3, <1>4, <1>5, <1>6, <1>7, <1>8 DEF TornNext

\* What is known of a store whose last write was cut short, wherever the cut was.
THEOREM TornInvariant ==
  ASSUME PathBacked \/ PatchesResize, FormatVersion = 2
  PROVE  TornSpec => []TornInv
<1>1. TornInit => TornInv
  BY TornInitInv, FormatVersion = 2
<1>2. TornInv /\ [TornNext]_tornVars => TornInv'
  BY TornNextInv, PathBacked \/ PatchesResize, FormatVersion = 2
<1> QED BY <1>1, <1>2, PTL DEF TornSpec

\* checkout over a whole HEAD gives every version up to it as it was committed.
THEOREM LeftIsRead ==
  ASSUME PathBacked \/ PatchesResize, FormatVersion = 2
  PROVE  TornSpec => []ReadsWhatIsLeft
<1>1. TornInv => ReadsWhatIsLeft
  BY DEF TornInv
<1> QED BY <1>1, TornInvariant, PathBacked \/ PatchesResize, FormatVersion = 2, PTL

\* No delta is taken for HEAD or returned as content, whatever a cut left behind.
THEOREM NoDeltaServed ==
  ASSUME PathBacked \/ PatchesResize, FormatVersion = 2
  PROVE  TornSpec => []DeltaNeverServed
<1>1. TornInv => DeltaNeverServed
  BY DEF TornInv
<1> QED BY <1>1, TornInvariant, PathBacked \/ PatchesResize, FormatVersion = 2, PTL

\* verify accepts what is left exactly when its HEAD and the signatures on it are whole.
THEOREM HeadIsJudged ==
  ASSUME PathBacked \/ PatchesResize, FormatVersion = 2
  PROVE  TornSpec => []VerifyJudgesHead
<1>1. TornInv => VerifyJudgesHead
  BY DEF TornInv
<1> QED BY <1>1, TornInvariant, PathBacked \/ PatchesResize, FormatVersion = 2, PTL
===============================================================================
