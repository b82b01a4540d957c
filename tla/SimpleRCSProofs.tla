---------------------------- MODULE SimpleRCSProofs ----------------------------
(***************************************************************************)
(* What holds of a path-backed v2 store for any contents, signers and      *)
(* number of versions: the invariant IInv, and from it the type invariant  *)
(* and the answers of every reader.                                        *)
(***************************************************************************)
EXTENDS SimpleRCS, Numbers, FiniteSetTheorems, SequenceTheorems, TLAPS

-------------------------------------------------------------------------------
(* Lengths and shapes. *)

\* A block has a length, so the stream always has a size the cache can be keyed
\* on, which -1 never is.
LEMMA BlockLenNat ==
  ASSUME NEW b, BlockShape(b)
  PROVE  BlockLen(b) \in Nat
<1>1. Cardinality({s \in Signers : b.sigs[s] # Unsigned}) \in Nat
  <2>1. IsFiniteSet({s \in Signers : b.sigs[s] # Unsigned})
    BY SignerAssumption, FS_Subset
  <2> QED BY <2>1, FS_CardinalityType
<1>2. IsDelta(b) => DeltaLen(b.payload) \in Nat
  <2>1. SUFFICES ASSUME IsDelta(b) PROVE DeltaLen(b.payload) \in Nat
    OBVIOUS
  <2>2. b.payload.old \in Contents /\ b.payload.new \in Contents
    BY <2>1 DEF IsDelta, BlockShape, Deltas
  <2> QED BY <2>2, FormatAssumption DEF DeltaLen
<1>3. ~IsDelta(b) => ContentLen[b.payload] \in Nat
  BY FormatAssumption DEF IsDelta, BlockShape
<1> QED BY <1>1, <1>2, <1>3 DEF BlockLen

\* A new block is a full one, with its own hash and signatures over it.
LEMMA NewBlockShape ==
  ASSUME FormatVersion = 2, NEW v \in Nat, NEW m \in Metas, NEW c \in Contents,
         NEW prev, NEW S \in SUBSET Signers, NEW st \in Stamps, NEW start \in Nat
  PROVE  LET b == NewBlock(v, m, c, prev, S, st, start) IN
         /\ BlockShape(b)
         /\ ~IsDelta(b)
         /\ b.hash = Digest(v, m, c, prev)
         /\ Stamped(b.sigs) \in [Signers -> Stamps \cup {NoStamp}]
<1> DEFINE b == NewBlock(v, m, c, prev, S, st, start)
           h == Digest(v, m, c, prev)
<1>1. b = [ver |-> v, start |-> start, meta |-> m, form |-> FullForm(c), payload |-> c,
           hash |-> h, prev |-> prev, sigs |-> SignedBy(NoSigs, S, st, h)]
  BY DEF NewBlock
<1>2. SignedBy(NoSigs, S, st, h) \in
        [Signers -> {Unsigned} \cup [stamp : Stamps, over : {h}]]
  BY DEF SignedBy, NoSigs
<1>3. FullForm(c) \in {"text", "binary"}
  BY DEF FullForm
<1>4. c \notin Deltas
  BY DeltaAssumption
<1>5. BlockShape(b)
  BY <1>1, <1>2, <1>3, <1>4 DEF BlockShape, Forms
<1>6. Stamped(b.sigs) \in [Signers -> Stamps \cup {NoStamp}]
  BY <1>1, <1>2 DEF Stamped, Unsigned
<1> QED BY <1>1, <1>3, <1>5, <1>6 DEF IsDelta

\* Demoting keeps everything of a full block but its form and its content, which
\* it keeps or turns into the delta from the new one.
LEMMA DemotedBlock ==
  ASSUME NEW b, BlockShape(b), ~IsDelta(b), NEW c \in Contents, NEW snapshot \in BOOLEAN
  PROVE  LET d == Demoted(b, c, snapshot) IN
         /\ BlockShape(d)
         /\ d.ver = b.ver /\ d.meta = b.meta /\ d.hash = b.hash /\ d.prev = b.prev
         /\ d.sigs = b.sigs /\ d.start = b.start
         /\ IF IsDelta(d) THEN d.payload = ReverseDelta(c, b.payload)
            ELSE d.payload = b.payload
<1>1. b.payload \in Contents
  BY DEF BlockShape, IsDelta
<1>2. ReverseDelta(c, b.payload) \in Deltas
  BY <1>1 DEF ReverseDelta, Deltas
<1>3. CASE Demoted(b, c, snapshot) = b
  BY <1>3
<1>4. CASE Demoted(b, c, snapshot) =
             [b EXCEPT !.form = "delta", !.payload = ReverseDelta(c, b.payload)]
  BY <1>2, <1>4 DEF BlockShape, IsDelta, Forms
<1> QED BY <1>3, <1>4 DEF Demoted

-------------------------------------------------------------------------------
(* The stream as a sequence. *)

\* A sequence of any set is one of the set of its own elements.
LEMMA IsSequenceOf ==
  ASSUME NEW S, NEW s \in Seq(S)
  PROVE  IsSequence(s)
<1>1. s \in [1..Len(s) -> {s[i] : i \in DOMAIN s}] /\ Len(s) \in Nat
  OBVIOUS
<1> QED BY <1>1, SeqDef DEF IsSequence

\* A sequence with its last element replaced by those of t.
Rewritten(s, t) == SubSeq(s, 1, Len(s) - 1) \o t

\* Rewriting the tail leaves everything before the last element in place.
LEMMA RewriteTail ==
  ASSUME NEW s, IsSequence(s), s # <<>>, NEW t, IsSequence(t), t # <<>>
  PROVE  /\ IsSequence(Rewritten(s, t))
         /\ Len(Rewritten(s, t)) = Len(s) - 1 + Len(t)
         /\ \A i \in 1..(Len(s) - 1) : Rewritten(s, t)[i] = s[i]
         /\ \A i \in 1..Len(t) : Rewritten(s, t)[Len(s) - 1 + i] = t[i]
<1> DEFINE U == {s[i] : i \in DOMAIN s} \cup {t[i] : i \in DOMAIN t}
           n == Len(s) - 1
           p == SubSeq(s, 1, n)
           r == p \o t
<1>1. s \in Seq(U) /\ t \in Seq(U)
  BY SeqMonotonic DEF IsSequence
<1>2. Len(s) \in Nat \ {0} /\ Len(t) \in Nat \ {0}
  BY <1>1, EmptySeq
<1>3. p \in Seq(U) /\ Len(p) = n /\ \A i \in 1..n : p[i] = s[i]
  <2>1. \A i \in 1..n : s[i] \in U
    BY <1>1, <1>2
  <2> HIDE DEF U
  <2>2. n \in Nat
    BY <1>2
  <2> HIDE DEF n
  <2>3. /\ p \in Seq(U)
        /\ Len(p) = IF 1 <= n THEN n - 1 + 1 ELSE 0
        /\ \A i \in 1..(n - 1 + 1) : p[i] = s[1 + i - 1]
    BY <2>1, <2>2, SubSeqProperties
  <2>4. n - 1 + 1 = n /\ \A i \in 1..n : 1 + i - 1 = i
    BY <2>2
  <2> HIDE DEF p
  <2> QED BY <2>2, <2>3, <2>4
<1> HIDE DEF U, p, n
<1>4. /\ r \in Seq(U) /\ Len(r) = Len(p) + Len(t)
      /\ \A i \in 1..(Len(p) + Len(t)) : r[i] = IF i <= Len(p) THEN p[i] ELSE t[i - Len(p)]
  BY <1>1, <1>3, ConcatProperties
<1>5. IsSequence(r)
  BY <1>4, IsSequenceOf
<1> HIDE DEF r
<1>6. ASSUME NEW i \in 1..n PROVE r[i] = s[i]
  BY <1>2, <1>3, <1>4 DEF n
<1>7. ASSUME NEW i \in 1..Len(t) PROVE r[n + i] = t[i]
  <2> DEFINE k == n + i
  <2>1. k \in 1..(Len(p) + Len(t)) /\ ~(k <= Len(p)) /\ k - Len(p) = i
    BY <1>2, <1>3 DEF n
  <2> HIDE DEF k
  <2>2. r[k] = t[k - Len(p)]
    BY <1>4, <2>1
  <2>3. r[k] = t[i]
    BY <2>1, <2>2
  <2> QED BY <2>3 DEF k
<1> QED BY <1>2, <1>3, <1>4, <1>5, <1>6, <1>7 DEF n, p, r, Rewritten

\* sign_head's rewrite: the last element alone changes.
LEMMA LastReplaced ==
  ASSUME NEW s, IsSequence(s), s # <<>>, NEW new
  PROVE  LET n == Len(s)
             r == Rewritten(s, <<new>>)
         IN  /\ IsSequence(r) /\ Len(r) = n /\ DOMAIN r = 1..n
             /\ \A i \in 1..(n - 1) : r[i] = s[i]
             /\ r[n] = new
<1> DEFINE n == Len(s)
           t == <<new>>
           r == Rewritten(s, t)
<1>1. t \in Seq({new}) /\ t # <<>> /\ Len(t) = 1 /\ t[1] = new
  OBVIOUS
<1>0. IsSequence(t) /\ n \in Nat
  BY <1>1, IsSequenceOf DEF IsSequence
<1> HIDE DEF t
<1>2. /\ IsSequence(r) /\ Len(r) = n - 1 + Len(t)
      /\ \A i \in 1..(n - 1) : r[i] = s[i]
      /\ \A i \in 1..Len(t) : r[n - 1 + i] = t[i]
  <2>1. IsSequence(t) /\ t # <<>>
    BY <1>0, <1>1
  <2>2. IsSequence(Rewritten(s, t))
    BY <2>1, RewriteTail
  <2>3. Len(Rewritten(s, t)) = Len(s) - 1 + Len(t)
    BY <2>1, RewriteTail
  <2>4. \A i \in 1..(Len(s) - 1) : Rewritten(s, t)[i] = s[i]
    BY <2>1, RewriteTail
  <2>5. \A i \in 1..Len(t) : Rewritten(s, t)[Len(s) - 1 + i] = t[i]
    BY <2>1, RewriteTail
  <2> QED BY <2>2, <2>3, <2>4, <2>5
<1> HIDE DEF r, n
<1>3. Len(r) = n /\ r[n - 1 + 1] = new /\ n - 1 + 1 = n
  BY <1>0, <1>1, <1>2
<1>4. DOMAIN r = 1..Len(r)
  BY <1>2 DEF IsSequence
<1> QED BY <1>2, <1>3, <1>4 DEF r, n, t

\* commit's rewrite: the last element is demoted and one is added.
LEMMA LastReplacedByTwo ==
  ASSUME NEW s, IsSequence(s), s # <<>>, NEW old, NEW new
  PROVE  LET n == Len(s)
             r == Rewritten(s, <<old, new>>)
         IN  /\ IsSequence(r) /\ Len(r) = n + 1 /\ DOMAIN r = 1..(n + 1)
             /\ \A i \in 1..(n - 1) : r[i] = s[i]
             /\ r[n] = old /\ r[n + 1] = new
<1> DEFINE n == Len(s)
           t == <<old, new>>
           r == Rewritten(s, t)
<1>1. /\ t \in Seq({old, new}) /\ t # <<>> /\ Len(t) = 2
      /\ t[1] = old /\ t[2] = new
  OBVIOUS
<1>0. IsSequence(t) /\ n \in Nat
  BY <1>1, IsSequenceOf DEF IsSequence
<1> HIDE DEF t
<1>2. /\ IsSequence(r) /\ Len(r) = n - 1 + Len(t)
      /\ \A i \in 1..(n - 1) : r[i] = s[i]
      /\ \A i \in 1..Len(t) : r[n - 1 + i] = t[i]
  <2>1. IsSequence(t) /\ t # <<>>
    BY <1>0, <1>1
  <2>2. IsSequence(Rewritten(s, t))
    BY <2>1, RewriteTail
  <2>3. Len(Rewritten(s, t)) = Len(s) - 1 + Len(t)
    BY <2>1, RewriteTail
  <2>4. \A i \in 1..(Len(s) - 1) : Rewritten(s, t)[i] = s[i]
    BY <2>1, RewriteTail
  <2>5. \A i \in 1..Len(t) : Rewritten(s, t)[Len(s) - 1 + i] = t[i]
    BY <2>1, RewriteTail
  <2> QED BY <2>2, <2>3, <2>4, <2>5
<1> HIDE DEF r, n
<1>3. Len(r) = n + 1 /\ r[n - 1 + 1] = old /\ r[n - 1 + 2] = new
  BY <1>0, <1>1, <1>2
<1>4. n - 1 + 1 = n /\ n - 1 + 2 = n + 1
  BY <1>0
<1>5. DOMAIN r = 1..Len(r)
  BY <1>2 DEF IsSequence
<1> QED BY <1>2, <1>3, <1>4, <1>5 DEF r, n, t

-------------------------------------------------------------------------------
(* Locating HEAD. *)

\* While the last block is a full one, the backward scan finds it.
LEMMA ScannedLast ==
  ASSUME NEW s, IsSequence(s), s # <<>>, ~IsDelta(s[Len(s)]), NEW m
  PROVE  Scanned(s, m) = [at |-> Len(s), block |-> IF m THEN MetaOnly(s[Len(s)])
                                                   ELSE s[Len(s)]]
<1>1. Len(s) \in DOMAIN s /\ DOMAIN s = 1..Len(s) /\ Len(s) \in Nat
  BY DEF IsSequence
<1>2. HeadAt(s) = Len(s)
  BY <1>1 DEF HeadAt
<1> QED BY <1>1, <1>2 DEF Scanned

\* A store without blocks has no HEAD.
LEMMA ScannedEmpty == \A m : Scanned(<<>>, m) = NoHead
BY DEF Scanned

\* With the invariant, loading HEAD finds the last block, with its text whenever
\* the caller asks for it, or no HEAD exactly when nothing was committed.
LEMMA LoadedHead ==
  ASSUME TypeOK, ChainInv, CacheInv, NEW m \in BOOLEAN
  PROVE  LET n == Len(stream) IN
         /\ stream = <<>> => Loaded(m) = NoHead
         /\ stream # <<>> =>
              /\ Loaded(m) # NoHead
              /\ n \in DOMAIN stream /\ ~IsDelta(stream[n])
              /\ stream[n].payload = committed[n].text
              /\ Loaded(m).at = n
              /\ Loaded(m).block \in {stream[n], MetaOnly(stream[n])}
              /\ ~m => Loaded(m) = [at |-> n, block |-> stream[n]]
<1> DEFINE n == Len(stream)
<1>1. CASE stream = <<>>
  <2>1. head = NoHead \/ ~CacheHit(m)
    BY <1>1 DEF CacheInv, TypeOK, CacheHit
  <2> QED BY <1>1, <2>1, ScannedEmpty DEF Loaded, CacheHit
<1>2. CASE stream # <<>>
  <2>1. n \in DOMAIN stream /\ n \in Nat \ {0}
    BY <1>2 DEF TypeOK, IsSequence
  <2>2. ~IsDelta(stream[n]) /\ stream[n].payload = committed[n].text
    BY <2>1 DEF ChainInv, Linked
  <2>3. Scanned(stream, m) = [at |-> n, block |-> IF m THEN MetaOnly(stream[n])
                                                  ELSE stream[n]]
    BY <1>2, <2>2, ScannedLast DEF TypeOK
  <2>4. CASE CacheHit(m)
    <3>1. head # NoHead /\ headCacheSize = eof /\ (m \/ ~headMetaOnly)
      BY <2>4 DEF CacheHit
    <3>2. head.at = n /\ head.block = IF headMetaOnly THEN MetaOnly(stream[n])
                                      ELSE stream[n]
      BY <3>1 DEF CacheInv
    <3>3. head = [at |-> head.at, block |-> head.block]
      BY <3>1 DEF TypeOK
    <3> QED BY <2>1, <2>2, <2>4, <3>1, <3>2, <3>3 DEF Loaded
  <2>5. CASE ~CacheHit(m)
    BY <2>1, <2>2, <2>3, <2>5 DEF Loaded, NoHead
  <2> QED BY <1>2, <2>4, <2>5
<1> QED BY <1>1, <1>2

\* The types of the cache, and of a call.
CacheType ==
  /\ head # NoHead => head \in [at : DOMAIN stream, block : {head.block}]
  /\ headCacheSize \in Nat \cup {-1}
  /\ headMetaOnly \in BOOLEAN

CallType ==
  call \in [op : Ops, running : BOOLEAN, target : {call.target}, at : Nat,
            cur : {call.cur}, out : {call.out}]

\* A reader that loads HEAD leaves the cache in order.
LEMMA LoadHeadInv ==
  ASSUME TypeOK, ChainInv, CacheInv, NEW m \in BOOLEAN, LoadHead(m), UNCHANGED store
  PROVE  CacheInv' /\ CacheType'
<1> DEFINE n == Len(stream)
<1>0. stream' = stream /\ eof' = eof
  BY DEF store
<1>1. head' = Loaded(m) /\ headCacheSize' = eof
  BY DEF LoadHead
<1>2. headMetaOnly' = IF CacheHit(m) \/ Loaded(m) = NoHead THEN headMetaOnly ELSE m
  BY DEF LoadHead
<1>3. headMetaOnly' \in BOOLEAN /\ headCacheSize' \in Nat \cup {-1}
  BY <1>1, <1>2 DEF TypeOK
<1>4. CASE stream = <<>>
  BY <1>0, <1>1, <1>3, <1>4, LoadedHead DEF CacheInv, CacheType
<1>5. CASE stream # <<>>
  <2>1. /\ Loaded(m) # NoHead /\ n \in DOMAIN stream /\ ~IsDelta(stream[n])
        /\ Loaded(m).at = n
    BY <1>5, LoadedHead
  <2>2. CASE CacheHit(m)
    BY <1>0, <1>1, <1>2, <1>3, <1>5, <2>1, <2>2
       DEF CacheHit, Loaded, CacheInv, CacheType, TypeOK
  <2>3. CASE ~CacheHit(m)
    <3>1. head' = [at |-> n, block |-> IF m THEN MetaOnly(stream[n]) ELSE stream[n]]
      BY <1>1, <1>5, <2>1, <2>3, ScannedLast DEF Loaded, TypeOK
    <3>2. headMetaOnly' = m
      BY <1>2, <2>1, <2>3
    <3> QED BY <1>0, <1>3, <1>5, <2>1, <3>1, <3>2 DEF CacheInv, CacheType
  <2> QED BY <2>2, <2>3
<1> QED BY <1>4, <1>5

-------------------------------------------------------------------------------
(* Commits and signatures. *)

\* A call that only reads keeps what it does not write.
LEMMA StoreKept ==
  ASSUME TypeOK, ChainInv, UNCHANGED <<store, told>>, CacheType', CallType'
  PROVE  TypeOK' /\ ChainInv'
<1>1. stream' = stream /\ eof' = eof /\ committed' = committed /\ endorsed' = endorsed
  BY DEF store, told
<1>2. TypeOK'
  BY <1>1 DEF TypeOK, CacheType, CallType
<1>3. ChainInv'
  BY <1>1 DEF ChainInv, Linked
<1> QED BY <1>2, <1>3

\* The answers of the calls that change the store, or open it, claim nothing.
LEMMA QuietAnswer ==
  ASSUME NEW op \in {"open", "commit", "sign_head"}, NEW target, NEW out,
         call' = Answer(op, target, out)
  PROVE  CallType' /\ WalkInv' /\ AnswerInv'
<1>1. /\ call'.op = op /\ call'.running = FALSE
      /\ op \notin {"checkout", "verify", "log", "matches_head"}
  BY DEF Answer
<1>2. CallType'
  BY DEF CallType, Answer, Ops
<1>3. WalkInv' /\ AnswerInv'
  BY <1>1 DEF WalkInv, AnswerInv, CheckoutAnswers, VerifyAccepts, LogAnswers,
             MatchesHeadPredicts
<1> QED BY <1>2, <1>3

\* The first commit starts the chain: version 0, linked to nothing.
LEMMA FirstCommitInv ==
  ASSUME IInv, FormatVersion = 2, NEW input \in Inputs, NEW m \in Metas,
         NEW S \in SUBSET Signers, NEW st \in Stamps, FirstCommit(input, m, S, st)
  PROVE  IInv'
<1> DEFINE c == WithNewline[input]
           new == NewBlock(0, m, c, NoHash, S, st, eof)
           version == [text |-> c, meta |-> m]
<1>1. stream = <<>> /\ Loaded(FALSE) = NoHead
  BY LoadedHead DEF IInv, FirstCommit
<1>2. committed = <<>> /\ endorsed = <<>>
  BY <1>1, EmptySeq DEF IInv, ChainInv, TypeOK
<1>3. /\ stream' = <<new>> /\ eof' = eof + BlockLen(new)
      /\ committed' = <<version>> /\ endorsed' = <<Stamped(new.sigs)>>
      /\ head' = NoHead /\ headCacheSize' = eof /\ headMetaOnly' = headMetaOnly
      /\ call' = Answer("commit", input, new.ver)
  <2>1. /\ stream' = Append(stream, new) /\ eof' = eof + BlockLen(new)
        /\ LoadHead(FALSE)
        /\ call' = Answer("commit", input, new.ver)
        /\ committed' = Append(committed, version)
        /\ endorsed' = Append(endorsed, Stamped(new.sigs))
    BY DEF FirstCommit
  <2>2. /\ head' = NoHead /\ headCacheSize' = eof /\ headMetaOnly' = headMetaOnly
    BY <1>1, <2>1 DEF LoadHead
  <2> HIDE DEF new, version
  <2> QED BY <1>1, <1>2, <2>1, <2>2
<1>4. c \in Contents /\ eof \in Nat
  BY StoreAssumption DEF IInv, TypeOK
<1>5. /\ BlockShape(new) /\ ~IsDelta(new) /\ new.hash = Digest(0, m, c, NoHash)
      /\ Stamped(new.sigs) \in [Signers -> Stamps \cup {NoStamp}]
  BY <1>4, NewBlockShape
<1>6. new.ver = 0 /\ new.meta = m /\ new.prev = NoHash /\ new.payload = c
  BY DEF NewBlock
<1> HIDE DEF new
<1>7. CallType' /\ WalkInv' /\ AnswerInv'
  BY <1>3, QuietAnswer
<1>8. TypeOK'
  <2>1. IsSequence(stream')
    <3>1. stream' \in Seq({new})
      BY <1>3
    <3> QED BY <3>1, IsSequenceOf
  <2>2. eof' \in Nat
    BY <1>3, <1>4, <1>5, BlockLenNat
  <2>3. committed' \in Seq([text : Contents, meta : Metas])
    BY <1>3, <1>4
  <2>4. endorsed' \in Seq([Signers -> Stamps \cup {NoStamp}])
    BY <1>3, <1>5
  <2>5. \A i \in DOMAIN stream' : BlockShape(stream'[i])
    BY <1>3, <1>5
  <2>6. CacheType'
    BY <1>3, <1>4 DEF CacheType, IInv, TypeOK
  <2> QED BY <1>7, <2>1, <2>2, <2>3, <2>4, <2>5, <2>6 DEF TypeOK, CacheType, CallType
<1>9. ChainInv'
  <2>1. DOMAIN stream' = {1} /\ Len(committed') = Len(stream')
        /\ Len(endorsed') = Len(stream')
    BY <1>3
  <2>2. Linked(1)'
    BY <1>3, <1>5, <1>6 DEF Linked
  <2> QED BY <2>1, <2>2 DEF ChainInv
<1>10. CacheInv'
  BY <1>3 DEF CacheInv
<1> QED BY <1>7, <1>8, <1>9, <1>10 DEF IInv

\* What a commit on top of version n does, with the demoted block and the new one.
CommitStep(input, m, c, old, new) ==
  LET n == Len(stream) IN
  /\ n \in Nat \ {0} /\ n \in DOMAIN stream
  /\ stream' = SubSeq(stream, 1, n - 1) \o <<old, new>>
  /\ BlockShape(old) /\ BlockShape(new)
  /\ old.ver = n - 1 /\ old.meta = stream[n].meta /\ old.hash = stream[n].hash
  /\ old.prev = stream[n].prev /\ old.sigs = stream[n].sigs
  /\ \E snapshot \in BOOLEAN : old = Demoted(stream[n], c, snapshot)
  /\ IF IsDelta(old) THEN old.payload = ReverseDelta(c, committed[n].text)
     ELSE old.payload = committed[n].text
  /\ new.ver = n /\ new.meta = m /\ new.prev = stream[n].hash
  /\ new.payload = c /\ ~IsDelta(new) /\ c \in Contents
  /\ new.hash = Digest(n, m, c, stream[n].hash)
  /\ Stamped(new.sigs) \in [Signers -> Stamps \cup {NoStamp}]
  /\ new.start = stream[n].start + BlockLen(old) /\ new.form = FullForm(c)
  /\ eof' = new.start + BlockLen(new) /\ eof' \in Nat
  /\ head' = [at |-> n, block |-> stream[n]]
  /\ headCacheSize' = KeyAfterRewrite /\ headMetaOnly' = FALSE
  /\ call' = Answer("commit", input, n)
  /\ committed' = Append(committed, [text |-> c, meta |-> m])
  /\ endorsed' = Append(endorsed, Stamped(new.sigs))

\* A commit on a HEAD demotes the newest version and appends one linked to it.
LEMMA NextCommitStep ==
  ASSUME IInv, FormatVersion = 2, NEW input \in Inputs, NEW m \in Metas,
         NEW snapshot \in BOOLEAN, NEW S \in SUBSET Signers, NEW st \in Stamps,
         NextCommit(input, m, snapshot, S, st)
  PROVE  \E old, new : CommitStep(input, m, WithNewline[input], old, new)
<1> DEFINE n == Len(stream)
           c == WithNewline[input]
           h == [at |-> n, block |-> stream[n]]
           old == Demoted(stream[n], c, snapshot)
           end == stream[n].start + BlockLen(old)
           new == NewBlock(n, m, c, stream[n].hash, S, st, end)
<1>1. Loaded(FALSE) # NoHead
  BY DEF NextCommit
<1>2. stream # <<>>
  BY <1>1, LoadedHead DEF IInv
<1>3. /\ n \in DOMAIN stream /\ ~IsDelta(stream[n])
      /\ stream[n].payload = committed[n].text
      /\ Loaded(FALSE) = h
  BY <1>2, LoadedHead DEF IInv
<1>4. n \in Nat \ {0}
  BY <1>3 DEF IInv, TypeOK, IsSequence
<1>5. BlockShape(stream[n])
  BY <1>3 DEF IInv, TypeOK
<1>6. stream[n].ver = n - 1 /\ stream[n].hash # NoHash
  <2>1. Linked(n)
    BY <1>3 DEF IInv, ChainInv
  <2>2. stream[n].ver = n - 1
        /\ stream[n].hash = Digest(stream[n].ver, stream[n].meta, committed[n].text, stream[n].prev)
    BY <2>1 DEF Linked
  <2> HIDE DEF n
  <2> QED BY <2>2 DEF Digest, NoHash
<1>7. LinkTo(stream[n]) = stream[n].hash
  BY <1>6, FormatVersion = 2 DEF LinkTo
<1>8. c \in Contents
  BY StoreAssumption
<1>9. /\ BlockShape(old)
      /\ old.ver = n - 1 /\ old.meta = stream[n].meta /\ old.hash = stream[n].hash
      /\ old.prev = stream[n].prev /\ old.sigs = stream[n].sigs
      /\ IF IsDelta(old) THEN old.payload = ReverseDelta(c, committed[n].text)
         ELSE old.payload = committed[n].text
  BY <1>3, <1>5, <1>6, <1>8, DemotedBlock
<1> HIDE DEF old
<1>10. end \in Nat
  <2>1. stream[n].start \in Nat
    BY <1>5 DEF BlockShape
  <2>2. BlockLen(old) \in Nat
    BY <1>9, BlockLenNat
  <2> QED BY <2>1, <2>2
<1> HIDE DEF end, c
<1>11. /\ BlockShape(new) /\ ~IsDelta(new) /\ new.hash = Digest(n, m, c, stream[n].hash)
       /\ Stamped(new.sigs) \in [Signers -> Stamps \cup {NoStamp}]
  BY <1>4, <1>8, <1>10, NewBlockShape
<1>12. /\ new.ver = n /\ new.meta = m /\ new.prev = stream[n].hash /\ new.payload = c
       /\ new.start = end /\ new.form = FullForm(c)
  BY FormatVersion = 2 DEF NewBlock
<1>13. NewBlock(stream[n].ver + 1, m, c, LinkTo(stream[n]), S, st, end) = new
  <2>1. stream[n].ver + 1 = n
    BY <1>4, <1>6
  <2> QED BY <1>7, <2>1
<1> HIDE DEF n, new
<1>14. /\ stream' = SubSeq(stream, 1, n - 1) \o <<old, new>>
       /\ eof' = end + BlockLen(new)
       /\ head' = h /\ headCacheSize' = KeyAfterRewrite /\ headMetaOnly' = FALSE
       /\ call' = Answer("commit", input, new.ver)
       /\ committed' = Append(committed, [text |-> c, meta |-> m])
       /\ endorsed' = Append(endorsed, Stamped(new.sigs))
  <2> DEFINE L == Loaded(FALSE)
             o == Demoted(L.block, c, snapshot)
             e == L.block.start + BlockLen(o)
             w == NewBlock(L.block.ver + 1, m, c, LinkTo(L.block), S, st, e)
  <2>1. /\ stream' = SubSeq(stream, 1, L.at - 1) \o <<o, w>>
        /\ eof' = e + BlockLen(w)
        /\ head' = L /\ headCacheSize' = KeyAfterRewrite /\ headMetaOnly' = FALSE
        /\ call' = Answer("commit", input, w.ver)
        /\ committed' = Append(committed, [text |-> c, meta |-> m])
        /\ endorsed' = Append(endorsed, Stamped(w.sigs))
    BY DEF NextCommit, c
  <2>2. L = h /\ L.at = n /\ L.block = stream[n]
    <3>1. L = h
      BY <1>3
    <3> HIDE DEF L
    <3> QED BY <3>1
  <2> HIDE DEF L
  <2>3. o = old
    BY <2>2 DEF old
  <2> HIDE DEF o
  <2>4. e = end
    BY <2>2, <2>3 DEF end
  <2> HIDE DEF e
  <2>5. w = new
    BY <1>13, <2>2, <2>4
  <2> HIDE DEF w, h
  <2> QED BY <2>1, <2>2, <2>3, <2>4, <2>5
<1>15. eof' \in Nat
  <2>1. BlockLen(new) \in Nat
    BY <1>11, BlockLenNat
  <2> QED BY <1>10, <1>14, <2>1
<1>16. CommitStep(input, m, c, old, new)
  BY <1>3, <1>4, <1>8, <1>9, <1>11, <1>12, <1>14, <1>15 DEF CommitStep, n, end, old
<1> QED BY <1>16 DEF c

\* Such a commit keeps the chain, whatever content, snapshot or signers, if the key
\* it leaves in the cache is not the size of the new stream.
LEMMA NextCommitInv ==
  ASSUME IInv, PathBacked \/ eof' # eof, FormatVersion = 2, NEW input \in Inputs, NEW m \in Metas,
         NEW snapshot \in BOOLEAN, NEW S \in SUBSET Signers, NEW st \in Stamps,
         NextCommit(input, m, snapshot, S, st)
  PROVE  IInv'
<1> DEFINE n == Len(stream)
           c == WithNewline[input]
           version == [text |-> c, meta |-> m]
<1>0. PICK old, new : CommitStep(input, m, WithNewline[input], old, new)
  BY NextCommitStep
<1> HIDE DEF c
<1>1. CommitStep(input, m, c, old, new) /\ n \in Nat \ {0}
  BY <1>0 DEF c, CommitStep
<1>2. IsSequence(stream) /\ stream # <<>> /\ DOMAIN stream = 1..n
  BY <1>1 DEF IInv, TypeOK, IsSequence
<1>3. /\ IsSequence(stream') /\ Len(stream') = n + 1 /\ DOMAIN stream' = 1..(n + 1)
      /\ \A i \in 1..(n - 1) : stream'[i] = stream[i]
      /\ stream'[n] = old /\ stream'[n + 1] = new
  <2> DEFINE r == Rewritten(stream, <<old, new>>)
  <2>1. stream' = r
    BY <1>1 DEF CommitStep, Rewritten
  <2>2. IsSequence(r) /\ Len(r) = n + 1 /\ DOMAIN r = 1..(n + 1)
    BY <1>2, LastReplacedByTwo
  <2>3. \A i \in 1..(n - 1) : r[i] = stream[i]
    BY <1>2, LastReplacedByTwo
  <2>4. r[n] = old /\ r[n + 1] = new
    BY <1>2, LastReplacedByTwo
  <2> HIDE DEF r
  <2> QED BY <2>1, <2>2, <2>3, <2>4
<1>4. /\ Len(committed) = n /\ Len(endorsed) = n
      /\ committed \in Seq([text : Contents, meta : Metas])
      /\ endorsed \in Seq([Signers -> Stamps \cup {NoStamp}])
  BY DEF IInv, TypeOK, ChainInv
<1> HIDE DEF n
<1>5. version \in [text : Contents, meta : Metas]
  BY <1>1 DEF CommitStep
<1>6. /\ committed' \in Seq([text : Contents, meta : Metas])
      /\ Len(committed') = n + 1 /\ committed'[n + 1] = version
      /\ \A i \in 1..n : committed'[i] = committed[i]
  <2> QED BY <1>1, <1>4, <1>5 DEF CommitStep, version
<1>7. /\ endorsed' \in Seq([Signers -> Stamps \cup {NoStamp}])
      /\ Len(endorsed') = n + 1 /\ endorsed'[n + 1] = Stamped(new.sigs)
      /\ \A i \in 1..n : endorsed'[i] = endorsed[i]
  BY <1>1, <1>4 DEF CommitStep
<1>8. CallType' /\ WalkInv' /\ AnswerInv'
  BY <1>1, QuietAnswer DEF CommitStep
<1>9. TypeOK'
  <2>1. ASSUME NEW i \in DOMAIN stream' PROVE BlockShape(stream'[i])
    <3>1. i \in 1..(n - 1) \/ i = n \/ i = n + 1
      BY <1>1, <1>3
    <3>2. i \in 1..(n - 1) => stream'[i] = stream[i] /\ i \in DOMAIN stream
      BY <1>1, <1>2, <1>3
    <3> QED BY <1>1, <1>3, <3>1, <3>2 DEF IInv, TypeOK, CommitStep
  <2>2. CacheType' /\ eof' \in Nat
    <3>1. n \in DOMAIN stream' /\ head' = [at |-> n, block |-> stream[n]]
      BY <1>1, <1>3 DEF CommitStep, n
    <3>2. headCacheSize' \in Nat \cup {-1} /\ headMetaOnly' = FALSE /\ eof' \in Nat
      BY <1>1 DEF CommitStep, KeyAfterRewrite, IInv, TypeOK
    <3> QED BY <3>1, <3>2 DEF CacheType
  <2> QED BY <1>3, <1>6, <1>7, <1>8, <2>1, <2>2 DEF TypeOK, CacheType, CallType
<1>10. ChainInv'
  <2>1. ASSUME NEW i \in 1..(n - 1) PROVE Linked(i)'
    <3>1. Linked(i)
      BY <1>1, <1>2 DEF IInv, ChainInv
    <3>2. i + 1 \in 1..n /\ i \in 1..n /\ i < n /\ i < n + 1
      BY <1>1
    <3>3. stream'[i] = stream[i] /\ (i # 1 => stream'[i - 1] = stream[i - 1])
      <4>1. i # 1 => i - 1 \in 1..(n - 1)
        BY <1>1
      <4> QED BY <1>3, <4>1
    <3>4. committed'[i] = committed[i] /\ committed'[i + 1] = committed[i + 1]
          /\ endorsed'[i] = endorsed[i]
      BY <1>6, <1>7, <3>2
    <3> QED BY <1>3, <3>1, <3>2, <3>3, <3>4 DEF Linked
  <2>2. ASSUME NEW i, i = n PROVE Linked(i)'
    <3>1. Linked(n)
      BY <1>1, <1>2 DEF IInv, ChainInv
    <3>2. n # 1 => stream'[n - 1] = stream[n - 1]
      <4>1. n # 1 => n - 1 \in 1..(n - 1)
        BY <1>1
      <4> QED BY <1>3, <4>1
    <3>3. committed'[n] = committed[n] /\ endorsed'[n] = endorsed[n]
      BY <1>1, <1>6, <1>7
    <3>4. committed'[n + 1].text = c
      BY <1>6
    <3>5. n < n + 1
      BY <1>1
    <3>6. /\ stream'[n].ver = n - 1 /\ stream'[n].meta = stream[n].meta
          /\ stream'[n].hash = stream[n].hash /\ stream'[n].prev = stream[n].prev
          /\ stream'[n].sigs = stream[n].sigs
          /\ IF IsDelta(stream'[n]) THEN stream'[n].payload = ReverseDelta(c, committed[n].text)
             ELSE stream'[n].payload = committed[n].text
      BY <1>1, <1>3 DEF CommitStep, n
    <3>7. /\ stream[n].ver = n - 1 /\ stream[n].meta = committed[n].meta
          /\ stream[n].prev = IF n = 1 THEN NoHash ELSE stream[n - 1].hash
          /\ stream[n].hash = Digest(stream[n].ver, stream[n].meta, committed[n].text,
                                     stream[n].prev)
          /\ Stamped(stream[n].sigs) = endorsed[n]
      BY <3>1 DEF Linked
    <3>8. /\ stream'[n].ver = n - 1 /\ stream'[n].meta = committed'[n].meta
          /\ Stamped(stream'[n].sigs) = endorsed'[n]
      BY <3>3, <3>6, <3>7
    <3>9. stream'[n].prev = IF n = 1 THEN NoHash ELSE stream'[n - 1].hash
      BY <3>2, <3>6, <3>7
    <3>10. stream'[n].hash = Digest(stream'[n].ver, stream'[n].meta, committed'[n].text,
                                    stream'[n].prev)
      BY <3>3, <3>6, <3>7
    <3>11. IF IsDelta(stream'[n])
           THEN /\ n < Len(stream')
                /\ stream'[n].payload = ReverseDelta(committed'[n + 1].text, committed'[n].text)
           ELSE stream'[n].payload = committed'[n].text
      BY <1>3, <3>3, <3>4, <3>5, <3>6
    <3> QED BY <2>2, <3>8, <3>9, <3>10, <3>11 DEF Linked
  <2>3. ASSUME NEW i, i = n + 1 PROVE Linked(i)'
    <3>1. i # 1 /\ i - 1 = n
      BY <1>1, <2>3
    <3>2. stream'[i] = new /\ stream'[i - 1] = old
      BY <1>3, <2>3, <3>1
    <3>3. /\ new.ver = n /\ new.meta = m /\ new.prev = old.hash
          /\ new.payload = c /\ ~IsDelta(new)
          /\ new.hash = Digest(n, m, c, new.prev)
      BY <1>1 DEF CommitStep, n
    <3>4. committed'[i].text = c /\ committed'[i].meta = m
          /\ endorsed'[i] = Stamped(new.sigs)
      BY <1>6, <1>7, <2>3
    <3>5. /\ new.ver = i - 1 /\ new.meta = committed'[i].meta
          /\ new.prev = IF i = 1 THEN NoHash ELSE stream'[i - 1].hash
      BY <3>1, <3>2, <3>3, <3>4
    <3>6. new.hash = Digest(new.ver, new.meta, committed'[i].text, new.prev)
      BY <3>3, <3>4
    <3> QED BY <3>2, <3>3, <3>4, <3>5, <3>6 DEF Linked
  <2>4. ASSUME NEW i \in DOMAIN stream' PROVE Linked(i)'
    <3>1. i \in 1..(n - 1) \/ i = n \/ i = n + 1
      BY <1>1, <1>3
    <3> QED BY <2>1, <2>2, <2>3, <3>1
  <2> QED BY <1>3, <1>6, <1>7, <2>4 DEF ChainInv
<1>11. CacheInv'
  <2>1. headCacheSize' = KeyAfterRewrite /\ eof' \in Nat
    BY <1>1 DEF CommitStep
  <2>2. headCacheSize' # eof'
    BY <2>1 DEF KeyAfterRewrite
  <2> QED BY <2>2 DEF CacheInv
<1> QED BY <1>8, <1>9, <1>10, <1>11 DEF IInv

\* Signing keeps everything of a block but its signatures, and the signatures of
\* everyone who does not sign now.
LEMMA SignedBlock ==
  ASSUME NEW b, BlockShape(b), NEW S \in SUBSET Signers, NEW st \in Stamps
  PROVE  LET d == [b EXCEPT !.sigs = SignedBy(b.sigs, S, st, b.hash)] IN
         /\ BlockShape(d)
         /\ d.ver = b.ver /\ d.meta = b.meta /\ d.hash = b.hash /\ d.prev = b.prev
         /\ d.form = b.form /\ d.payload = b.payload
         /\ Stamped(d.sigs) \in [Signers -> Stamps \cup {NoStamp}]
         /\ Stamped(d.sigs) = [s \in Signers |-> IF s \in S THEN st ELSE Stamped(b.sigs)[s]]
<1> DEFINE sigs == SignedBy(b.sigs, S, st, b.hash)
           d == [b EXCEPT !.sigs = sigs]
<1>1. b.sigs \in [Signers -> {Unsigned} \cup [stamp : Stamps, over : {b.hash}]]
  BY DEF BlockShape
<1>2. sigs \in [Signers -> {Unsigned} \cup [stamp : Stamps, over : {b.hash}]]
  BY <1>1 DEF SignedBy
<1>3. \A s \in Signers : sigs[s] = IF s \in S THEN [stamp |-> st, over |-> b.hash] ELSE b.sigs[s]
  BY DEF SignedBy
<1> HIDE DEF sigs
<1>4. /\ d.ver = b.ver /\ d.meta = b.meta /\ d.hash = b.hash /\ d.prev = b.prev
      /\ d.form = b.form /\ d.payload = b.payload /\ d.sigs = sigs
  BY DEF BlockShape
<1>5. BlockShape(d)
  BY <1>2 DEF BlockShape
<1>6. Stamped(sigs) \in [Signers -> Stamps \cup {NoStamp}]
  BY <1>2 DEF Stamped, Unsigned
<1>7. Stamped(sigs) = [s \in Signers |-> IF s \in S THEN st ELSE Stamped(b.sigs)[s]]
  BY <1>3 DEF Stamped
<1> QED BY <1>4, <1>5, <1>6, <1>7 DEF sigs

\* What sign_head does to the last block, with the block it writes.
SignStep(S, st, b) ==
  LET n == Len(stream) IN
  /\ stream' = SubSeq(stream, 1, n - 1) \o <<b>>
  /\ eof' = stream[n].start + BlockLen(b)
  /\ head' = Scanned(stream', FALSE)
  /\ headCacheSize' = eof' /\ headMetaOnly' = FALSE
  /\ call' = Answer("sign_head", S, TRUE)
  /\ endorsed' = [endorsed EXCEPT ![n] = [s \in Signers |-> IF s \in S THEN st ELSE @[s]]]
  /\ committed' = committed

\* Signing HEAD changes its signatures only, and none of another signer.
LEMMA SignHeadInv ==
  ASSUME IInv, PathBacked, NEW S \in SUBSET Signers, NEW st \in Stamps, SignHead(S, st)
  PROVE  IInv'
<1> DEFINE n == Len(stream)
           h == [at |-> n, block |-> stream[n]]
           b == [stream[n] EXCEPT !.sigs = SignedBy(stream[n].sigs, S, st, stream[n].hash)]
<1>1. stream # <<>> /\ Loaded(FALSE) = h /\ n \in DOMAIN stream /\ ~IsDelta(stream[n])
  <2>1. Loaded(FALSE) # NoHead
    BY DEF SignHead
  <2> QED BY <2>1, LoadedHead DEF IInv
<1>2. /\ n \in Nat \ {0} /\ IsSequence(stream) /\ DOMAIN stream = 1..n
      /\ BlockShape(stream[n])
  BY <1>1 DEF IInv, TypeOK, IsSequence
<1>3. Len(committed) = n /\ Len(endorsed) = n
  BY DEF IInv, ChainInv
<1>4. /\ BlockShape(b) /\ b.ver = stream[n].ver /\ b.meta = stream[n].meta
      /\ b.hash = stream[n].hash /\ b.prev = stream[n].prev /\ b.form = stream[n].form
      /\ b.payload = stream[n].payload
      /\ Stamped(b.sigs) \in [Signers -> Stamps \cup {NoStamp}]
      /\ Stamped(b.sigs) = [s \in Signers |-> IF s \in S THEN st ELSE Stamped(stream[n].sigs)[s]]
  BY <1>2, SignedBlock, SMTT(60)
<1>5. stream[n].start + BlockLen(b) \in Nat
  <2>1. stream[n].start \in Nat
    BY <1>2 DEF BlockShape
  <2>2. BlockLen(b) \in Nat
    BY <1>4, BlockLenNat
  <2> QED BY <2>1, <2>2
<1>6. SignStep(S, st, b)
  <2> DEFINE L == Loaded(FALSE)
             w == [L.block EXCEPT !.sigs = SignedBy(L.block.sigs, S, st, L.block.hash)]
  <2>1. /\ stream' = SubSeq(stream, 1, L.at - 1) \o <<w>>
        /\ eof' = L.block.start + BlockLen(w)
        /\ head' = IF eof' = KeyAfterRewrite THEN L ELSE Scanned(stream', FALSE)
        /\ headCacheSize' = eof' /\ headMetaOnly' = FALSE
        /\ call' = Answer("sign_head", S, TRUE)
        /\ endorsed' = [endorsed EXCEPT ![Len(endorsed)] =
                          [s \in Signers |-> IF s \in S THEN st ELSE @[s]]]
        /\ committed' = committed
    BY DEF SignHead
  <2>2. L.at = n /\ L.block = stream[n]
    <3>1. L = h
      BY <1>1
    <3> HIDE DEF L
    <3> QED BY <3>1
  <2> HIDE DEF L
  <2>3. w = b
    BY <2>2
  <2> HIDE DEF w, b
  <2>4. eof' = stream[n].start + BlockLen(b) /\ eof' # KeyAfterRewrite
    BY <1>5, <2>1, <2>2, <2>3, PathBacked DEF KeyAfterRewrite
  <2> QED BY <1>3, <2>1, <2>2, <2>3, <2>4 DEF SignStep
<1> HIDE DEF b
<1>7. /\ IsSequence(stream') /\ Len(stream') = n /\ DOMAIN stream' = 1..n
      /\ \A i \in 1..(n - 1) : stream'[i] = stream[i]
      /\ stream'[n] = b
  <2> DEFINE r == Rewritten(stream, <<b>>)
  <2>1. stream' = r
    BY <1>6 DEF SignStep, Rewritten
  <2>2. IsSequence(r) /\ Len(r) = n /\ DOMAIN r = 1..n
    BY <1>1, <1>2, LastReplaced
  <2>3. \A i \in 1..(n - 1) : r[i] = stream[i]
    BY <1>1, <1>2, LastReplaced
  <2>4. r[n] = b
    BY <1>1, <1>2, LastReplaced
  <2> HIDE DEF r
  <2> QED BY <2>1, <2>2, <2>3, <2>4
<1>8. /\ eof' \in Nat /\ headCacheSize' = eof' /\ headMetaOnly' = FALSE
      /\ head' = Scanned(stream', FALSE) /\ committed' = committed
  BY <1>5, <1>6 DEF SignStep
<1>9. head' = [at |-> n, block |-> b]
  <2>1. ~IsDelta(stream'[n]) /\ stream' # <<>>
    BY <1>1, <1>2, <1>4, <1>7, EmptySeq DEF IsDelta
  <2>2. Scanned(stream', FALSE) = [at |-> Len(stream'), block |-> IF FALSE
           THEN MetaOnly(stream'[Len(stream')]) ELSE stream'[Len(stream')]]
    BY <1>7, <2>1, ScannedLast
  <2> QED BY <1>7, <1>8, <2>2
<1>10. /\ endorsed' \in Seq([Signers -> Stamps \cup {NoStamp}]) /\ Len(endorsed') = n
       /\ \A i \in 1..(n - 1) : endorsed'[i] = endorsed[i]
       /\ endorsed'[n] = Stamped(b.sigs)
  <2> DEFINE e == [s \in Signers |-> IF s \in S THEN st ELSE endorsed[n][s]]
  <2>1. Stamped(stream[n].sigs) = endorsed[n]
    BY <1>1 DEF IInv, ChainInv, Linked
  <2>2. e = Stamped(b.sigs)
    BY <1>4, <2>1
  <2>3. endorsed' = [endorsed EXCEPT ![n] = e]
    BY <1>6 DEF SignStep
  <2>4. endorsed \in Seq([Signers -> Stamps \cup {NoStamp}])
    BY DEF IInv, TypeOK
  <2>5. e \in [Signers -> Stamps \cup {NoStamp}]
    BY <1>4, <2>2
  <2> HIDE DEF e, n
  <2> QED BY <1>2, <1>3, <2>2, <2>3, <2>4, <2>5
<1>11. CallType' /\ WalkInv' /\ AnswerInv'
  BY <1>6, QuietAnswer DEF SignStep
<1> HIDE DEF n, h
<1>12. TypeOK'
  <2>1. ASSUME NEW i \in DOMAIN stream' PROVE BlockShape(stream'[i])
    <3>1. i \in 1..(n - 1) \/ i = n
      BY <1>2, <1>7
    <3>2. i \in 1..(n - 1) => stream'[i] = stream[i] /\ i \in DOMAIN stream
      BY <1>2, <1>7
    <3> QED BY <1>4, <1>7, <3>1, <3>2 DEF IInv, TypeOK
  <2>2. CacheType'
    <3>1. head' \in [at : DOMAIN stream', block : {head'.block}]
      <4>1. n \in DOMAIN stream'
        BY <1>2, <1>7
      <4> QED BY <1>9, <4>1
    <3>2. headCacheSize' \in Nat \cup {-1} /\ headMetaOnly' \in BOOLEAN
      BY <1>8
    <3> QED BY <3>1, <3>2 DEF CacheType
  <2>3. committed' \in Seq([text : Contents, meta : Metas])
    BY <1>8 DEF IInv, TypeOK
  <2> QED BY <1>7, <1>8, <1>10, <1>11, <2>1, <2>2, <2>3 DEF TypeOK, CacheType, CallType
<1>13. ChainInv'
  <2>1. ASSUME NEW i \in 1..(n - 1) PROVE Linked(i)'
    <3>1. Linked(i)
      BY <1>2 DEF IInv, ChainInv
    <3>2. stream'[i] = stream[i] /\ (i # 1 => stream'[i - 1] = stream[i - 1])
      <4>1. i # 1 => i - 1 \in 1..(n - 1)
        BY <1>2
      <4> QED BY <1>7, <4>1
    <3>3. i < n
      BY <1>2
    <3> QED BY <1>7, <1>8, <1>10, <3>1, <3>2, <3>3 DEF Linked
  <2>2. ASSUME NEW i, i = n PROVE Linked(i)'
    <3>1. Linked(i)
      BY <1>2, <2>2 DEF IInv, ChainInv
    <3>2. i # 1 => stream'[i - 1] = stream[i - 1]
      <4>1. i # 1 => i - 1 \in 1..(n - 1)
        BY <1>2, <2>2
      <4> QED BY <1>7, <4>1
    <3>3. stream'[i] = b /\ endorsed'[i] = Stamped(b.sigs)
      BY <1>7, <1>10, <2>2
    <3>4. ~IsDelta(b)
      BY <1>1, <1>4 DEF IsDelta, n
    <3>5. /\ b.ver = stream[i].ver /\ b.meta = stream[i].meta /\ b.hash = stream[i].hash
          /\ b.prev = stream[i].prev /\ b.form = stream[i].form /\ b.payload = stream[i].payload
      BY <1>4, <2>2
    <3>6. ~IsDelta(stream[i])
      BY <1>1, <2>2 DEF n
    <3> QED BY <1>8, <3>1, <3>2, <3>3, <3>4, <3>5, <3>6 DEF Linked
  <2>3. ASSUME NEW i \in DOMAIN stream' PROVE Linked(i)'
    <3>1. i \in 1..(n - 1) \/ i = n
      BY <1>2, <1>7
    <3> QED BY <2>1, <2>2, <3>1
  <2> QED BY <1>3, <1>7, <1>8, <1>10, <2>3 DEF ChainInv
<1>14. CacheInv'
  <2>1. stream' # <<>>
    BY <1>2, <1>7, EmptySeq
  <2>2. head'.at = n /\ head'.block = b
    BY <1>9
  <2>3. Len(stream') = n /\ stream'[Len(stream')] = b
    BY <1>7
  <2> QED BY <1>8, <2>1, <2>2, <2>3 DEF CacheInv
<1> QED BY <1>11, <1>12, <1>13, <1>14 DEF IInv

-------------------------------------------------------------------------------
(* The calls that only read. *)

\* The facts a reader uses of block i.
LEMMA BlockFacts ==
  ASSUME IInv, NEW i \in DOMAIN stream
  PROVE  /\ i \in Nat \ {0} /\ i <= Len(stream) /\ Len(committed) = Len(stream)
         /\ DOMAIN stream = 1..Len(stream) /\ Len(stream) \in Nat
         /\ BlockShape(stream[i]) /\ Linked(i) /\ stream[i].ver = i - 1
         /\ committed[i].text \in Contents
         /\ LogEntry(stream[i]) = [ver |-> i - 1, meta |-> committed[i].meta,
                                   sigs |-> endorsed[i]]
<1>1. DOMAIN stream = 1..Len(stream) /\ Len(stream) \in Nat
  BY DEF IInv, TypeOK, IsSequence
<1>2. i \in Nat \ {0} /\ i <= Len(stream)
  BY <1>1
<1>3. BlockShape(stream[i]) /\ Linked(i) /\ Len(committed) = Len(stream)
  BY DEF IInv, TypeOK, ChainInv
<1>4. committed[i].text \in Contents
  <2>1. committed[i] \in [text : Contents, meta : Metas]
    <3>1. i \in 1..Len(committed)
      BY <1>2, <1>3
    <3> DEFINE T == [text : Contents, meta : Metas]
    <3>2. committed \in Seq(T)
      BY DEF IInv, TypeOK
    <3> HIDE DEF T
    <3>3. committed[i] \in T
      BY <3>1, <3>2
    <3> QED BY <3>3 DEF T
  <2> QED BY <2>1
<1>5. stream[i].ver = i - 1 /\ stream[i].meta = committed[i].meta
      /\ Stamped(stream[i].sigs) = endorsed[i]
  BY <1>3 DEF Linked
<1> QED BY <1>1, <1>2, <1>3, <1>4, <1>5 DEF LogEntry

\* What a reader that finds a HEAD finds, and that nothing was committed otherwise.
LEMMA ReaderHead ==
  ASSUME IInv, NEW m \in BOOLEAN
  PROVE  /\ Loaded(m) = NoHead => stream = <<>> /\ committed = <<>>
         /\ Loaded(m) # NoHead =>
              /\ committed # <<>> /\ Len(stream) \in DOMAIN stream
              /\ Loaded(m).at = Len(stream)
              /\ LogEntry(Loaded(m).block) = LogEntry(stream[Len(stream)])
              /\ stream[Len(stream)].payload = committed[Len(stream)].text
              /\ ~m => Loaded(m).block = stream[Len(stream)]
<1> DEFINE n == Len(stream)
<1>1. CASE stream = <<>>
  <2>1. Len(committed) = 0
    BY <1>1 DEF IInv, ChainInv
  <2>2. committed = <<>>
    BY <2>1, EmptySeq DEF IInv, TypeOK
  <2> QED BY <1>1, <2>2, LoadedHead DEF IInv
<1>2. CASE stream # <<>>
  <2>1. /\ Loaded(m) # NoHead
        /\ n \in DOMAIN stream
        /\ stream[n].payload = committed[n].text
        /\ Loaded(m).at = n
        /\ Loaded(m).block \in {stream[n], MetaOnly(stream[n])}
        /\ ~m => Loaded(m) = [at |-> n, block |-> stream[n]]
    BY <1>2, LoadedHead DEF IInv
  <2>2. LogEntry(MetaOnly(stream[n])) = LogEntry(stream[n])
    <3>1. BlockShape(stream[n])
      BY <2>1 DEF IInv, TypeOK
    <3> QED BY <3>1 DEF LogEntry, MetaOnly, BlockShape
  <2>3. committed # <<>>
    <3>1. Len(committed) = n /\ n # 0
      BY <2>1, BlockFacts
    <3> QED BY <3>1
  <2>4. ~m => Loaded(m).block = stream[n]
    BY <2>1
  <2> QED BY <2>1, <2>2, <2>3, <2>4
<1> QED BY <1>1, <1>2

\* A reader keeps the invariant if what it puts in call does.
LEMMA ReaderInv ==
  ASSUME IInv, NEW m \in BOOLEAN, LoadHead(m), UNCHANGED <<store, told>>,
         CallType', WalkInv', AnswerInv'
  PROVE  IInv'
<1>1. CacheInv' /\ CacheType'
  BY LoadHeadInv DEF IInv
<1>2. TypeOK' /\ ChainInv'
  BY <1>1, StoreKept DEF IInv
<1> QED BY <1>1, <1>2 DEF IInv

\* A commit that raises and a refused sign_head only refill the cache.
LEMMA QuietReaderInv ==
  ASSUME IInv, FormatVersion = 2, CommitRaises \/ SignHeadRefused
  PROVE  IInv'
<1>1. LoadHead(FALSE) /\ UNCHANGED <<store, told>>
  <2>1. CASE CommitRaises
    BY <2>1 DEF CommitRaises
  <2>2. CASE SignHeadRefused
    <3>1. FormatVersion # 1
      BY FormatVersion = 2
    <3>2. IF FormatVersion = 1 THEN UNCHANGED cache ELSE LoadHead(FALSE)
      BY <2>2 DEF SignHeadRefused
    <3>3. UNCHANGED <<store, told>>
      BY <2>2 DEF SignHeadRefused
    <3> QED BY <3>1, <3>2, <3>3
  <2> QED BY <2>1, <2>2
<1>2. CallType' /\ WalkInv' /\ AnswerInv'
  BY QuietAnswer DEF CommitRaises, SignHeadRefused
<1> QED BY <1>1, <1>2, ReaderInv

\* A new instance finds the same HEAD.
LEMMA ReopenInv ==
  ASSUME IInv, Reopen
  PROVE  IInv'
<1> DEFINE n == Len(stream)
<1>1. CallType' /\ WalkInv' /\ AnswerInv'
  BY QuietAnswer DEF Reopen
<1>2. /\ head' = Scanned(stream, FALSE) /\ headCacheSize' = eof /\ headMetaOnly' = FALSE
      /\ stream' = stream /\ eof' = eof /\ eof \in Nat /\ UNCHANGED <<store, told>>
  BY DEF Reopen, store, IInv, TypeOK
<1>3. CASE stream = <<>>
  <2>1. head' = NoHead
    BY <1>2, <1>3, ScannedEmpty
  <2> QED BY <1>1, <1>2, <2>1, StoreKept DEF CacheInv, CacheType, IInv
<1>4. CASE stream # <<>>
  <2>1. n \in DOMAIN stream /\ ~IsDelta(stream[n])
    BY <1>4, LoadedHead DEF IInv
  <2>2. head' = [at |-> n, block |-> IF FALSE THEN MetaOnly(stream[n]) ELSE stream[n]]
    BY <1>2, <1>4, <2>1, ScannedLast DEF IInv, TypeOK
  <2>3. head'.at = n /\ head'.block = stream[n] /\ head' \in [at : DOMAIN stream, block : {head'.block}]
    BY <2>1, <2>2
  <2>4. CacheInv'
    BY <1>2, <1>4, <2>3 DEF CacheInv
  <2>5. CacheType'
    BY <1>2, <2>3 DEF CacheType
  <2> QED BY <1>1, <1>2, <2>4, <2>5, StoreKept DEF IInv
<1> QED BY <1>3, <1>4

\* matches_head compares with the newest committed text.
LEMMA MatchesHeadInv ==
  ASSUME IInv, NEW input \in Inputs, MatchesHead(input)
  PROVE  IInv'
<1> DEFINE h == Loaded(FALSE)
           out == h # NoHead /\ WithNewline[input] = h.block.payload
<1>1. /\ LoadHead(FALSE) /\ UNCHANGED <<store, told>>
      /\ call' = Answer("matches_head", input, out)
  BY DEF MatchesHead
<1>2. out = (committed # <<>> /\ committed[Len(committed)].text = WithNewline[input])
  <2>1. CASE h = NoHead
    BY <2>1, ReaderHead
  <2>2. CASE h # NoHead
    <3>1. /\ committed # <<>> /\ h.block = stream[Len(stream)]
          /\ stream[Len(stream)].payload = committed[Len(stream)].text
      BY <2>2, ReaderHead
    <3>2. Len(committed) = Len(stream)
      BY DEF IInv, ChainInv
    <3> QED BY <2>2, <3>1, <3>2
  <2> QED BY <2>1, <2>2
<1> HIDE DEF out
<1>3. /\ call'.op = "matches_head" /\ call'.running = FALSE /\ call'.target = input
      /\ call'.out = out
  BY <1>1 DEF Answer
<1>4. CallType'
  BY <1>1 DEF CallType, Answer, Ops
<1>5. WalkInv'
  BY <1>3 DEF WalkInv
<1>6. committed' = committed
  BY <1>1 DEF told
<1>7. AnswerInv'
  BY <1>2, <1>3, <1>6
     DEF AnswerInv, CheckoutAnswers, VerifyAccepts, LogAnswers, MatchesHeadPredicts
<1> QED BY <1>1, <1>4, <1>5, <1>7, ReaderInv

\* log lists the newest versions from the blocks' metadata.
LEMMA LogInv ==
  ASSUME IInv, NEW limit \in 0..MaxVersions, Log(limit)
  PROVE  IInv'
<1> DEFINE n == Len(stream)
           h == Loaded(TRUE)
           shown == Entries(limit, h.at)
           out == IF h = NoHead THEN <<>>
                  ELSE [k \in 1..shown |-> IF k = 1 THEN LogEntry(h.block)
                                           ELSE LogEntry(stream[h.at + 1 - k])]
           entry(k) == [ver |-> n - k, meta |-> committed[n + 1 - k].meta,
                        sigs |-> endorsed[n + 1 - k]]
           count == IF limit = 0 THEN n ELSE Min(limit, n)
<1>1. /\ LoadHead(TRUE) /\ UNCHANGED <<store, told>>
      /\ call' = Answer("log", limit, out)
  BY DEF Log
<1>2. limit \in Nat /\ n \in Nat /\ Len(committed) = n
  BY StoreAssumption DEF IInv, TypeOK, IsSequence, ChainInv
<1>3. Len(out) = count /\ \A k \in 1..count : out[k] = entry(k)
  <2>1. CASE h = NoHead
    <3>1. n = 0
      BY <2>1, ReaderHead, EmptySeq
    <3>2. count = 0 /\ Len(<<>>) = 0
      BY <1>2, <3>1 DEF Min
    <3> QED BY <2>1, <3>2
  <2>2. CASE h # NoHead
    <3>1. h.at = n /\ n \in DOMAIN stream /\ LogEntry(h.block) = LogEntry(stream[n])
      BY <2>2, ReaderHead
    <3> HIDE DEF h
    <3>2. shown = count /\ count \in 0..n
      <4> HIDE DEF n
      <4>1. shown = IF limit = 0 THEN n ELSE Min(limit, n)
        BY <3>1 DEF Entries, n
      <4>2. count \in 0..n
        BY <1>2 DEF Min
      <4> QED BY <4>1, <4>2
    <3> HIDE DEF count, shown
    <3> DEFINE f == [k \in 1..count |-> IF k = 1 THEN LogEntry(h.block)
                                         ELSE LogEntry(stream[n + 1 - k])]
    <3>3. out = f
      BY <2>2, <3>1, <3>2
    <3>4. Len(f) = count
      BY <3>2
    <3>5. ASSUME NEW k \in 1..count PROVE f[k] = entry(k)
      <4>1. n + 1 - k \in 1..n /\ n + 1 - k - 1 = n - k
        BY <1>2, <3>2
      <4>2. n + 1 - k \in DOMAIN stream
        BY <3>1, <4>1, BlockFacts
      <4>3. LogEntry(stream[n + 1 - k]) = entry(k)
        <5> DEFINE i == n + 1 - k
        <5>1. LogEntry(stream[i]) = [ver |-> i - 1, meta |-> committed[i].meta,
                                     sigs |-> endorsed[i]]
          BY <4>2, BlockFacts
        <5> QED BY <4>1, <5>1
      <4>4. k = 1 => n + 1 - k = n
        BY <1>2
      <4> QED BY <3>1, <4>3, <4>4
    <3> HIDE DEF f
    <3> QED BY <3>3, <3>4, <3>5
  <2> QED BY <2>1, <2>2
<1> HIDE DEF out
<1>4. /\ call'.op = "log" /\ call'.running = FALSE /\ call'.target = limit
      /\ call'.out = out
  BY <1>1 DEF Answer
<1>5. CallType'
  BY <1>1 DEF CallType, Answer, Ops
<1>6. WalkInv'
  BY <1>2, <1>4 DEF WalkInv
<1>7. committed' = committed /\ endorsed' = endorsed
  BY <1>1 DEF told
<1>8. LogAnswers'
  <2>1. ASSUME NEW k \in 1..count
        PROVE  out[k] = [ver |-> n + 1 - k - 1, meta |-> committed[n + 1 - k].meta,
                         sigs |-> endorsed[n + 1 - k]]
    <3>1. n + 1 - k - 1 = n - k
      BY <1>2
    <3> QED BY <1>3, <3>1
  <2> QED BY <1>2, <1>3, <1>4, <1>7, <2>1 DEF LogAnswers
<1>9. AnswerInv'
  BY <1>4, <1>8 DEF AnswerInv, CheckoutAnswers, VerifyAccepts, MatchesHeadPredicts
<1> QED BY <1>1, <1>5, <1>6, <1>9, ReaderInv

\* The start of a walk, at the last block.
LEMMA CheckoutInv ==
  ASSUME IInv, NEW v \in 0..MaxVersions, Checkout(v)
  PROVE  IInv'
<1> DEFINE n == Len(stream)
           h == Loaded(FALSE)
<1>1. /\ LoadHead(FALSE) /\ UNCHANGED <<store, told>>
      /\ call' = IF h = NoHead THEN Answer("checkout", v, EmptyText)
                 ELSE IF h.block.ver = v THEN Answer("checkout", v, h.block.payload)
                 ELSE Walk("checkout", v, h.at, h.block)
  BY DEF Checkout
<1>2. v \in Nat /\ Len(committed) = n
  BY StoreAssumption DEF IInv, ChainInv
<1>3. committed' = committed /\ stream' = stream
  BY <1>1 DEF told, store
<1>4. CASE h = NoHead
  <2>1. call' = Answer("checkout", v, EmptyText) /\ committed = <<>>
    BY <1>1, <1>4, ReaderHead
  <2>2. /\ call'.op = "checkout" /\ call'.running = FALSE /\ call'.target = v
        /\ call'.out = EmptyText
    BY <2>1 DEF Answer
  <2>3. ~(v < Len(committed))
    BY <1>2, <2>1
  <2>4. CallType' /\ WalkInv'
    BY <1>2, <2>1, <2>2 DEF CallType, Answer, Ops, WalkInv
  <2>5. AnswerInv'
    BY <1>3, <2>1, <2>2, <2>3
       DEF AnswerInv, CheckoutAnswers, VerifyAccepts, LogAnswers, MatchesHeadPredicts
  <2> QED BY <1>1, <2>4, <2>5, ReaderInv
<1>5. CASE h # NoHead
  <2>1. /\ n \in DOMAIN stream /\ h.at = n /\ h.block = stream[n]
        /\ stream[n].payload = committed[n].text
    BY <1>5, ReaderHead
  <2>2. n \in Nat \ {0} /\ stream[n].ver = n - 1 /\ BlockShape(stream[n])
    BY <2>1, BlockFacts
  <2>3. CASE n - 1 = v
    <3>1. call' = Answer("checkout", v, committed[n].text)
      BY <1>1, <1>5, <2>1, <2>2, <2>3
    <3>2. /\ call'.op = "checkout" /\ call'.running = FALSE /\ call'.target = v
          /\ call'.out = committed[n].text
      BY <3>1 DEF Answer
    <3>3. v < Len(committed) /\ v + 1 = n
      BY <1>2, <2>2, <2>3
    <3>4. CallType' /\ WalkInv'
      BY <1>2, <3>1, <3>2 DEF CallType, Answer, Ops, WalkInv
    <3>5. AnswerInv'
      BY <1>3, <3>2, <3>3
         DEF AnswerInv, CheckoutAnswers, VerifyAccepts, LogAnswers, MatchesHeadPredicts
    <3> QED BY <1>1, <3>4, <3>5, ReaderInv
  <2>4. CASE n - 1 # v
    <3>1. call' = Walk("checkout", v, n, stream[n])
      BY <1>1, <1>5, <2>1, <2>2, <2>4
    <3>2. /\ call'.op = "checkout" /\ call'.running = TRUE /\ call'.target = v
          /\ call'.at = n /\ call'.cur = stream[n]
      BY <3>1 DEF Walk
    <3>3. stream[n] = [stream[n] EXCEPT !.payload = committed[n].text]
      BY <2>1, <2>2 DEF BlockShape
    <3>4. v \notin (n - 1)..(n - 1)
      BY <1>2, <2>2, <2>4
    <3>5. CallType'
      BY <2>2, <3>1 DEF CallType, Walk, Ops
    <3>6. WalkInv'
      BY <1>2, <1>3, <2>1, <3>2, <3>3, <3>4 DEF WalkInv
    <3>7. AnswerInv'
      BY <3>2 DEF AnswerInv, CheckoutAnswers, VerifyAccepts, LogAnswers, MatchesHeadPredicts
    <3> QED BY <1>1, <3>5, <3>6, <3>7, ReaderInv
  <2> QED BY <2>3, <2>4
<1> QED BY <1>4, <1>5

\* verify starts its walk at HEAD.
LEMMA VerifyInv ==
  ASSUME IInv, FormatVersion = 2, Verify
  PROVE  IInv'
<1> DEFINE n == Len(stream)
           h == Loaded(FALSE)
<1>0. FormatVersion # 1
  BY FormatVersion = 2
<1>1. /\ LoadHead(FALSE) /\ UNCHANGED <<store, told>>
      /\ call' = IF h = NoHead THEN Answer("verify", 0, TRUE)
                 ELSE Walk("verify", 0, h.at, h.block)
  <2>1. IF FormatVersion = 1 THEN UNCHANGED cache ELSE LoadHead(FALSE)
    BY DEF Verify
  <2>2. UNCHANGED <<store, told>>
    BY DEF Verify
  <2>3. call' = IF FormatVersion = 1 \/ h = NoHead THEN Answer("verify", 0, TRUE)
                ELSE Walk("verify", 0, h.at, h.block)
    BY DEF Verify
  <2> QED BY <1>0, <2>1, <2>2, <2>3
<1>2. committed' = committed /\ stream' = stream
  BY <1>1 DEF told, store
<1>3. CASE h = NoHead
  <2>1. call' = Answer("verify", 0, TRUE)
    BY <1>1, <1>3
  <2>2. call'.op = "verify" /\ call'.running = FALSE /\ call'.out = TRUE
    BY <2>1 DEF Answer
  <2>3. CallType' /\ WalkInv'
    BY <2>1, <2>2 DEF CallType, Answer, Ops, WalkInv
  <2>4. AnswerInv'
    BY <2>2 DEF AnswerInv, CheckoutAnswers, VerifyAccepts, LogAnswers, MatchesHeadPredicts
  <2> QED BY <1>1, <2>3, <2>4, ReaderInv
<1>4. CASE h # NoHead
  <2>1. /\ n \in DOMAIN stream /\ h.at = n /\ h.block = stream[n]
        /\ stream[n].payload = committed[n].text
    BY <1>4, ReaderHead
  <2>2. n \in Nat \ {0} /\ BlockShape(stream[n])
    BY <2>1, BlockFacts
  <2>3. call' = Walk("verify", 0, n, stream[n])
    BY <1>1, <1>4, <2>1
  <2>4. /\ call'.op = "verify" /\ call'.running = TRUE
        /\ call'.at = n /\ call'.cur = stream[n]
    BY <2>3 DEF Walk
  <2>5. stream[n] = [stream[n] EXCEPT !.payload = committed[n].text]
    BY <2>1, <2>2 DEF BlockShape
  <2>6. CallType'
    BY <2>2, <2>3 DEF CallType, Walk, Ops
  <2>7. WalkInv'
    BY <1>2, <2>1, <2>4, <2>5 DEF WalkInv
  <2>8. AnswerInv'
    BY <2>4 DEF AnswerInv, CheckoutAnswers, VerifyAccepts, LogAnswers, MatchesHeadPredicts
  <2> QED BY <1>1, <2>6, <2>7, <2>8, ReaderInv
<1> QED BY <1>3, <1>4

-------------------------------------------------------------------------------
(* The walks back through history. *)

\* From a block with its own text, a walk reaches the block before it with the
\* text that was committed there, whether that is a delta or a full text.
LEMMA WalkBack ==
  ASSUME IInv, FormatVersion = 2, NEW at \in DOMAIN stream, at # 1, NEW cur,
         cur = [stream[at] EXCEPT !.payload = committed[at].text]
  PROVE  /\ at - 1 \in DOMAIN stream
         /\ Before(at, cur) = [stream[at - 1] EXCEPT !.payload = committed[at - 1].text]
         /\ Before(at, cur).payload # Corrupt
         /\ Before(at, cur).payload = committed[at - 1].text
         /\ Before(at, cur).ver = at - 2
         /\ cur.prev = Before(at, cur).hash
<1> DEFINE i == at - 1
           b == stream[i]
<1>1. i \in DOMAIN stream /\ i + 1 = at /\ i - 1 = at - 2
  BY BlockFacts
<1>2. /\ BlockShape(stream[at]) /\ Linked(at) /\ committed[at].text \in Contents
      /\ BlockShape(b) /\ Linked(i) /\ committed[i].text \in Contents /\ b.ver = i - 1
  BY <1>1, BlockFacts
<1>3. cur.payload = committed[at].text /\ cur.prev = stream[at].prev
  BY <1>2 DEF BlockShape
<1>4. TextBefore(cur.payload, b) = committed[i].text
  <2>0. FormatVersion # 1
    BY FormatVersion = 2
  <2>1. CASE IsDelta(b)
    <3>1. b.payload = ReverseDelta(committed[at].text, committed[i].text)
      BY <1>1, <1>2, <2>1 DEF Linked
    <3>2. b.payload \notin Contents
      BY <1>2, <2>1, DeltaAssumption DEF BlockShape, IsDelta
    <3>3. b.payload.new = cur.payload /\ b.payload.old = committed[i].text
      BY <1>3, <3>1 DEF ReverseDelta
    <3> QED BY <2>1, <3>2, <3>3 DEF TextBefore, Applied
  <2>2. CASE ~IsDelta(b)
    BY <1>2, <2>0, <2>2 DEF TextBefore, Linked
  <2> QED BY <2>1, <2>2
<1>5. Before(at, cur) = [b EXCEPT !.payload = committed[i].text]
  BY <1>4 DEF Before
<1>6. /\ Before(at, cur).payload = committed[i].text
      /\ Before(at, cur).ver = b.ver /\ Before(at, cur).hash = b.hash
  BY <1>2, <1>5 DEF BlockShape
<1>7. committed[i].text # Corrupt
  BY <1>2, ContentAssumption
<1>8. stream[at].prev = b.hash
  BY <1>2 DEF Linked
<1> QED BY <1>1, <1>2, <1>3, <1>5, <1>6, <1>7, <1>8

\* A step of a walk leaves everything but call alone.
LEMMA WalkKeeps ==
  ASSUME IInv, UNCHANGED <<store, cache, told>>, CallType', WalkInv', AnswerInv'
  PROVE  IInv'
<1>1. /\ stream' = stream /\ eof' = eof /\ committed' = committed /\ endorsed' = endorsed
      /\ head' = head /\ headCacheSize' = headCacheSize /\ headMetaOnly' = headMetaOnly
      /\ UNCHANGED <<store, told>>
  BY DEF store, cache, told
<1>2. CacheInv'
  BY <1>1 DEF IInv, CacheInv
<1>3. CacheType'
  BY <1>1 DEF IInv, TypeOK, CacheType
<1> QED BY <1>1, <1>2, <1>3, StoreKept DEF IInv

\* A turn of checkout's loop reconstructs the version before.
LEMMA CheckoutStepInv ==
  ASSUME IInv, FormatVersion = 2, CheckoutStep
  PROVE  IInv'
<1> DEFINE v == call.target
           at == call.at
           prev == Before(call.at, call.cur)
<1>1. /\ call.running /\ call.op = "checkout" /\ UNCHANGED <<store, cache, told>>
      /\ call' = IF at = 1 THEN Answer("checkout", v, NotFound)
                 ELSE IF prev.payload = Corrupt THEN Answer("checkout", v, Corrupt)
                 ELSE IF prev.ver = v THEN Answer("checkout", v, prev.payload)
                 ELSE Walk("checkout", v, at - 1, prev)
  BY DEF CheckoutStep
<1>2. /\ v \in Nat /\ at \in DOMAIN stream
      /\ call.cur = [stream[at] EXCEPT !.payload = committed[at].text]
      /\ v \notin (at - 1)..(Len(stream) - 1)
  BY <1>1 DEF IInv, WalkInv
<1>3. /\ at \in Nat \ {0} /\ at <= Len(stream) /\ Len(committed) = Len(stream)
      /\ Len(stream) \in Nat
  BY <1>2, BlockFacts
<1>4. committed' = committed /\ stream' = stream
  BY <1>1 DEF told, store
<1>5. CASE at = 1
  <2>1. call' = Answer("checkout", v, NotFound)
    BY <1>1, <1>5
  <2>2. /\ call'.op = "checkout" /\ call'.running = FALSE /\ call'.target = v
        /\ call'.out = NotFound
    BY <2>1 DEF Answer
  <2>3. ~(v < Len(committed)) /\ committed # <<>>
    BY <1>2, <1>3, <1>5
  <2>4. CallType' /\ WalkInv'
    BY <1>2, <2>1, <2>2 DEF CallType, Answer, Ops, WalkInv
  <2>5. AnswerInv'
    BY <1>4, <2>2, <2>3
       DEF AnswerInv, CheckoutAnswers, VerifyAccepts, LogAnswers, MatchesHeadPredicts
  <2> QED BY <1>1, <2>4, <2>5, WalkKeeps
<1>6. CASE at # 1
  <2>1. /\ at - 1 \in DOMAIN stream
        /\ prev = [stream[at - 1] EXCEPT !.payload = committed[at - 1].text]
        /\ prev.payload # Corrupt /\ prev.payload = committed[at - 1].text
        /\ prev.ver = at - 2
    BY <1>2, <1>6, WalkBack
  <2> HIDE DEF prev, v, at
  <2>2. CASE at - 2 = v
    <3>1. call' = Answer("checkout", v, committed[at - 1].text)
      BY <1>1, <1>6, <2>1, <2>2
    <3>2. /\ call'.op = "checkout" /\ call'.running = FALSE /\ call'.target = v
          /\ call'.out = committed[at - 1].text
      BY <3>1 DEF Answer
    <3>3. v < Len(committed) /\ v + 1 = at - 1
      BY <1>2, <1>3, <2>2
    <3>4. CallType' /\ WalkInv'
      BY <1>2, <3>1, <3>2 DEF CallType, Answer, Ops, WalkInv
    <3>5. AnswerInv'
      BY <1>4, <3>2, <3>3
         DEF AnswerInv, CheckoutAnswers, VerifyAccepts, LogAnswers, MatchesHeadPredicts
    <3> QED BY <1>1, <3>4, <3>5, WalkKeeps
  <2>3. CASE at - 2 # v
    <3>1. call' = Walk("checkout", v, at - 1, prev)
      BY <1>1, <1>6, <2>1, <2>3
    <3>2. /\ call'.op = "checkout" /\ call'.running = TRUE /\ call'.target = v
          /\ call'.at = at - 1 /\ call'.cur = prev
      BY <3>1 DEF Walk
    <3>3. v \notin (at - 1 - 1)..(Len(stream) - 1)
      BY <1>2, <1>3, <2>3
    <3>4. CallType'
      BY <1>3, <3>1 DEF CallType, Walk, Ops
    <3>5. WalkInv'
      BY <1>2, <1>4, <2>1, <3>2, <3>3 DEF WalkInv
    <3>6. AnswerInv'
      BY <3>2 DEF AnswerInv, CheckoutAnswers, VerifyAccepts, LogAnswers, MatchesHeadPredicts
    <3> QED BY <1>1, <3>4, <3>5, <3>6, WalkKeeps
  <2> QED BY <2>2, <2>3
<1> QED BY <1>5, <1>6

\* A turn of verify's loop finds the block intact and its link right.
LEMMA VerifyStepInv ==
  ASSUME IInv, FormatVersion = 2, VerifyStep
  PROVE  IInv'
<1> DEFINE at == call.at
           cur == call.cur
           prev == Before(call.at, call.cur)
<1>1. /\ call.running /\ call.op = "verify" /\ UNCHANGED <<store, cache, told>>
      /\ call' = IF ~Intact(cur) THEN Answer("verify", 0, FALSE)
                 ELSE IF at = 1 THEN Answer("verify", 0, TRUE)
                 ELSE IF prev.payload = Corrupt \/ cur.prev # prev.hash
                      THEN Answer("verify", 0, FALSE)
                 ELSE Walk("verify", 0, at - 1, prev)
  BY DEF VerifyStep
<1>2. /\ at \in DOMAIN stream
      /\ cur = [stream[at] EXCEPT !.payload = committed[at].text]
  BY <1>1 DEF IInv, WalkInv
<1>3. committed' = committed /\ stream' = stream
  BY <1>1 DEF told, store
<1>4. Intact(cur)
  <2>1. BlockShape(stream[at]) /\ Linked(at)
    BY <1>2, BlockFacts
  <2>2. /\ cur.ver = stream[at].ver /\ cur.meta = stream[at].meta /\ cur.prev = stream[at].prev
        /\ cur.hash = stream[at].hash /\ cur.sigs = stream[at].sigs
        /\ cur.payload = committed[at].text
    BY <1>2, <2>1 DEF BlockShape
  <2>3. cur.hash = Digest(cur.ver, cur.meta, cur.payload, cur.prev)
    BY <2>1, <2>2 DEF Linked
  <2>4. cur.hash # NoHash
    BY <2>3 DEF Digest, NoHash
  <2>5. \A s \in Signers : cur.sigs[s] # Unsigned => cur.sigs[s].over = cur.hash
    BY <2>1, <2>2 DEF BlockShape
  <2> QED BY <2>3, <2>4, <2>5 DEF Intact
<1>5. CASE at = 1
  <2>1. call' = Answer("verify", 0, TRUE)
    BY <1>1, <1>4, <1>5
  <2>2. call'.op = "verify" /\ call'.running = FALSE /\ call'.out = TRUE
    BY <2>1 DEF Answer
  <2>3. CallType' /\ WalkInv'
    BY <2>1, <2>2 DEF CallType, Answer, Ops, WalkInv
  <2>4. AnswerInv'
    BY <2>2 DEF AnswerInv, CheckoutAnswers, VerifyAccepts, LogAnswers, MatchesHeadPredicts
  <2> QED BY <1>1, <2>3, <2>4, WalkKeeps
<1>6. CASE at # 1
  <2>1. /\ at - 1 \in DOMAIN stream
        /\ prev = [stream[at - 1] EXCEPT !.payload = committed[at - 1].text]
        /\ prev.payload # Corrupt /\ cur.prev = prev.hash
    BY <1>2, <1>6, WalkBack
  <2>2. at - 1 \in Nat
    BY <2>1, BlockFacts
  <2> HIDE DEF prev, at, cur
  <2>3. call' = Walk("verify", 0, at - 1, prev)
    BY <1>1, <1>4, <1>6, <2>1
  <2>4. /\ call'.op = "verify" /\ call'.running = TRUE
        /\ call'.at = at - 1 /\ call'.cur = prev
    BY <2>3 DEF Walk
  <2>5. CallType'
    BY <2>2, <2>3 DEF CallType, Walk, Ops
  <2>6. WalkInv'
    BY <1>3, <2>1, <2>4 DEF WalkInv
  <2>7. AnswerInv'
    BY <2>4 DEF AnswerInv, CheckoutAnswers, VerifyAccepts, LogAnswers, MatchesHeadPredicts
  <2> QED BY <1>1, <2>5, <2>6, <2>7, WalkKeeps
<1> QED BY <1>5, <1>6

-------------------------------------------------------------------------------
(* The invariant, and what follows from it. *)

\* The invariant holds of an empty store.
LEMMA InitInv ==
  ASSUME Init, FormatVersion = 2
  PROVE  IInv
<1>1. /\ stream = <<>> /\ eof = DataStart /\ head = NoHead /\ headCacheSize = DataStart
      /\ headMetaOnly = FALSE /\ committed = <<>> /\ endorsed = <<>>
      /\ call = Answer("open", EmptyText, NoText)
  BY DEF Init
<1>2. DataStart \in Nat
  BY DEF DataStart
<1>3. TypeOK
  <2>1. IsSequence(stream)
    BY <1>1 DEF IsSequence
  <2>2. call \in [op : Ops, running : BOOLEAN, target : {call.target}, at : Nat,
                  cur : {call.cur}, out : {call.out}]
    BY <1>1 DEF Answer, Ops
  <2>3. committed \in Seq([text : Contents, meta : Metas])
    BY <1>1
  <2>4. endorsed \in Seq([Signers -> Stamps \cup {NoStamp}])
    BY <1>1
  <2>5. /\ \A i \in DOMAIN stream : BlockShape(stream[i])
        /\ eof \in Nat /\ headCacheSize \in Nat \cup {-1} /\ headMetaOnly \in BOOLEAN
    <3>1. DOMAIN stream = {}
      BY <1>1
    <3> QED BY <1>1, <1>2, <3>1
  <2>6. ~(head # NoHead)
    BY <1>1
  <2> QED BY <2>1, <2>2, <2>3, <2>4, <2>5, <2>6 DEF TypeOK
<1>4. ChainInv
  BY <1>1 DEF ChainInv
<1>5. CacheInv
  BY <1>1 DEF CacheInv
<1>6. call.op = "open" /\ call.running = FALSE
  BY <1>1 DEF Answer
<1>7. WalkInv /\ AnswerInv
  BY <1>6 DEF WalkInv, AnswerInv, CheckoutAnswers, VerifyAccepts, LogAnswers,
             MatchesHeadPredicts
<1> QED BY <1>3, <1>4, <1>5, <1>7 DEF IInv

\* Every call, and every turn of a walk, preserves the invariant.
LEMMA NextInv ==
  ASSUME IInv, PathBacked, FormatVersion = 2, [Next]_vars
  PROVE  IInv'
<1>1. CASE Commit
  <2>1. PICK input \in Inputs, m \in Metas, S \in SUBSET Signers, st \in Stamps :
          \/ FirstCommit(input, m, S, st)
          \/ \E snapshot \in BOOLEAN : NextCommit(input, m, snapshot, S, st)
    BY <1>1 DEF Commit
  <2> QED BY <2>1, FirstCommitInv, NextCommitInv, PathBacked, FormatVersion = 2
<1>2. CASE CommitRaises \/ SignHeadRefused
  BY <1>2, QuietReaderInv, FormatVersion = 2
<1>3. CASE \E S \in SUBSET Signers, st \in Stamps : SignHead(S, st)
  BY <1>3, SignHeadInv, PathBacked
<1>4. CASE Reopen
  BY <1>4, ReopenInv
<1>5. CASE Read
  <2>1. CASE \E input \in Inputs : MatchesHead(input)
    BY <2>1, MatchesHeadInv
  <2>2. CASE \E limit \in 0..MaxVersions : Log(limit)
    BY <2>2, LogInv
  <2>3. CASE \E v \in 0..MaxVersions : Checkout(v)
    BY <2>3, CheckoutInv
  <2>4. CASE Verify
    BY <2>4, VerifyInv, FormatVersion = 2
  <2> QED BY <1>5, <2>1, <2>2, <2>3, <2>4 DEF Read
<1>6. CASE WalkStep
  BY <1>6, CheckoutStepInv, VerifyStepInv, FormatVersion = 2 DEF WalkStep
<1>7. CASE UNCHANGED vars
  <2>1. UNCHANGED <<store, cache, told>> /\ call' = call
    BY <1>7 DEF vars
  <2>2. committed' = committed /\ endorsed' = endorsed /\ stream' = stream
    BY <2>1 DEF told, store
  <2>3. CallType'
    BY <2>1 DEF IInv, TypeOK, CallType
  <2>4. WalkInv'
    BY <2>1, <2>2 DEF IInv, WalkInv
  <2>5. AnswerInv'
    BY <2>1, <2>2 DEF IInv, AnswerInv, CheckoutAnswers, VerifyAccepts, LogAnswers,
                      MatchesHeadPredicts
  <2> QED BY <2>1, <2>3, <2>4, <2>5, WalkKeeps
<1> QED BY <1>1, <1>2, <1>3, <1>4, <1>5, <1>6, <1>7 DEF Next

\* The inductive invariant of a path-backed v2 store.
THEOREM Invariant ==
  ASSUME PathBacked, FormatVersion = 2
  PROVE  Spec => []IInv
<1>1. Init => IInv
  BY InitInv, FormatVersion = 2
<1>2. IInv /\ [Next]_vars => IInv'
  BY NextInv, PathBacked, FormatVersion = 2
<1> QED BY <1>1, <1>2, PTL DEF Spec

\* Every variable keeps its shape, and every signature is over its block's hash.
THEOREM TypeCorrect ==
  ASSUME PathBacked, FormatVersion = 2
  PROVE  Spec => []TypeOK
<1>1. IInv => TypeOK
  BY DEF IInv
<1> QED BY <1>1, Invariant, PathBacked, FormatVersion = 2, PTL

\* checkout returns what was committed under the version it is asked for.
THEOREM CheckoutCorrect ==
  ASSUME PathBacked, FormatVersion = 2
  PROVE  Spec => []CheckoutAnswers
<1>1. IInv => CheckoutAnswers
  BY DEF IInv, AnswerInv
<1> QED BY <1>1, Invariant, PathBacked, FormatVersion = 2, PTL

\* verify accepts every store the calls can have written.
THEOREM VerifyCorrect ==
  ASSUME PathBacked, FormatVersion = 2
  PROVE  Spec => []VerifyAccepts
<1>1. IInv => VerifyAccepts
  BY DEF IInv, AnswerInv
<1> QED BY <1>1, Invariant, PathBacked, FormatVersion = 2, PTL

\* log lists the newest versions with their metadata and signatures.
THEOREM LogCorrect ==
  ASSUME PathBacked, FormatVersion = 2
  PROVE  Spec => []LogAnswers
<1>1. IInv => LogAnswers
  BY DEF IInv, AnswerInv
<1> QED BY <1>1, Invariant, PathBacked, FormatVersion = 2, PTL

\* matches_head answers whether a commit would store HEAD's content again.
THEOREM MatchesHeadCorrect ==
  ASSUME PathBacked, FormatVersion = 2
  PROVE  Spec => []MatchesHeadPredicts
<1>1. IInv => MatchesHeadPredicts
  BY DEF IInv, AnswerInv
<1> QED BY <1>1, Invariant, PathBacked, FormatVersion = 2, PTL

\* A cached HEAD that is still served is the newest version in the stream.
THEOREM CacheCoherent ==
  ASSUME PathBacked, FormatVersion = 2
  PROVE  Spec => []CacheInv
<1>1. IInv => CacheInv
  BY DEF IInv
<1> QED BY <1>1, Invariant, PathBacked, FormatVersion = 2, PTL

\* No signature a call reported is ever missing from the stream.
THEOREM SignaturesStay ==
  ASSUME PathBacked, FormatVersion = 2
  PROVE  Spec => []SignaturesKept
<1>1. IInv => SignaturesKept
  BY DEF IInv, ChainInv, Linked, SignaturesKept
<1> QED BY <1>1, Invariant, PathBacked, FormatVersion = 2, PTL

-------------------------------------------------------------------------------
(* Reading every version back.  Reconstructed is defined by recursion over    *)
(* the stream; that it is what was committed is shown by induction on how     *)
(* far a version is from HEAD.                                                *)

\* Going back one block from the text of version i + 1 gives the text of version i.
LEMMA OneBlockBack ==
  ASSUME TypeOK, ChainInv, FormatVersion = 2,
         NEW i \in 1..(Len(stream) - 1)
  PROVE  TextBefore(committed[i + 1].text, stream[i]) = committed[i].text
<1>1. i \in DOMAIN stream
  BY DEF TypeOK, IsSequence
<1>2. Linked(i) /\ BlockShape(stream[i])
  BY <1>1 DEF ChainInv, TypeOK
<1>3. CASE IsDelta(stream[i])
  <2>1. /\ stream[i].payload = ReverseDelta(committed[i + 1].text, committed[i].text)
        /\ stream[i].payload \notin Contents
    BY <1>2, <1>3, DeltaAssumption DEF Linked, BlockShape, IsDelta
  <2> QED BY <1>3, <2>1 DEF TextBefore, Applied, ReverseDelta
<1>4. CASE ~IsDelta(stream[i])
  BY <1>2, <1>4 DEF TextBefore, Linked
<1> QED BY <1>3, <1>4

\* The recursive function is the one that gives what was committed.
LEMMA ReconstructedIsCommitted ==
  ASSUME TypeOK, ChainInv, FormatVersion = 2
  PROVE  /\ DOMAIN Reconstructed = 1..Len(stream)
         /\ \A i \in DOMAIN stream : Reconstructed[i] = committed[i].text
<1> DEFINE n == Len(stream)
           back[d \in 0..(n - 1)] ==
             IF d = 0 THEN stream[n].payload ELSE TextBefore(back[d - 1], stream[n - d])
           was == [d \in 0..(n - 1) |-> committed[n - d].text]
<1>1. Reconstructed = [i \in 1..n |-> back[n - i]]
  BY DEF Reconstructed
<1>2. n \in Nat /\ DOMAIN stream = 1..n
  BY DEF TypeOK, IsSequence
<1>3. n > 0 => stream[n].payload = committed[n].text
  BY <1>2 DEF ChainInv, Linked
<1>4. \A d \in 1..(n - 1) : was[d] = TextBefore(was[d - 1], stream[n - d])
  <2> SUFFICES ASSUME NEW d \in 1..(n - 1) PROVE was[d] = TextBefore(was[d - 1], stream[n - d])
    OBVIOUS
  <2>1. n - d \in 1..(n - 1) /\ n - (d - 1) = n - d + 1 /\ d - 1 \in 0..(n - 1) /\ d \in 0..(n - 1)
    BY <1>2
  <2>2. was[d - 1] = committed[n - d + 1].text /\ was[d] = committed[n - d].text
    BY <2>1
  <2> QED BY <2>1, <2>2, OneBlockBack
<1>5. back = [d \in 0..(n - 1) |->
                IF d = 0 THEN stream[n].payload ELSE TextBefore(back[d - 1], stream[n - d])]
  <2>1. \A d \in 0..(n - 1) :
          was[d] = IF d = 0 THEN stream[n].payload ELSE TextBefore(was[d - 1], stream[n - d])
    <3> SUFFICES ASSUME NEW d \in 0..(n - 1)
                 PROVE  was[d] = IF d = 0 THEN stream[n].payload
                                 ELSE TextBefore(was[d - 1], stream[n - d])
      OBVIOUS
    <3>1. CASE d = 0
      <4>1. n > 0 /\ n - 0 = n
        BY <1>2
      <4> QED BY <1>3, <3>1, <4>1
    <3>2. CASE d # 0
      <4>1. d \in 1..(n - 1)
        BY <1>2, <3>2
      <4> HIDE DEF was, n
      <4> QED BY <1>4, <3>2, <4>1
    <3> QED BY <3>1, <3>2
  <2>2. was = [d \in 0..(n - 1) |->
                 IF d = 0 THEN stream[n].payload ELSE TextBefore(was[d - 1], stream[n - d])]
    BY <2>1
  <2> HIDE DEF was
  <2> QED BY <2>2
<1> HIDE DEF back
<1>6. \A d \in 0..(n - 1) : back[d] = committed[n - d].text
  <2> DEFINE S == {d \in 0..(n - 1) : back[d] = was[d]}
  <2>1. CASE n = 0
    BY <1>2, <2>1
  <2>2. CASE n > 0
    <3>1. 0 \in S
      BY <1>2, <1>3, <1>5, <2>2
    <3>2. ASSUME NEW d \in 0..(n - 1 - 1), d \in S PROVE d + 1 \in S
      <4>1. d + 1 \in 1..(n - 1) /\ d + 1 \in 0..(n - 1) /\ d + 1 - 1 = d /\ d + 1 # 0
        BY <1>2, <2>2
      <4>2. back[d + 1] = TextBefore(back[d], stream[n - (d + 1)])
        BY <1>5, <4>1
      <4> HIDE DEF was, n
      <4>3. was[d + 1] = TextBefore(was[d], stream[n - (d + 1)])
        BY <1>4, <4>1
      <4> QED BY <3>2, <4>1, <4>2, <4>3
    <3>3. \A d \in 0..(n - 1) : d \in S
      <4>1. n - 1 \in Nat
        BY <1>2, <2>2
      <4> HIDE DEF S
      <4> QED BY <3>1, <3>2, <4>1, InductionUpTo
    <3> QED BY <3>3
  <2> QED BY <1>2, <2>1, <2>2
<1>7. \A i \in 1..n : n - i \in 0..(n - 1) /\ n - (n - i) = i
  BY <1>2
<1> HIDE DEF n
<1>8. \A i \in 1..n : Reconstructed[i] = committed[i].text
  <2> SUFFICES ASSUME NEW i \in 1..n PROVE Reconstructed[i] = committed[i].text
    OBVIOUS
  <2>1. Reconstructed[i] = back[n - i]
    BY <1>1
  <2>2. back[n - i] = committed[n - (n - i)].text
    BY <1>6, <1>7
  <2> QED BY <1>7, <2>1, <2>2
<1> QED BY <1>1, <1>2, <1>8 DEF n

\* Every version a commit handed out can be reconstructed from the stream, whatever
\* deltas, snapshots and type changes lie between it and HEAD.
THEOREM EveryVersionStays ==
  ASSUME PathBacked, FormatVersion = 2
  PROVE  Spec => []EveryVersionRecoverable
<1>1. IInv => EveryVersionRecoverable
  <2> SUFFICES ASSUME IInv PROVE EveryVersionRecoverable
    OBVIOUS
  <2>1. TypeOK /\ ChainInv
    BY DEF IInv
  <2>2. Len(stream) = Len(committed)
    BY <2>1 DEF ChainInv
  <2>3. ASSUME NEW i \in DOMAIN stream
        PROVE  /\ stream[i].ver = i - 1
               /\ [text |-> Reconstructed[i], meta |-> stream[i].meta] = committed[i]
    <3>1. stream[i].ver = i - 1 /\ stream[i].meta = committed[i].meta
      BY <2>1 DEF ChainInv, Linked
    <3>2. Reconstructed[i] = committed[i].text
      BY <2>1, ReconstructedIsCommitted, FormatVersion = 2
    <3>3. i \in DOMAIN committed
      BY <2>1, <2>2 DEF TypeOK, IsSequence
    <3>4. committed \in Seq([text : Contents, meta : Metas])
      BY <2>1 DEF TypeOK
    <3>5. committed[i] \in [text : Contents, meta : Metas]
      <4>1. i \in 1..Len(committed)
        BY <2>1, <3>3 DEF TypeOK, IsSequence
      <4> QED BY <3>4, <4>1, ElementOfSeq
    <3> QED BY <3>1, <3>2, <3>5
  <2> QED BY <2>2, <2>3 DEF EveryVersionRecoverable
<1> QED BY <1>1, Invariant, PathBacked, FormatVersion = 2, PTL

-------------------------------------------------------------------------------
(* The refinement of VersionHistory: what is read back from the stream is     *)
(* what was committed, so a step of the store is one of the history.          *)

\* The versions and the signatures as they are read back from the stream.
ReadVersions == [i \in DOMAIN stream |-> [text |-> Reconstructed[i], meta |-> stream[i].meta]]

ReadEndorsements == [i \in DOMAIN stream |-> Stamped(stream[i].sigs)]

\* What is read back is what the callers were told.
ReadAsTold == ReadVersions = committed /\ ReadEndorsements = endorsed

\* The invariant makes it so.
LEMMA ReadIsTold ==
  ASSUME IInv, FormatVersion = 2
  PROVE  ReadAsTold
<1>1. /\ TypeOK /\ ChainInv /\ Len(committed) = Len(stream) /\ Len(endorsed) = Len(stream)
      /\ DOMAIN stream = 1..Len(stream) /\ Len(stream) \in Nat
  BY DEF IInv, ChainInv, TypeOK, IsSequence
<1>2. /\ committed \in Seq([text : Contents, meta : Metas])
      /\ endorsed \in Seq([Signers -> Stamps \cup {NoStamp}])
  BY <1>1 DEF TypeOK
<1>3. /\ committed = [i \in 1..Len(committed) |-> committed[i]]
      /\ endorsed = [i \in 1..Len(endorsed) |-> endorsed[i]]
  BY <1>2
<1>4. \A i \in DOMAIN stream :
        [text |-> Reconstructed[i], meta |-> stream[i].meta] = committed[i]
  <2> SUFFICES ASSUME NEW i \in DOMAIN stream
               PROVE  [text |-> Reconstructed[i], meta |-> stream[i].meta] = committed[i]
    OBVIOUS
  <2>1. Reconstructed[i] = committed[i].text
    BY <1>1, ReconstructedIsCommitted
  <2>2. stream[i].meta = committed[i].meta
    BY <1>1 DEF ChainInv, Linked
  <2>3. committed[i] \in [text : Contents, meta : Metas]
    <3>1. i \in 1..Len(committed)
      BY <1>1
    <3> QED BY <1>2, <3>1, ElementOfSeq
  <2> QED BY <2>1, <2>2, <2>3
<1>5. \A i \in DOMAIN stream : Stamped(stream[i].sigs) = endorsed[i]
  BY <1>1 DEF ChainInv, Linked
<1>6. ReadVersions = committed
  BY <1>1, <1>3, <1>4 DEF ReadVersions
<1>7. ReadEndorsements = endorsed
  BY <1>1, <1>3, <1>5 DEF ReadEndorsements
<1> QED BY <1>6, <1>7 DEF ReadAsTold

\* One step of the history on what the callers were told: a version more at the end.
ToldCommit ==
  \E c \in Contents, m \in Metas, e \in [Signers -> Stamps \cup {NoStamp}] :
    /\ committed' = Append(committed, [text |-> c, meta |-> m])
    /\ endorsed' = Append(endorsed, e)

\* ... or the newest one signed, by everyone who had signed it and perhaps others.
ToldSign ==
  \E e \in [Signers -> Stamps \cup {NoStamp}] :
    /\ Len(endorsed) > 0
    /\ {s \in Signers : endorsed[Len(endorsed)][s] # NoStamp} \subseteq {s \in Signers : e[s] # NoStamp}
    /\ endorsed' = [endorsed EXCEPT ![Len(endorsed)] = e]
    /\ committed' = committed

\* Both kinds of commit tell of one more version.
LEMMA CommitTold ==
  ASSUME IInv, PathBacked, FormatVersion = 2, Commit
  PROVE  ToldCommit
<1>1. PICK input \in Inputs, m \in Metas, S \in SUBSET Signers, st \in Stamps :
        \/ FirstCommit(input, m, S, st)
        \/ \E snapshot \in BOOLEAN : NextCommit(input, m, snapshot, S, st)
  BY DEF Commit
<1>2. WithNewline[input] \in Contents
  BY StoreAssumption
<1>3. CASE FirstCommit(input, m, S, st)
  <2> DEFINE new == NewBlock(0, m, WithNewline[input], NoHash, S, st, eof)
  <2>1. Stamped(new.sigs) \in [Signers -> Stamps \cup {NoStamp}]
    <3>1. eof \in Nat
      BY DEF IInv, TypeOK
    <3> QED BY <1>2, <3>1, NewBlockShape
  <2>2. /\ committed' = Append(committed, [text |-> WithNewline[input], meta |-> m])
        /\ endorsed' = Append(endorsed, Stamped(new.sigs))
    BY <1>3 DEF FirstCommit
  <2> HIDE DEF new
  <2> QED BY <1>2, <2>1, <2>2 DEF ToldCommit
<1>4. CASE \E snapshot \in BOOLEAN : NextCommit(input, m, snapshot, S, st)
  <2>1. PICK old, new : CommitStep(input, m, WithNewline[input], old, new)
    BY <1>4, NextCommitStep
  <2>2. /\ committed' = Append(committed, [text |-> WithNewline[input], meta |-> m])
        /\ endorsed' = Append(endorsed, Stamped(new.sigs))
        /\ Stamped(new.sigs) \in [Signers -> Stamps \cup {NoStamp}]
    BY <2>1 DEF CommitStep
  <2> QED BY <1>2, <2>2 DEF ToldCommit
<1> QED BY <1>1, <1>3, <1>4

\* Signing tells of more signatures on the newest version, and of none less.
LEMMA SignTold ==
  ASSUME IInv, NEW S \in SUBSET Signers, NEW st \in Stamps, SignHead(S, st)
  PROVE  ToldSign
<1> DEFINE n == Len(endorsed)
           e == [s \in Signers |-> IF s \in S THEN st ELSE endorsed[n][s]]
<1>1. /\ committed' = committed
      /\ endorsed' = [endorsed EXCEPT ![n] = [s \in Signers |-> IF s \in S THEN st ELSE @[s]]]
      /\ Loaded(FALSE) # NoHead
  BY DEF SignHead
<1>2. stream # <<>> /\ Len(stream) \in DOMAIN stream /\ Len(endorsed) = Len(stream)
  BY <1>1, LoadedHead DEF IInv, ChainInv
<1>3. n > 0 /\ n \in 1..Len(endorsed)
  BY <1>2 DEF IInv, TypeOK, IsSequence
<1>4. endorsed \in Seq([Signers -> Stamps \cup {NoStamp}])
  BY DEF IInv, TypeOK
<1>5. endorsed[n] \in [Signers -> Stamps \cup {NoStamp}]
  BY <1>3, <1>4, ElementOfSeq
<1>6. endorsed' = [endorsed EXCEPT ![n] = e]
  BY <1>1, <1>3, <1>4
<1>7. e \in [Signers -> Stamps \cup {NoStamp}]
  BY <1>5
<1>8. {s \in Signers : endorsed[n][s] # NoStamp} \subseteq {s \in Signers : e[s] # NoStamp}
  BY SignerAssumption
<1> HIDE DEF e
<1> QED BY <1>1, <1>3, <1>6, <1>7, <1>8 DEF ToldSign

\* Every other call leaves what was told alone.
LEMMA NextTold ==
  ASSUME IInv, PathBacked, FormatVersion = 2, [Next]_vars
  PROVE  ToldCommit \/ ToldSign \/ UNCHANGED told
<1>1. CASE Commit
  BY <1>1, CommitTold
<1>2. CASE \E S \in SUBSET Signers, st \in Stamps : SignHead(S, st)
  BY <1>2, SignTold
<1>3. CASE CommitRaises \/ SignHeadRefused \/ Reopen
  BY <1>3 DEF CommitRaises, SignHeadRefused, Reopen
<1>4. CASE Read
  BY <1>4 DEF Read, MatchesHead, Log, Checkout, Verify
<1>5. CASE WalkStep
  BY <1>5 DEF WalkStep, CheckoutStep, VerifyStep
<1>6. CASE UNCHANGED vars
  BY <1>6 DEF vars
<1> QED BY <1>1, <1>2, <1>3, <1>4, <1>5, <1>6 DEF Next

\* The store implements VersionHistory: what can be read back from its stream only
\* grows at the newest end, and of a version only the newest one's signatures change.
THEOREM HistoryImplemented ==
  ASSUME PathBacked, FormatVersion = 2
  PROVE  Spec => ImplementsHistory
<1>1. ASSUME Init PROVE History!Init
  <2>1. stream = <<>> /\ DOMAIN stream = {}
    BY <1>1 DEF Init
  <2> QED BY <2>1 DEF History!Init
<1>2. ASSUME IInv, ReadAsTold, ReadAsTold', [Next]_vars
      PROVE  [History!Next]_<<ReadVersions, ReadEndorsements>>
  <2>1. /\ ReadVersions = committed /\ ReadEndorsements = endorsed
        /\ ReadVersions' = committed' /\ ReadEndorsements' = endorsed'
    BY <1>2 DEF ReadAsTold
  <2>2. CASE ToldCommit
    <3>1. \E c \in Contents, m \in Metas, e \in [Signers -> Stamps \cup {NoStamp}] :
             /\ ReadVersions' = Append(ReadVersions, [text |-> c, meta |-> m])
             /\ ReadEndorsements' = Append(ReadEndorsements, e)
      BY <2>1, <2>2 DEF ToldCommit
    <3> QED BY <3>1 DEF History!Next, History!Commit, History!Endorsement,
                        ReadVersions, ReadEndorsements
  <2>3. CASE ToldSign
    <3>1. \E e \in [Signers -> Stamps \cup {NoStamp}] :
            /\ Len(ReadEndorsements) > 0
            /\ {s \in Signers : ReadEndorsements[Len(ReadEndorsements)][s] # NoStamp}
                 \subseteq {s \in Signers : e[s] # NoStamp}
            /\ ReadEndorsements' = [ReadEndorsements EXCEPT ![Len(ReadEndorsements)] = e]
            /\ ReadVersions' = ReadVersions
      BY <2>1, <2>3 DEF ToldSign
    <3> QED BY <3>1 DEF History!Next, History!Sign, History!SignersOf, History!Endorsement,
                        ReadVersions, ReadEndorsements
  <2>4. CASE UNCHANGED told
    BY <2>1, <2>4 DEF told
  <2> QED BY <1>2, <2>2, <2>3, <2>4, NextTold, PathBacked, FormatVersion = 2
<1>3. IInv => ReadAsTold
  BY ReadIsTold, FormatVersion = 2
<1>4. Spec => []IInv
  BY Invariant, PathBacked, FormatVersion = 2
<1> QED BY <1>1, <1>2, <1>3, <1>4, PTL
        DEF Spec, ImplementsHistory, History!Spec, ReadVersions, ReadEndorsements
===============================================================================
