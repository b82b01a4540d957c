------------------------------- MODULE SimpleRCS -------------------------------
(***************************************************************************)
(* One SimpleRCS instance over one stream: commit, sign_head, the readers  *)
(* (checkout, log, verify, matches_head), the cached HEAD they share, and  *)
(* the reopening of the store by a new instance.  A call runs alone, as    *)
(* the class has no threads; checkout and verify are walks of one step per *)
(* block.  A rewrite of the tail is one step here; AtomicRewrite takes it  *)
(* apart.                                                                  *)
(***************************************************************************)
EXTENDS Blocks

CONSTANTS
  PathBacked,   \* file_path is set and the handle is ours: rewrites rename
  Inputs,       \* what callers pass as content
  WithNewline,  \* _with_trailing_newline, from Inputs to the stored Contents
  MaxVersions,  \* bound: how many versions are committed
  EmptyText,    \* what checkout of an empty store returns
  NotFound      \* checkout raised: no such version

ASSUME StoreAssumption ==
  /\ PathBacked \in BOOLEAN
  /\ Contents \subseteq Inputs
  /\ WithNewline \in [Inputs -> Contents]
  /\ \A c \in Contents : WithNewline[c] = c
  /\ MaxVersions \in Nat
  /\ {EmptyText, NotFound} \cap (Contents \cup Deltas \cup {Corrupt, NoText}) = {}

VARIABLES
  stream,         \* the blocks in the stream, oldest first, each at its offset
  eof,            \* the size of the stream
  head,           \* self.head_info, with the position of its block
  headCacheSize,  \* self._head_cache_size
  headMetaOnly,   \* self._head_meta_only
  call            \* the call that is running, or the last one and its answer

\* History variables: what the calls that returned told their callers.
VARIABLES
  committed,      \* the content and metadata of each version handed out
  endorsed        \* the signatures each version was given

store == <<stream, eof>>
cache == <<head, headCacheSize, headMetaOnly>>
told  == <<committed, endorsed>>
vars  == <<store, cache, call, told>>

Min(a, b) == IF a < b THEN a ELSE b

-------------------------------------------------------------------------------
(* Locating HEAD. *)

\* head_info is None.
NoHead == [at |-> 0, block |-> NoText]

MetaOnly(b) == [b EXCEPT !.payload = NoText]

\* The rightmost block that is not a delta: a demoted block is never HEAD.
HeadAt(s) ==
  CHOOSE i \in DOMAIN s : /\ ~IsDelta(s[i])
                          /\ \A j \in DOMAIN s : j > i => IsDelta(s[j])

\* Taking the last block as it comes.
ScannedUnfiltered(s, metaOnly) ==
  IF s = <<>> THEN NoHead
  ELSE [at |-> Len(s), block |-> IF metaOnly THEN MetaOnly(s[Len(s)]) ELSE s[Len(s)]]

\* The backward scan of _load_head: a candidate that is a delta is rejected.
Scanned(s, metaOnly) ==
  IF \E i \in DOMAIN s : ~IsDelta(s[i])
  THEN [at |-> HeadAt(s),
        block |-> IF metaOnly THEN MetaOnly(s[HeadAt(s)]) ELSE s[HeadAt(s)]]
  ELSE NoHead

\* The cache is keyed on the size of the stream, and a metadata-only head does
\* not serve a caller that needs the text.
CacheHit(metaOnly) ==
  /\ head # NoHead
  /\ eof = headCacheSize
  /\ metaOnly \/ ~headMetaOnly

Loaded(metaOnly) == IF CacheHit(metaOnly) THEN head ELSE Scanned(stream, metaOnly)

\* Loading without a note that only the metadata was read.
LoadHeadUnmarked(metaOnly) ==
  /\ head' = Loaded(metaOnly)
  /\ headCacheSize' = eof
  /\ headMetaOnly' = FALSE

\* _load_head, as every reader calls it.
LoadHead(metaOnly) ==
  /\ head' = Loaded(metaOnly)
  /\ headCacheSize' = eof
  /\ headMetaOnly' = IF CacheHit(metaOnly) \/ Loaded(metaOnly) = NoHead
                     THEN headMetaOnly ELSE metaOnly

-------------------------------------------------------------------------------
(* Calls. *)

\* A call that has answered out (about target).
Answer(op, target, out) ==
  [op |-> op, running |-> FALSE, target |-> target, at |-> 0, cur |-> <<>>, out |-> out]

\* A walk back through history that stands at block `at`, reconstructed in cur.
Walk(op, target, at, cur) ==
  [op |-> op, running |-> TRUE, target |-> target, at |-> at, cur |-> cur,
   out |-> NoText]

Ready == ~call.running

Stamped(sigs) ==
  [s \in Signers |-> sigs[s].stamp]

\* commit() on a store with no HEAD: version 1.0, appended at the end.  The
\* version's number here is its last component.
FirstCommit(input, m, S, st) ==
  LET c == WithNewline[input]
      new == NewBlock(0, m, c, NoHash, S, st, eof)
  IN
  /\ Ready /\ Loaded(FALSE) = NoHead
  /\ stream' = Append(stream, new)
  /\ eof' = eof + BlockLen(new)
  /\ LoadHead(FALSE)
  /\ call' = Answer("commit", input, new.ver)
  /\ committed' = Append(committed, [text |-> c, meta |-> m])
  /\ endorsed' = Append(endorsed, Stamped(new.sigs))

\* The cache key after _rewrite_head, before anything is loaded again: only the
\* rename drops it, the rewrite in place leaves the one _load_head set.
KeyAfterRewriteKept == eof

KeyAfterRewrite == IF PathBacked THEN -1 ELSE eof

\* Linking to what the old HEAD itself is linked to.
LinkToOlder(b) == IF FormatVersion = 1 THEN NoHash ELSE b.prev

\* The link of the new block: the old HEAD's hash, computed if it has none.
LinkTo(b) ==
  IF FormatVersion = 1 THEN NoHash
  ELSE IF b.hash # NoHash THEN b.hash
  ELSE Digest(b.ver, b.meta, b.payload, b.prev)

\* commit() on top of a HEAD: demote it, append the new version, in one write.
\* head_info keeps the HEAD it was made from.
NextCommit(input, m, snapshot, S, st) ==
  LET c == WithNewline[input]
      h == Loaded(FALSE)
      old == Demoted(h.block, c, snapshot)
      end == h.block.start + BlockLen(old)
      new == NewBlock(h.block.ver + 1, m, c, LinkTo(h.block), S, st, end)
  IN
  /\ Ready /\ h # NoHead
  /\ stream' = SubSeq(stream, 1, h.at - 1) \o <<old, new>>
  /\ eof' = end + BlockLen(new)
  /\ head' = h
  /\ headCacheSize' = KeyAfterRewrite
  /\ headMetaOnly' = FALSE
  /\ call' = Answer("commit", input, new.ver)
  /\ committed' = Append(committed, [text |-> c, meta |-> m])
  /\ endorsed' = Append(endorsed, Stamped(new.sigs))

\* A signer callback raises: commit() lets it through, having written nothing.
CommitRaises ==
  /\ Ready /\ FormatVersion = 2
  /\ LoadHead(FALSE)
  /\ call' = Answer("commit", EmptyText, NoText)
  /\ UNCHANGED <<store, told>>

\* sign_head() on an intact HEAD, every callback answering: the block is
\* rewritten with the merged signatures and the HEAD is loaded again.
SignHead(S, st) ==
  LET h == Loaded(FALSE)
      b == [h.block EXCEPT !.sigs = SignedBy(h.block.sigs, S, st, h.block.hash)]
  IN
  /\ Ready /\ FormatVersion = 2
  /\ h # NoHead /\ h.block.hash = Digest(h.block.ver, h.block.meta, h.block.payload, h.block.prev)
  /\ stream' = SubSeq(stream, 1, h.at - 1) \o <<b>>
  /\ eof' = h.block.start + BlockLen(b)
  /\ head' = IF eof' = KeyAfterRewrite THEN h ELSE Scanned(stream', FALSE)
  /\ headCacheSize' = eof'
  /\ headMetaOnly' = FALSE
  /\ call' = Answer("sign_head", S, TRUE)
  /\ endorsed' = [endorsed EXCEPT ![Len(endorsed)] =
                    [s \in Signers |-> IF s \in S THEN st ELSE @[s]]]
  /\ UNCHANGED committed

\* sign_head() answers False: a v1 store (before anything is read), no HEAD, or
\* a callback that raises.  Nothing is written.
SignHeadRefused ==
  /\ Ready
  /\ IF FormatVersion = 1 THEN UNCHANGED cache ELSE LoadHead(FALSE)
  /\ call' = Answer("sign_head", {}, FALSE)
  /\ UNCHANGED <<store, told>>

\* A new instance over the same bytes: the constructor scans for HEAD.
Reopen ==
  /\ Ready
  /\ head' = Scanned(stream, FALSE)
  /\ headCacheSize' = eof
  /\ headMetaOnly' = FALSE
  /\ call' = Answer("open", EmptyText, NoText)
  /\ UNCHANGED <<store, told>>

\* Comparing what the caller passed as it is, without commit()'s newline rule.
MatchesHeadVerbatim(input) ==
  /\ Ready
  /\ LoadHead(FALSE)
  /\ call' = Answer("matches_head", input,
                    /\ Loaded(FALSE) # NoHead
                    /\ input = Loaded(FALSE).block.payload)
  /\ UNCHANGED <<store, told>>

MatchesHead(input) ==
  /\ Ready
  /\ LoadHead(FALSE)
  /\ call' = Answer("matches_head", input,
                    /\ Loaded(FALSE) # NoHead
                    /\ WithNewline[input] = Loaded(FALSE).block.payload)
  /\ UNCHANGED <<store, told>>

\* log(limit): newest first, from the metadata alone; limit 0 is no limit.
LogEntry(b) == [ver |-> b.ver, meta |-> b.meta, sigs |-> Stamped(b.sigs)]

\* Stopping only when the limit is exceeded.
EntriesPast(limit, available) ==
  IF limit = 0 THEN available ELSE Min(limit + 1, available)

Entries(limit, available) ==
  IF limit = 0 THEN available ELSE Min(limit, available)

Log(limit) ==
  LET h == Loaded(TRUE)
      n == Entries(limit, h.at)
  IN
  /\ Ready
  /\ LoadHead(TRUE)
  /\ call' = Answer("log", limit,
               IF h = NoHead THEN <<>>
               ELSE [k \in 1..n |-> IF k = 1 THEN LogEntry(h.block)
                                    ELSE LogEntry(stream[h.at + 1 - k])])
  /\ UNCHANGED <<store, told>>

\* checkout(v), the part before the loop: no HEAD, HEAD itself, or a walk.
Checkout(v) ==
  LET h == Loaded(FALSE) IN
  /\ Ready
  /\ LoadHead(FALSE)
  /\ call' = IF h = NoHead THEN Answer("checkout", v, EmptyText)
             ELSE IF h.block.ver = v THEN Answer("checkout", v, h.block.payload)
             ELSE Walk("checkout", v, h.at, h.block)
  /\ UNCHANGED <<store, told>>

\* The block before the one the walk stands at, with its full text.
Before(at, cur) ==
  [stream[at - 1] EXCEPT !.payload = TextBefore(cur.payload, stream[at - 1])]

\* A loop that forgets to move on to the previous block.
CheckoutStepStuck ==
  LET v == call.target
      prev == Before(call.at, call.cur)
  IN
  /\ call.running /\ call.op = "checkout"
  /\ call' = IF call.at = 1 THEN Answer("checkout", v, NotFound)
             ELSE IF prev.ver = v THEN Answer("checkout", v, prev.payload)
             ELSE call
  /\ UNCHANGED <<store, cache, told>>

\* One turn of checkout()'s loop.
CheckoutStep ==
  LET v == call.target
      prev == Before(call.at, call.cur)
  IN
  /\ call.running /\ call.op = "checkout"
  /\ call' = IF call.at = 1 THEN Answer("checkout", v, NotFound)
             ELSE IF prev.payload = Corrupt THEN Answer("checkout", v, Corrupt)
             ELSE IF prev.ver = v THEN Answer("checkout", v, prev.payload)
             ELSE Walk("checkout", v, call.at - 1, prev)
  /\ UNCHANGED <<store, cache, told>>

\* verify() with verifiers for every signer: the part before the loop.
Verify ==
  LET h == Loaded(FALSE) IN
  /\ Ready
  /\ IF FormatVersion = 1 THEN UNCHANGED cache ELSE LoadHead(FALSE)
  /\ call' = IF FormatVersion = 1 \/ h = NoHead THEN Answer("verify", 0, TRUE)
             ELSE Walk("verify", 0, h.at, h.block)
  /\ UNCHANGED <<store, told>>

\* One turn of verify()'s loop: the block itself, then its link to the previous.
VerifyStep ==
  LET prev == Before(call.at, call.cur) IN
  /\ call.running /\ call.op = "verify"
  /\ call' = IF ~Intact(call.cur) THEN Answer("verify", 0, FALSE)
             ELSE IF call.at = 1 THEN Answer("verify", 0, TRUE)
             ELSE IF prev.payload = Corrupt \/ call.cur.prev # prev.hash
                  THEN Answer("verify", 0, FALSE)
             ELSE Walk("verify", 0, call.at - 1, prev)
  /\ UNCHANGED <<store, cache, told>>

-------------------------------------------------------------------------------

Init ==
  /\ stream = <<>>
  /\ eof = DataStart
  /\ head = NoHead
  /\ headCacheSize = DataStart
  /\ headMetaOnly = FALSE
  /\ call = Answer("open", EmptyText, NoText)
  /\ committed = <<>>
  /\ endorsed = <<>>

Commit ==
  /\ Len(committed) < MaxVersions
  /\ \E input \in Inputs, m \in Metas, S \in SUBSET Signers, st \in Stamps :
       \/ FirstCommit(input, m, S, st)
       \/ \E snapshot \in BOOLEAN : NextCommit(input, m, snapshot, S, st)

Read ==
  \/ \E input \in Inputs : MatchesHead(input)
  \/ \E limit \in 0..MaxVersions : Log(limit)
  \/ \E v \in 0..MaxVersions : Checkout(v)
  \/ Verify

WalkStep == CheckoutStep \/ VerifyStep

Next ==
  \/ Commit
  \/ CommitRaises
  \/ \E S \in SUBSET Signers, st \in Stamps : SignHead(S, st)
  \/ SignHeadRefused
  \/ Reopen
  \/ Read
  \/ WalkStep

\* A call that is running keeps running until it returns.
Fairness == WF_vars(WalkStep)

Spec == Init /\ [][Next]_vars /\ Fairness

-------------------------------------------------------------------------------
(* Properties. *)

Ops == {"open", "commit", "sign_head", "matches_head", "log", "checkout", "verify"}

IsSequence(s) == s \in Seq({s[i] : i \in DOMAIN s})

\* Every variable has its shape, and every signature in the stream is over the
\* hash of the block it stands in.
TypeOK ==
  /\ IsSequence(stream)
  /\ \A i \in DOMAIN stream : BlockShape(stream[i])
  /\ eof \in Nat
  /\ head # NoHead => head \in [at : DOMAIN stream, block : {head.block}]
  /\ headCacheSize \in Nat \cup {-1}
  /\ headMetaOnly \in BOOLEAN
  /\ call \in [op : Ops, running : BOOLEAN, target : {call.target}, at : Nat,
               cur : {call.cur}, out : {call.out}]
  /\ committed \in Seq([text : Contents, meta : Metas])
  /\ endorsed \in Seq([Signers -> Stamps \cup {NoStamp}])

\* The full text of every version, as a walk back from the last block gives it.
Reconstructed ==
  LET n == Len(stream)
      back[d \in 0..(n - 1)] ==
        IF d = 0 THEN stream[n].payload ELSE TextBefore(back[d - 1], stream[n - d])
  IN  [i \in 1..n |-> back[n - i]]

\* Every version a commit handed out can be reconstructed from the stream, to the
\* content and metadata that were committed, under its own number -- through any
\* mix of deltas, snapshots and type changes (commit's demotion of the old HEAD).
EveryVersionRecoverable ==
  /\ Len(stream) = Len(committed)
  /\ \A i \in DOMAIN stream :
       /\ stream[i].ver = i - 1
       /\ [text |-> Reconstructed[i], meta |-> stream[i].meta] = committed[i]

\* What checkout returns for a version is what was committed under it, and it
\* raises "not found" for exactly the numbers no commit returned.
CheckoutAnswers ==
  (call.op = "checkout" /\ ~call.running) =>
    call.out = IF call.target < Len(committed) THEN committed[call.target + 1].text
               ELSE IF committed = <<>> THEN EmptyText ELSE NotFound

\* verify() accepts every store this instance can have written: no legal sequence
\* of commits, signatures and cached reads breaks a hash, a link or a signature.
VerifyAccepts ==
  (call.op = "verify" /\ ~call.running) => call.out = TRUE

\* No signature a call reported is missing from the stream: re-signing keeps the
\* other signers, and demoting a signed HEAD keeps its signatures.
SignaturesKept ==
  /\ Len(endorsed) = Len(stream)
  /\ \A i \in DOMAIN stream : Stamped(stream[i].sigs) = endorsed[i]

\* log() lists the newest versions in order with the metadata and signatures they
\* were given, whichever kind of head was cached before.
LogAnswers ==
  call.op = "log" =>
    LET n == IF call.target = 0 THEN Len(committed) ELSE Min(call.target, Len(committed))
    IN  /\ Len(call.out) = n
        /\ \A k \in 1..n :
             LET i == Len(committed) + 1 - k IN
             call.out[k] = [ver |-> i - 1, meta |-> committed[i].meta, sigs |-> endorsed[i]]

\* matches_head() predicts commit(): it answers True exactly when committing the
\* same input would store the content HEAD already has.
MatchesHeadPredicts ==
  call.op = "matches_head" =>
    call.out = /\ committed # <<>>
               /\ committed[Len(committed)].text = WithNewline[call.target]

\* After sign_head() answers True, head_info carries the signatures now in the
\* stream ("Refresh head_info so instance state reflects new signatures").
HeadReflectsSignatures ==
  (call.op = "sign_head" /\ call.out = TRUE) =>
    head.block.sigs = stream[Len(stream)].sigs

\* A cached HEAD whose key is the size of the stream is the newest version as it
\* stands in the stream, signatures included, whatever calls filled the cache.
CacheInv ==
  \/ head = NoHead
  \/ headCacheSize # eof
  \/ /\ head.at = Len(stream) /\ stream # <<>>
     /\ head.block = IF headMetaOnly THEN MetaOnly(stream[Len(stream)])
                     ELSE stream[Len(stream)]

History == INSTANCE VersionHistory WITH
  Unsigned <- NoStamp,
  versions <- [i \in DOMAIN stream |-> [text |-> Reconstructed[i], meta |-> stream[i].meta]],
  endorsements <- [i \in DOMAIN stream |-> Stamped(stream[i].sigs)]

\* What can be read back from the stream only ever changes as VersionHistory
\* allows: no call alters, drops or reorders a version it did not add.
ImplementsHistory == History!Spec

\* checkout and verify end, for any target and any history.
CallsReturn == call.running ~> ~call.running

-------------------------------------------------------------------------------
(* Why the properties above hold for a path-backed v2 store: the invariant    *)
(* that every call preserves.                                                 *)

\* Block i is version i - 1, linked to the block before it, and holds either the
\* content that was committed or the delta to it from the next version's.
Linked(i) ==
  LET b == stream[i] IN
  /\ b.ver = i - 1
  /\ b.meta = committed[i].meta
  /\ b.prev = IF i = 1 THEN NoHash ELSE stream[i - 1].hash
  /\ b.hash = Digest(b.ver, b.meta, committed[i].text, b.prev)
  /\ Stamped(b.sigs) = endorsed[i]
  /\ IF IsDelta(b)
     THEN /\ i < Len(stream)
          /\ b.payload = ReverseDelta(committed[i + 1].text, committed[i].text)
     ELSE b.payload = committed[i].text

ChainInv ==
  /\ Len(committed) = Len(stream) /\ Len(endorsed) = Len(stream)
  /\ \A i \in DOMAIN stream : Linked(i)

\* A walk stands at a block with the text that was committed there, and has not
\* passed the version it looks for.
WalkInv ==
  /\ call.op \in {"checkout", "log"} => call.target \in Nat
  /\ call.op = "matches_head" => call.target \in Inputs
  /\ call.running =>
       /\ call.op \in {"checkout", "verify"}
       /\ call.at \in DOMAIN stream
       /\ call.cur = [stream[call.at] EXCEPT !.payload = committed[call.at].text]
       /\ call.op = "checkout" => call.target \notin (call.at - 1)..(Len(stream) - 1)

AnswerInv == CheckoutAnswers /\ VerifyAccepts /\ LogAnswers /\ MatchesHeadPredicts

\* The inductive invariant: the shape of the stream, the cache, a running walk
\* and the last answer, together, are kept by every call.
IInv == TypeOK /\ ChainInv /\ CacheInv /\ WalkInv /\ AnswerInv
===============================================================================
