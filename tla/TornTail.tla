------------------------------- MODULE TornTail -------------------------------
(***************************************************************************)
(* A call that is cut short while it writes into the live stream: the      *)
(* first commit of any store, and every later commit and sign_head of a    *)
(* store that has no path to rename over (_rewrite_head_in_place).  What a *)
(* new instance over the bytes that are left finds, and what its readers   *)
(* answer.                                                                 *)
(*                                                                         *)
(* A cut is told apart by what still parses.  Only the reads that follow   *)
(* are modelled; checkout only where the HEAD found is whole, since over   *)
(* any other it applies deltas to a text they were not made against, with  *)
(* a result that depends on their line numbers.                            *)
(***************************************************************************)
EXTENDS SimpleRCS

VARIABLE cut   \* a commit or a sign_head was cut short

tornVars == <<vars, cut>>

-------------------------------------------------------------------------------
(* What still parses of a block. *)

\* The cut is before the end of the content: the parsers keep the metadata, and
\* the fields that would have followed are missing.
Textless(b) ==
  [b EXCEPT !.form = "text", !.payload = NoText, !.hash = NoHash, !.prev = NoHash,
            !.sigs = NoSigs]

\* The cut is after the content and before the hash.
Unhashed(b) == [b EXCEPT !.hash = NoHash, !.sigs = NoSigs]

\* The cut is in the content, and what is left of the old HEAD behind it ends the
\* field: a mixture of the two.
Mixed(b, hash) == [b EXCEPT !.payload = Corrupt, !.hash = hash, !.sigs = NoSigs]

\* What the tail can be when the rewrite of HEAD b by old and new is cut short.
\* The metadata of old is that of b byte for byte: rewriting it changes nothing.
TornTails(b, old, new) ==
  {<<b>>, <<old>>, <<old, Textless(new)>>, <<old, Mixed(new, b.hash)>>,
   <<old, Unhashed(new)>>, <<old, new>>}
    \cup (IF old = b THEN {} ELSE {<<Textless(b)>>, <<Mixed(old, b.hash)>>})

\* The first commit is appended: nothing is left behind the cut.
TornAppends(new) == {<<>>, <<Textless(new)>>, <<Unhashed(new)>>, <<new>>}

\* An entry that begins with the new signature and ends with the one it replaces.
Garbled(st) == [stamp |-> st, over |-> NoHash]

\* What the signatures can be when the rewrite for the signers S is cut short.  They
\* are last in a block and the entries of a signer have one length, so all before
\* them, and all that is not written yet, is as it was; an entry that none was in
\* the place of before is not closed and is not read.
TornSigs(sigs, S, st, h) ==
  UNION {LET some == SignedBy(sigs, N, st, h) IN
           {some} \cup {[some EXCEPT ![s] = Garbled(st)] :
                         s \in {t \in S \ N : sigs[t] \notin {Unsigned, [stamp |-> st, over |-> h]}}}
         : N \in SUBSET S}

-------------------------------------------------------------------------------

\* The bytes that are left are opened again by a new instance, which scans for HEAD.
Recovered(prefix, tails) ==
  /\ \E tail \in tails : stream' = prefix \o tail
  /\ head' = Scanned(stream', FALSE)
  /\ headCacheSize' = eof /\ headMetaOnly' = FALSE
  /\ call' = Answer("open", EmptyText, NoText)
  /\ cut' = TRUE
  /\ UNCHANGED eof

\* The commit is recorded with the others, at the number it would have returned.
CutCommit(input, m, snapshot) ==
  LET c == WithNewline[input]
      h == Loaded(FALSE)
      old == Demoted(h.block, c, snapshot)
      new == IF h = NoHead THEN NewBlock(0, m, c, NoHash, {}, NoStamp, eof)
             ELSE NewBlock(h.block.ver + 1, m, c, LinkTo(h.block), {}, NoStamp, eof)
  IN
  /\ ~cut /\ Ready
  /\ h = NoHead \/ ~PathBacked
  /\ IF h = NoHead THEN Recovered(stream, TornAppends(new))
     ELSE Recovered(SubSeq(stream, 1, h.at - 1), TornTails(h.block, old, new))
  /\ committed' = Append(committed, [text |-> c, meta |-> m])
  /\ endorsed' = Append(endorsed, Stamped(NoSigs))

\* The caller of sign_head was told nothing.
CutSign(S, st) ==
  LET h == Loaded(FALSE)
      torn == TornSigs(h.block.sigs, S, st, h.block.hash)
  IN
  /\ ~cut /\ Ready /\ ~PathBacked /\ FormatVersion = 2
  /\ h # NoHead /\ h.block.hash = Digest(h.block.ver, h.block.meta, h.block.payload, h.block.prev)
  /\ Recovered(SubSeq(stream, 1, h.at - 1), {<<[h.block EXCEPT !.sigs = sigs]>> : sigs \in torn})
  /\ UNCHANGED told

\* The HEAD that was found is the version as it was committed.
WholeHead ==
  /\ head # NoHead
  /\ head.block.payload = committed[head.at].text
  /\ head.block.hash = Digest(head.block.ver, head.block.meta, committed[head.at].text,
                              head.block.prev)

\* Each signature on HEAD is one that its signer made over that HEAD.
SignaturesWhole ==
  \A s \in Signers : LET sig == head.block.sigs[s] IN
    sig # Unsigned => sig.over = head.block.hash

TornInit == Init /\ cut = FALSE

TornNext ==
  \/ ~cut /\ Commit /\ UNCHANGED cut
  \/ /\ Len(committed) < MaxVersions
     /\ \E input \in Inputs, m \in Metas, snapshot \in BOOLEAN :
          CutCommit(input, m, snapshot)
  \/ \E S \in SUBSET Signers, st \in Stamps : CutSign(S, st)
  \/ /\ cut /\ (head = NoHead \/ WholeHead)
     /\ \E v \in 0..MaxVersions : Checkout(v)
     /\ UNCHANGED cut
  \/ cut /\ Verify /\ UNCHANGED cut
  \/ WalkStep /\ UNCHANGED cut

TornSpec == TornInit /\ [][TornNext]_tornVars

-------------------------------------------------------------------------------
(* Properties. *)

\* After a cut, a HEAD that is whole answers for all of the history up to it: the
\* versions it covers read back as they were committed, the later ones are not
\* found -- also when an older snapshot is HEAD again because the newer are lost.
\* A sign_head that was cut short costs no version at all.
ReadsWhatIsLeft ==
  (cut /\ call.op = "checkout" /\ ~call.running) =>
    call.out = IF head = NoHead THEN EmptyText
               ELSE IF call.target <= head.block.ver THEN committed[call.target + 1].text
               ELSE NotFound

\* Whatever a cut leaves, no read returns a delta as though it were content: a
\* demoted block is never taken for HEAD.
DeltaNeverServed ==
  /\ head # NoHead => ~IsDelta(head.block)
  /\ (call.op = "checkout" /\ ~call.running) => call.out \notin Deltas

\* verify() tells a damaged HEAD from a whole one, wherever the cut was: in the
\* content, in what follows it, or in a signature that replaced another.
VerifyJudgesHead ==
  (cut /\ call.op = "verify" /\ ~call.running /\ head # NoHead) =>
    call.out = (WholeHead /\ SignaturesWhole)

\* A commit "interrupted partway through the tail rewrite" is "exactly the damage
\* verify() exists to report": a yes means the versions committed are still there.
VerifyReportsLostHead ==
  (cut /\ call.op = "verify" /\ call.out = TRUE) =>
    (Len(committed) > 1 => head # NoHead)

-------------------------------------------------------------------------------
(* Why the properties hold for a v2 store: the invariant every step keeps.     *)

\* "Ordinary commits change the size" (test_atomic_commit.py), of a binary commit too: a
\* patch to the old content, with the new content and its signatures on top, does not take
\* as many bytes as the old content did.  Of a text commit it is so in any case.
PatchesResize ==
  \A old, new \in Binaries, signed \in 0..Cardinality(Signers) :
    ContentLen[old] # (1 + PatchLen) + (ContentLen[new] + signed)

\* Before the cut only commits have run, and the last block ends the stream.
UncutInv ==
  /\ IInv
  /\ call.op \in {"open", "commit"} /\ ~call.running
  /\ head # NoHead => ~IsDelta(head.block)
  /\ stream # <<>> => LET b == stream[Len(stream)] IN
                        /\ eof = b.start + BlockLen(b)
                        /\ b.form = FullForm(b.payload)

\* The block is as it was committed, and follows the one before it.
Whole(i) ==
  LET b == stream[i] IN
  /\ b.payload = committed[i].text
  /\ b.hash = Digest(b.ver, b.meta, b.payload, b.prev)
  /\ b.prev = IF i = 1 THEN NoHash ELSE stream[i - 1].hash
  /\ b = [b EXCEPT !.payload = b.payload]

\* Its hash is missing, or that of something else.
Damaged(b) == b.hash # Digest(b.ver, b.meta, b.payload, b.prev)

\* What is left: the HEAD that the scan finds is whole or damaged, and the chain
\* that leads to it is as it was.
LeftInv ==
  /\ IsSequence(stream)
  /\ head = Scanned(stream, FALSE) /\ headCacheSize = eof /\ ~headMetaOnly
  /\ Len(stream) <= Len(committed)
  /\ committed \in Seq([text : Contents, meta : Metas])
  /\ head # NoHead =>
       /\ head.at \in DOMAIN stream /\ head.block = stream[head.at]
       /\ ~IsDelta(head.block) /\ head.block.ver = head.at - 1
       /\ \A i \in 1..(head.at - 1) : BlockShape(stream[i]) /\ Linked(i)
       /\ Whole(head.at) \/ Damaged(head.block)

\* A walk has the text that was committed, except at a HEAD that verify still doubts.
LeftWalkInv ==
  /\ call.op = "checkout" => call.target \in Nat
  /\ call.running =>
       /\ call.op \in {"checkout", "verify"}
       /\ head # NoHead /\ call.at \in 1..head.at
       /\ call.at = head.at => call.cur = head.block
       /\ call.at < head.at \/ call.op = "checkout" =>
            /\ WholeHead
            /\ call.cur = [stream[call.at] EXCEPT !.payload = committed[call.at].text]
       /\ call.at < head.at /\ call.op = "verify" => SignaturesWhole
       /\ call.op = "checkout" => call.target \notin (call.at - 1)..(head.at - 1)

TornInv ==
  /\ cut \in BOOLEAN
  /\ ~cut => UncutInv
  /\ cut => LeftInv /\ LeftWalkInv
  /\ ReadsWhatIsLeft /\ DeltaNeverServed /\ VerifyJudgesHead
===============================================================================
