-------------------------------- MODULE Blocks --------------------------------
(***************************************************************************)
(* The blocks of a SimpleRCS stream and the pure functions on them: what a *)
(* block holds, the v2 hash chain, reverse deltas, and how the newest      *)
(* block is demoted when a version is committed on top of it.              *)
(*                                                                         *)
(* Contents, metadata, signers and time stamps are opaque values.  A       *)
(* reverse delta is the pair of contents it was made from: applying it to  *)
(* the content it was made against gives the older one back, applying it   *)
(* to anything else does not.  A hash is the record of what was hashed.    *)
(***************************************************************************)
EXTENDS Integers, Sequences, FiniteSets

CONSTANTS
  Texts,          \* str contents, in the stored form (ending in a newline)
  Binaries,       \* bytes contents
  Metas,          \* what date, author and log hold together
  Signers,        \* signer ids
  Stamps,         \* the times a signature can carry
  FormatVersion,  \* self._version: 1 or 2
  ContentLen,     \* the encoded length of each content
  PatchLen,       \* the encoded length of a binary patch
  NoText,         \* the content field a metadata-only parse leaves out
  NoStamp,        \* when a signer who has not signed did so
  Corrupt         \* what reconstructing from a delta that does not fit gives

Contents == Texts \cup Binaries

ASSUME ContentAssumption ==
  /\ Texts \cap Binaries = {}
  /\ NoText \notin Contents
  /\ Corrupt \notin Contents
  /\ Corrupt # NoText
  /\ Metas # {}

ASSUME FormatAssumption ==
  /\ FormatVersion \in {1, 2}
  /\ ContentLen \in [Contents -> Nat]
  /\ PatchLen \in Nat

ASSUME SignerAssumption ==
  /\ IsFiniteSet(Signers)
  /\ NoStamp \notin Stamps

-------------------------------------------------------------------------------
(* What a block holds. *)

Forms == {"text", "binary", "delta"}

\* The key a full content is written under: `text @...@;` or `binary @...@;`.
FullForm(c) == IF c \in Binaries THEN "binary" ELSE "text"

\* A reverse delta: instructions that turn the newer content into the older one.
Deltas == [new : Contents, old : Contents]

ReverseDelta(new, old) == [new |-> new, old |-> old]

ASSUME DeltaAssumption == Deltas \cap Contents = {}

\* An absent hash or prev_hash field.
NoHash == <<>>

\* codec.calculate_block_hash: the hash covers ver, date|author|log, the full
\* text and the previous hash, never the stored delta and never a signature.
Digest(v, m, c, prev) == <<v, m, c, prev>>

Unsigned == [stamp |-> NoStamp, over |-> NoHash]

NoSigs == [s \in Signers |-> Unsigned]

\* Signing before the hash is known.
SignedTooSoon(sigs, S, st, h) ==
  [s \in Signers |-> IF s \in S THEN [stamp |-> st, over |-> NoHash] ELSE sigs[s]]

\* Keeping only the new signatures.
SignedReplacing(sigs, S, st, h) ==
  [s \in Signers |-> IF s \in S THEN [stamp |-> st, over |-> h] ELSE Unsigned]

\* A signature is made over "<time stamp>|<hash>"; the newest one by a signer
\* replaces the older ones (sig_map in sign_head).
SignedBy(sigs, S, st, h) ==
  [s \in Signers |-> IF s \in S THEN [stamp |-> st, over |-> h] ELSE sigs[s]]

\* The shape of a block.  Hashes are recursive, so a block is typed with its own.
BlockShape(b) ==
  /\ (b.form = "delta") <=> (b.payload \in Deltas)
  /\ b \in [ver : Nat, start : Nat, meta : Metas, form : Forms,
            payload : Contents \cup Deltas,
            hash : {b.hash}, prev : {b.prev},
            sigs : [Signers -> {Unsigned} \cup [stamp : Stamps, over : {b.hash}]]]

IsDelta(b) == b.form = "delta"

\* The block a commit writes for the new version: always the full content.
NewBlock(v, m, c, prev, S, st, start) ==
  LET h == IF FormatVersion = 2 THEN Digest(v, m, c, prev) ELSE NoHash
  IN  [ver |-> v, start |-> start, meta |-> m, form |-> FullForm(c), payload |-> c,
       hash |-> h,
       prev |-> IF FormatVersion = 2 THEN prev ELSE NoHash,
       sigs |-> IF FormatVersion = 2 THEN SignedBy(NoSigs, S, st, h) ELSE NoSigs]

\* Demoting with the delta generated in the wrong direction.
DemotedForward(b, c, snapshot) ==
  IF snapshot \/ (c \in Binaries) # (b.form = "binary")
  THEN b
  ELSE [b EXCEPT !.form = "delta", !.payload = ReverseDelta(b.payload, c)]

\* Demoting the old HEAD under new content c: kept as it is for a snapshot or
\* when the type changes, else replaced by a reverse delta.  Its hash, its link
\* and its signatures are carried over untouched.
Demoted(b, c, snapshot) ==
  IF snapshot \/ (c \in Binaries) # (b.form = "binary")
  THEN b
  ELSE [b EXCEPT !.form = "delta", !.payload = ReverseDelta(c, b.payload)]

-------------------------------------------------------------------------------
(* Reading blocks back. *)

\* _apply_reverse_delta.  A full text read as an edit script holds no command,
\* so the current text comes back unchanged; bytes read as one raise.
Applied(cur, payload) ==
  IF payload \in Contents
  THEN IF payload \in Texts /\ cur \in Texts THEN cur ELSE Corrupt
  ELSE IF payload.new = cur THEN payload.old ELSE Corrupt

\* Applying every block's payload, a snapshot's too, as a delta.
TextBeforeNoSnapshot(cur, b) == Applied(cur, b.payload)

\* The text of the version before one whose text is cur.  _get_prev_block calls
\* every block it returns from a v1 stream a delta; a v2 block says what it is.
TextBefore(cur, b) ==
  IF FormatVersion = 1 \/ IsDelta(b) THEN Applied(cur, b.payload) ELSE b.payload

\* Passing over a block that has no hash.
IntactIfHashed(b) ==
  b.hash = NoHash \/ b.hash = Digest(b.ver, b.meta, b.payload, b.prev)

\* What verify() asks of one block whose full text is b.payload.
Intact(b) ==
  /\ b.hash # NoHash
  /\ b.hash = Digest(b.ver, b.meta, b.payload, b.prev)
  /\ \A s \in Signers : b.sigs[s] # Unsigned => b.sigs[s].over = b.hash

-------------------------------------------------------------------------------
(* Lengths, for the cache that is keyed on the size of the stream. *)

\* A text delta carries at least the lines the new text lacks; a compressed
\* binary patch can be shorter than either content.
DeltaLen(d) ==
  IF d.old \in Binaries
  THEN PatchLen
  ELSE 1 + (IF ContentLen[d.old] > ContentLen[d.new]
            THEN ContentLen[d.old] - ContentLen[d.new] ELSE 0)

BlockLen(b) ==
  1 + (IF IsDelta(b) THEN DeltaLen(b.payload) ELSE ContentLen[b.payload])
    + Cardinality({s \in Signers : b.sigs[s] # Unsigned})

\* Where the first block begins: after the v2 header line, or at offset 0.
DataStart == IF FormatVersion = 2 THEN 1 ELSE 0
===============================================================================
