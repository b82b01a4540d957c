# SimpleRCS in TLA+

Models of SimpleRCS, a version control system for a single document: one
stream holds every version, the newest (HEAD) as full text at the end, each older
one as a reverse delta from its successor. The modules are checked with TLC on
small instances, and the central invariants are proved with TLAPS for every value
of the constants. Paths below are relative to the repository; `simple_rcs.py` is
`src/simple_rcs/simple_rcs.py`.

## The system

| Component | State it keeps | Operations | What makes it correct |
| --- | --- | --- | --- |
| Store (`SimpleRCS` in `simple_rcs.py`) | the stream; `head_info`, `_head_cache_size`, `_head_meta_only` | `commit`, `sign_head`, `checkout`, `log`, `verify`, `matches_head`, `diff`, `blame` | every version comes back as committed, under its number; readers agree; the cached HEAD is never stale |
| Blocks and hash chain (`_format_block`, `codec.py`) | a block: version, metadata, content or delta, hash, link, signatures | format, parse, hash | demoting a block keeps its hash, link and signatures valid |
| Path-backed writes (`_atomic_rewrite_head`, first commit) | the file, a temp file, the open stream | mkstemp, copy, fsync, rename, reopen | an interrupted commit costs the commit, never the history |
| In-place writes (`_rewrite_head_in_place`) | the caller's stream | seek, write, truncate | damage by an interrupted write is reported, deltas are not served as text |
| Scanner and parsers (`_load_head`, `_get_prev_block`, `_parse_block_*`) | none | locate and parse a block from the right | finds exactly the blocks that were written; the parsers agree |
| Text delta (`_generate_reverse_delta`, `_apply_reverse_delta`) | none | write, read and apply an edit script | applying the delta to the newer text gives the older |
| Matchers (`matchers.py`, `pydifflib.py`, `myersdiff*.py`, the `.pyx` twins) | cursors, frontiers, boxes, a rolling window | `get_opcodes` | opcodes cover both texts in order, and equal ranges are equal; they end |
| Binary delta (`pybsdiff.py`) | the tuple being gathered, the blocks, the seek positions | `diff`, `_optimize_patch`, `patch` | `patch(a, diff(a, b)) = b` |
| Signatures (`simple_rcs_gpg.py`) | none | sign and verify callbacks | the store keeps and checks what they return |
| Adapters, git patches, function names, colour, tools, scripts | none that matters to the store | I/O and formatting | not modelled |

The components meet in a call of the store. A writer first loads HEAD (a scan, or
the cache while the size of the stream is unchanged), then builds the demoted
block and the new one in memory, then rewrites the tail: by renaming a new file
over the path when the instance opened a path, in place otherwise. A reader walks
back from HEAD, one block per step, applying deltas. There are no threads and no
lock: calls of one instance run one after the other, and what can come between
two steps is a failing system call, the end of the process, a power cut, or
another process with the same path.

What is hard here, and where it bites, is listed in `PROJECT.json` under
"hazards": a cache whose key does not change when the content does, histories
that mix deltas, snapshots and type changes, a writer that dies between two
steps, edit scripts whose commands shift the lines under each other, and two
notions of what a line is, values made of the very bytes a block is delimited with,
and searches whose correctness hangs on indices that are off by one.

## The modules

- `Blocks`: blocks and the pure functions on them. Contents, metadata, signers
  and time stamps are opaque; a hash is the record of what was hashed, so equal
  hashes mean equal inputs; a delta is the pair of contents it was made from and
  restores the older only when applied to the newer.
- `SimpleRCS`: one instance over one stream, on top of `Blocks`. `stream` is the
  list of blocks with their offsets, `eof` its size (with lengths that let a
  rewrite leave the size unchanged, which the cache depends on), `head`,
  `headCacheSize` and `headMetaOnly` are the fields of the class, `call` is the
  running call or the last answer. `commit`, `sign_head`, `matches_head`, `log`
  and the constructor are one step each: nothing can come between their parts.
  `checkout` and `verify` are a step for the part before the loop and one for
  each turn. A signer that raises, and a `sign_head` that answers False, are
  actions. `committed` and `endorsed` record what callers were told.
  `PathBacked` and `FormatVersion` choose the kind of store.
- `VersionHistory`: what a store promises: a list that grows at its newest end,
  where only the newest version can still gain or renew signatures. `SimpleRCS`
  implements it through the text of every version as a walk reconstructs it.
- `AtomicRewrite`: how a path-backed store writes, one system call per step: the
  first commit, which goes through the stream's buffer to the live file, and the
  rewrite beside the file. Every call can fail, the process can be killed and the
  power cut anywhere. `live` is what a reader of the path sees, `stable` the set
  of what a power cut can leave there. The file is abstracted to the number of
  updates in it.
- `DurableLog`: what the path promises: updates appear whole and one at a time,
  and only a crash takes some away, never one that was promised as durable.
  `AtomicRewrite` implements it.
- `TornTail`: `SimpleRCS` with a commit or a `sign_head` cut short while it writes
  into the live stream, and a new instance over what is left. A cut is told apart
  by what still parses: content missing, hash missing, a mixture of the new bytes and
  the old HEAD behind them, or a signature half replaced.
- `TextDelta`: writing and applying the edit script between two texts. The
  matcher is its contract, any opcodes that cover both texts in order, merged or
  not; the generator emits commands per opcode, the reader takes one header per
  step and applies one command per step in the order of the sort. A text is a
  sequence of the generator's lines, each made of the parts `str.splitlines` sees.
- `Blame`: `blame()` over the deltas of `TextDelta`. HEAD and the versions before it
  are any texts; each delta is written by `TextDelta`, and its script is then read
  and ordered by the code `blame` has for it (another reader, another sort than
  `checkout`'s) and applied to `tracker`, the list of lines that are still
  followed. The walk may stop at any block: the first version, the depth the
  caller gave, or a block taken for a binary one.
- `BlockScan`: how blocks are found in the stream. Streams are sequences of tokens,
  the marker `ver @` being two of them; `_load_head` reads chunks backwards from the
  end and `_get_prev_block` from a block, with their own overlaps, and both hand
  candidates to a parser. `ParseMetadata` and `ParseContent` are the parser that
  skips the content and the one that reads it. The stream is two blocks with any of
  a set of values, whole or cut short.
- `Opcodes`: what a matcher says, and what makes it legal, complete and minimal.
- `GreedyMatcher` (`StreamSequenceMatcher`, the fallback backend), `MyersMatcher`,
  `DmpMatcher`, `SesMatcher`, `DifflibMatcher`: the matchers of lines, one module
  each. Recursion in the code is a list of work in the module, so that every
  box, and every step of a search in it, is a state.
- `ChunkMatcher`, `RollingMatcher`: the two matchers of bytes, one by chunks whose
  replaced ranges are compared again byte by byte, one by a rolling checksum.
- `BinaryDelta`: `pybsdiff.diff` gathers tuples from opcodes, `_optimize_patch`
  moves overlaps between them, offsets are written and read in `OffWidth` bytes, and
  `patch` follows them. It is fed by either of the two byte matchers.
- `DiffEngines`: the composition. One engine is chosen and given any two short
  sequences; the engines for bytes are followed by `BinaryDelta`.
- `SimpleRCSProofs`, `AtomicRewriteProofs`, `TornTailProofs`, `BlameProofs` (text deltas
  and blame), `DiffEnginesProofs`, `BinaryDeltaProofs`: the theorems. Two modules hold the
  lemmas they share: `Numbers` (induction, least elements, running sums, remainders, and
  the elements of sequences that are cut or put together) and `OpcodesProofs` (lists of
  opcodes, runs of equals, edits and the least number of them, and two searches from the
  two ends).
- `MCSimpleRCS`, `MCAtomicRewrite`, `MCTornTail`, `MCTextDelta`, `MCBlame`,
  `MCBlockScan`: values for TLC.

## The runs

| Run | What it shows |
| --- | --- |
| `StorePath` | A path-backed v2 store of up to three versions over two texts and a binary: every version stays recoverable through any mix of deltas, snapshots and type changes; `checkout`, `verify`, `log` and `matches_head` answer what they should; the abstract history is implemented; walks end. |
| `StoreSigning` | Two signers with two time stamps on two versions: signatures are kept, and the cache is right although signing again keeps the size. |
| `StoreStream` | Refuted: "Refresh head_info so instance state reflects new signatures" after an in-place `sign_head`. |
| `StoreV1` | Refuted: `checkout` of a snapshot, or of the block a type change leaves, in a v1 stream. |
| `Rewrite` | The atomic rewrite with up to three updates, two faults and two crashes, all files of one size: durable promises hold, the stream is the file at the path, no temp file stays, `DurableLog` is implemented. |
| `TornReads` | After a cut: HEAD is never a delta, a whole HEAD answers for the history up to it, `verify` tells a HEAD with a damaged content, hash or signature from a whole one, and a `sign_head` that was cut costs no version. |
| `TornVerify` | Refuted: an interrupted tail rewrite is what `verify` reports. When no HEAD can be located it answers True. |
| `DeltaLf` | For all pairs of texts of up to three `\n`-ended lines, all opcodes and both encoders, the script restores the older text and no script is refused; and over up to two such deltas `blame` follows every line of HEAD to its place in each older version and answers for all of them. |
| `DeltaEndings` | Refuted: the same with `\r\n` and with boundaries only `str.splitlines` knows. |
| `BlockScan` | With values made of the tokens a block is written with, at any position relative to the chunks, the backward walk finds every block and only blocks, with the values that were written; over a stream that lost its end no block begins where none was; the two parsers agree; the scan ends. |
| `DiffEngines` | For all pairs of short sequences: the opcodes of the greedy, Myers, bisecting and chunk matchers are true of both sides and in order at every step, those of all engines except the rolling one cover both sides in the end, Myers and the bisection say as few edits as there can be; the rolling window is that of the bytes under it and its copies are true; a binary patch from either byte matcher restores the bytes; every engine ends. |
| `SesBackend` | Refuted: backends give "equally valid" opcodes. The linear-space engine (`ses_py`, and `ses_cython` with the same base case) calls lines equal that are not. |

The five refuted statements are in `PROJECT.json` under "findings", with the lines
they are quoted from. Each of them can be reproduced with the library itself:
`commit("a\r\nb\r\n")`, `commit("a\r\n")`, `checkout("1.0")` gives `"a\r\nb\n"`. With `SIMPLE_RCS_MATCHER=ses_py`,
`commit("b\nb\na\na\na\n")`, `commit("a\na\nb\n")`, `checkout("1.0")` gives
`"b\nb\na\nb\na\n"`.

### Bounds

- Three versions are enough for a walk that crosses a delta and a snapshot in
  either order and for a type change in both directions; version numbers are the
  last component only (`1.9` goes to `1.10`).
- Two signers suffice to lose one's signature while the other signs. Two stamps
  make signing again change a block without changing its length.
- In `Rewrite` all files have one size, the worst case for a cache keyed on it.
  Two faults reach the failure of a reopening after a failed rename; two crashes
  reach a power cut after a kill. `CHECK_DEADLOCK FALSE`: the bounded crashes end,
  and a file torn by a first commit is left to `TornTail`.
- `TornTail` follows a history up to its first cut and the reads after it, so its
  behaviours end when the version bound is reached without a cut; hence
  `CHECK_DEADLOCK FALSE` there as well. A reconstruction in `TextDelta` ends too.
- Texts of three lines over a blank line, a plain one and one that reads `d1 1`
  cover adjacent opcodes, several insertions at one anchor, a replacement at
  every position, payloads that end in blank lines or read as commands. For `Blame`
  two deltas are walked, with six lines in the three texts together: a line can
  survive one delta and be deleted by the next, and ghosts can lie between lines
  that are followed.
- `DiffEngines` takes all pairs of sequences of up to five entries of two kinds. The
  thresholds of the code (chunk size, least match, anchors, windows, popular lines,
  the longest extension) are constants and are scaled down with the sequences, so
  that each is reached, exceeded and missed by one. Offsets take two bytes of
  four values each, enough for the sign bit and a carry.
- `BlockScan` has chunks of four tokens and overlaps of two, so that a marker can be
  split over chunks in every way, and texts of up to two of the tokens that delimit
  a block, alone or after a blank line. Pairs of values that spell out a whole block
  between them are excluded by name (`NoPhantom`): the code takes them for a block.
- `CHECK_DEADLOCK FALSE` in `DeltaLf`, `DiffEngines`, `SesBackend` and `BlockScan`:
  they are computations that return.

### Fairness

`SimpleRCS!Spec` assumes weak fairness of `WalkStep`: a call that runs keeps
running until it returns, since nothing in the loop waits for anyone. No other
action is fair: whether anybody calls, crashes or fails is open. `DiffEngines` and
`BlockScan` assume weak fairness of `Next` for the same reason: a matcher or a scan
is sequential code that waits for nobody and goes on while it can. The other models
assume none.

## What is proved

Each theorem holds for every value of the constants, under the hypotheses it
states; no other assumption is made than the named ones on the constants, which TLC
evaluates. Where a statement rests on a function defined by recursion (what a
walk reconstructs, a running sum), the induction is over natural numbers and is
made once, in `Numbers`, from the fact that a set of naturals has a least member.

**The store.** `SimpleRCSProofs` proves, for every set of contents, metadata, signers
and stamps, every length function and any number of versions, under `PathBacked`
and `FormatVersion = 2`, that `Spec` implies `[]IInv`, and from it type correctness
and the answers of `checkout`, `verify`, `log` and `matches_head`, the coherence of
the cache, and that signatures stay. What readers return is not inductive: it
depends on where the walk stands and on what the cache holds. `IInv` adds

- `ChainInv`: block `i` is version `i - 1`, linked to the hash of block `i - 1`,
  and holds the committed content or the delta to it from the next version's;
- `CacheInv`: a HEAD whose key equals the size is the last block as it stands;
- `WalkInv`: a walk stands at a block with the text that was committed there and
  has not passed its target.

The proof has one step per action, and under it one per conjunct. The two
hypotheses are needed: `StoreStream` and `StoreV1` refute the conclusions without
them. `EveryVersionStays` follows `ChainInv` down the recursion by which a walk
rebuilds a text, and `HistoryImplemented` shows from it that each step is a commit, a
signature on the newest version, or a stutter of `VersionHistory`.

**The atomic rewrite.** `AtomicRewriteProofs` proves `Spec => []IInv` for any bounds and
any sizes, from it that durable promises survive (`DurableSurvives`), that the stream
and the cached HEAD are the file at the path (`PathServed`), that no temp file stays
(`TempRemoved`), and that the rewrite implements `DurableLog` (`RefinesLog`).
`BufferInv` says that only an unacknowledged first commit is ever in a buffer or
torn; `RewriteInv` that the payload is made from what the path holds until it is
installed, and that the cached HEAD is one update behind from then until its key
is dropped; `StableInv` bounds what a power cut can bring back.

**A cut write.** `TornTailProofs` proves the three properties of `TornReads` for any
history and any cut. Before the cut `TornInv` is the invariant of the store with the
layout of the stream; after it, that what is left of the older blocks is as it was,
and what a mixture of the new bytes and the old HEAD can look like. The theorems
assume a v2 store and `PathBacked \/ PatchesResize`: `PatchesResize` says that a
binary commit made in place does not leave the stream exactly as long as it was ("Ordinary
commits change the size", `test_atomic_commit.py`). A patch and the new content may
well be shorter than the old content; a text commit always makes the stream longer. When
the sizes are equal the cached HEAD is stale, and the next commit builds on the block
that was replaced (`simple_rcs.py`, `_load_head`; the first of the hazards). The code does
not exclude it, and the contents of `TornReads` never come to it.

**A text delta.** `BlameProofs` proves that the generator's script is never refused
(`NoScriptRefused`), that a command finds the lines it names where the newer text
has them (`LinesStayNamed`), both for texts whose lines hold no boundary of
`str.splitlines` but their own (`MaxParts = 1`), and that the script restores the older
text (`DeltaRoundTrip`) if lines end in `\n` too: the condition of the run `DeltaLf`,
without which `DeltaEndings` refutes it. The invariant lays the commands along a
trace, an alternation of equal ranges and changes that both texts follow; the
script is that trace written down, the reader gets it back although payload
lines may read as commands, and since the sort applies the last command first, the
text in hand is always the newer one up to a place of the trace and the older one
from there on.

**Blame.** It proves that after each delta the tracker is the older version
line for line (`TrackerIsMirror`), and that `blame()` has an answer for each line of
HEAD when it stops (`LinesAnswered`), for any number of deltas, with `MaxParts = 1`.
`BlameInv` says where between two versions the tracker is (`Track`) and that a line is
followed if and only if it has no answer yet. `blame` sorts insertions at one line
the other way round than `checkout`, so that it is not at a place of the trace
between them; since the lines they insert are followed by nobody, a group of
insertions is shown to lead to the same tracker in any order.

**The matchers.** `OpcodesProofs` begins with what becomes of a list of opcodes when a
matcher says one more: `SayOne`, and from it `SayChange`, `SayMatch` and `SayEqual`, for
any two sequences. That opcodes are legal does not say where the next one must
begin; the invariants of `DiffEnginesProofs` add `SaidUpTo(ops, a, b, x, y)`: what has been said ends at
`(x, y)`. For the greedy matcher that is where the cursors stand, and `GreedyExact`
follows from the compared bytes (`MatchesExactly`) and their bounds. For Myers' own search (`MyersOpcodesLegal`,
`MyersOpcodesCover`, `FrontierHolds`) `MyersInv` says of the places of a row that each is
where the history kept with it leads (`LedTo`: one edit after another, a run of equals
before the first and after each), and that it passes the end of a sequence only if
the place beside it does (`Row`), so that no place passes the end of both. The
frontier is one entry short, for the last diagonal of the last row. By then the
diagonal on which both sequences end has been visited, with as many deletions as the
first one is long, unless the two diagonals are the same: the second one is empty.

**As few edits as there can be.** `EditsAreLeast` is `LeastEditsFound`: for Myers' search,
whose docstring claims it, and for the bisecting one, whose docstring does not;
`MyersLeastEdits` is the first half alone.
`LeastEdits` is the last value of a recurrence over both sequences (`EditDistances`), and
what it gives is induction over the grid of its places (`GridInduction`), stated without
an operator parameter as induction on a sum. From it: neighbours differ by at most one
(`LeastNear`), nothing is lost by following a run of equals (`LeastSlides`), and the number
has the parity of the diagonal, between its ends (`LeastDeletes`). `FrontAt(x, z, r, s, t)`
says that on diagonal `z` exactly the places up to `x` are within `r` edits. The search
keeps it for each place it has visited, of this row and the last (`FurthestFront`, by
`FrontBetween` and `FrontFurther`), and with it that a history holds as many edits as its
row says: `MyersLeast`. So the row in which the end is reached is the least number
(`RowTooShort` for the rows before it), and the replay says each edit of the history
once, as it says a range as the sum of its lengths (`EditsOfChange`).

For the bisecting matcher a box is *on the way* when the least number at its end is the
one at its beginning and what the box itself takes (`OnWay`); `AllOnWay` says it of
every box still to do. Trimmed
ends and the shorter text found within the longer cost nothing
(`TrimOnWay`, `WithinOnWay`), and a single line that does not occur in the other text
has nothing alike in it (`NothingAlike`). What a search knows is that each of its places is the furthest its
edits lead (`BisectsLeast`), the backward one over the reversed box, where the number of
edits is the same (`LeastBackwards`). Two facts make the meeting place right: as long as
the two have not met, all of their edits are needed (`Needed`), because the shortest
way would pass both of their rows on one diagonal (`LeastPasses`, `LeastMeets`); so the
first place where they do meet splits the least number in two (`FrontsMeet`, `Halfway`,
`SplitOnWay`). The parity of the difference in length decides which of the two can meet
the other, as it does in the code (`OddTurn`, `EvenTurn`). When they never meet, all of
both is needed (`AllNeeded`), which is what the code falls back to. `DmpLeast` carries this
to the merged opcodes.

**The bisecting matcher.** `DmpInv` says that the boxes still to do tile what is left of
the two sequences (`Tiles`, theorem `BoxesAlwaysTile`) and that what has been said
leads to the first of them; `DmpOpcodesLegal` and `DmpOpcodesCover` follow. The hard
step is that a box is split inside itself: the place where the two searches meet is
one of the forward row on its diagonal, and nothing in the code compares it with
the ends of the box. That needs what a search knows of itself and of the other
(`Bisects`): each of its places lies as the places of a Myers row do (`RowSoFar`) and is
as deep as its deletions (`Deep`), nothing is written beyond the row (`Blank`), and
on no diagonal have the two met before (`Apart`). A place beyond an end of the
box, which a row does contain, would have met the other search one row ago
(`AheadInside`, `BehindInside`). Once the pieces are put back for the box, what is
merged into the opcodes is treated as the chunks are (`Remains`).

**difflib's algorithm.** `DifflibInv` has one statement for each of its three phases. While
regions are looked at, regions and matches all lie one before another in both
texts (`Waiting`, `Found`, `Clear`): a match is a run within its region, however it
grows at its ends (`LongestIsRun`, `RunGrows`), and what is left of the region before
and after it takes the region's place (`LookedAt`). The matches are sorted by where they
begin in the old text alone; because they lie apart, the first one there is before
all others in the new text too (`CollapsedOne`), so that those that are in line lead
to those that are not (`InLine`). Then what has been said leads to the runs ahead
(`RunsAhead`, `SayRun`). `DifflibOpcodesLegal` and `DifflibOpcodesCover` follow.

**The matchers of bytes.** `BinaryDeltaProofs` continues with these. For the rolling matcher
the circular buffer and the rolled checksum are those of the bytes under the window
(`WindowStaysFresh`), for any modulus and window length, and every copy is true and
begins where the copies and skips before it lead (`CopiesRight`): `RollingInv` has
the two sums of the checksum as running sums over the window, and shows what dropping
the oldest byte and adding the next does to each. For the chunk matcher `ChunkInv`
follows the walk over chunks (the greedy invariant once more, over sequences of
chunks), then how its opcodes are emitted: what has been said in bytes ends where
the chunks that remain begin (`Remains`), and within a block that is refined, where
its cursors stand. That equal chunks are equal bytes although the last one may be
short is `ChunksMatch`. From it `ChunkOpcodesLegal` and `ChunkOpcodesCover`: the two
invariants `OpcodesLegal` and `OpcodesCover` as far as they are about this engine.
Those of the other engines are in `DiffEnginesProofs`, one by one; of the linear-space
one it is not so (`SesBackend`).

**The binary delta.** `BinaryDeltaProofs` proves `patch(a, diff(a, b)) = b` for every two
files whose length an offset can hold (`OffsetAssumption`), whichever of the two
matchers was used (`PatchIsRight`), and that the tuples account for every byte of
their blocks and of the new file (`TuplesAccount`). A list of tuples leads a reader
from place to place in four files at once: the diff block, the extra block, the old
and the new bytes. `Writes(o, s, t, x, y, x2, y2)` says that there are such places
between the tuples of `o`, from `(x, y)` to `(x2, y2)`, and that each tuple makes from
the bytes at its place what the new file has there (`TupleRight`). `DeltaInv` has one
such statement for each phase: what `diff()` has gathered leads to where the next
opcode begins, which for the rolling matcher is where its copies and skips lead and
not the end of the last opcode; what the optimiser has written leads to where what
it has still to read begins; what `patch()` has made is how the new file begins, and
the rest of the patch makes the rest. A merge moves bytes from the extra block
to the diff block and the places between two tuples stay where they were
(`MergeMakes`). `OffsetBack` is about the encoding: sign and magnitude, low byte first,
with the sign in the high bit of the last byte, read back from the top; it needs the
magnitude to stay below that bit. `DeltaInv` is inductive only together with `RollingInv`
and `ChunkInv`, from which the opcodes come.

**Only model-checked.** The liveness properties `CallsReturn`, `EnginesEnd` and `WalkEnds`,
which the prover cannot do. Not proved yet: `OpcodesCover` for the edit scripts, whose
searches share one array and read what those of other boxes left there;
`ParsersAgree`, `StartsAreBlocks` and `WalkExact` of `BlockScan`.

## What the models leave out

- Contents in `SimpleRCS` are values whose deltas restore what they were made
  from. `TextDelta` establishes that for texts whose only line boundary is `\n`,
  and refutes it for others; `BinaryDelta` establishes it for binary contents.
- Hashes do not collide and signers are honest; nobody else writes the stream. Two
  instances over one path, which have no lock between them, are not composed.
- In `SimpleRCS` and `TornTail` the scan finds the blocks that were written, which
  `BlockScan` checks for format v2. `BlockScan` leaves out binary fields with a
  length prefix and how the bytes of a content are put together from chunks.
- In `AtomicRewrite`, closing a stream, unlinking and opening a directory succeed.
  `durable=False` withdraws the promise at the rename, as the docstring allows.
- In `TornTail` all signatures of a signer have one length, so that a half-written one
  spoils no other. Left out are signatures added before the cut other than by the
  commits, a commit after the cut, and a `checkout` over a HEAD that is not whole: it
  applies deltas to a text they were not made against, with a result that depends on
  their line numbers.
  A mixture whose content does not decode is no HEAD at all.
- In `TextDelta`, a lone `\r` is left out (the matchers disagree on whether it ends
  a line), and lines with equal CRC-32 are equal.
- `Blame` walks over text deltas. A snapshot on the way is read as a script all the
  same (`simple_rcs.py`, `blame`). A text delta that holds `;base64,` is taken for a
  binary one, and the walk stops: with that text in a line that changed, `blame` of
  an unchanged store answers with a version one too old. Both are hazards in
  `PROJECT.json`; the model lets the walk stop at any block instead.
- Of the matchers: the stream twins of the Myers classes, which index lines and call
  the same search; the chunk mode of `StreamTextSequenceMatcher`; the choice of a
  backend at import; the `.pyx` files, which are the same code in another language
  and no part of the map. `MyersMatcher` is the reference implementation, which no
  setting selects; with an empty second sequence it raises `IndexError`, and
  `FrontierInRange` says that it does so only then.
- `bz2` gives back what it was given.
- `diff()` is two checkouts and `difflib`. Stream adapters, git patches, function
  names, colour, the command-line tools and benchmarks keep no state the store
  depends on; what they would need is a model of formatting or of a file system
  call per line. See "components" in `PROJECT.json`.

## Plan

What is left, in this order.

1. Theorem: that the opcodes of `SesMatcher` cover both texts.
2. `BlockScan`: that the parsers agree, for any values.
3. `BlockScan` over a stream that lost its oldest blocks, against `verify`.
4. Two instances over one path, and check-then-act in `srcs_commit.py`.
