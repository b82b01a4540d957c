------------------------------- MODULE BlockScan --------------------------------
(***************************************************************************)
(* How blocks are found again in a stream of bytes: _load_head reads       *)
(* chunks backwards from the end, _get_prev_block backwards from a block,  *)
(* both look for the marker "ver @" where a block can begin, and both      *)
(* parse what they find.  A store whose values hold whatever a block is    *)
(* written with must still be read as it was written, and a stream that    *)
(* lost its end must not be read as something nobody wrote.                *)
(*                                                                         *)
(* A stream is a sequence of tokens: a keyword with the space after it,    *)
(* "@", ";", "nl", and others that stand for themselves.  So the marker is *)
(* two tokens, and a chunk can end between them.  Format v2.               *)
(***************************************************************************)
EXTENDS Integers, Sequences, SequencesExt

CONSTANTS
  Texts,       \* the texts of HEAD that are tried
  Payloads,    \* what the block before it holds if it is a delta
  Snapshots,   \* and if it is a snapshot
  Logs,        \* the log message of HEAD
  PrevLogs,    \* that of the other one
  ChunkSizes,  \* the sizes of chunks that are tried: 4096 bytes
  PrevOverlap, \* how much further _get_prev_block reads: 100 bytes
  Cuts, Kept   \* how much of HEAD a torn stream has lost, or has kept

ASSUME ScanAssumption ==
  /\ ChunkSizes \subseteq Nat \ {0}
  /\ PrevOverlap \in Nat /\ Cuts \subseteq Nat /\ Kept \subseteq Nat

VARIABLES
  written,   \* the two blocks: [log, key, text]
  stream,    \* what is left of them in the file
  chunkSize,
  full,      \* not metadata_only: the contents are parsed as well
  end,       \* where the block that is looked for must end
  pos,       \* scan_pos: the chunk being searched begins here
  bufEnd,    \* where what has been read with it ends
  limit,     \* search_limit, as an offset of the stream
  found,     \* the blocks that were found: [start, end, says]
  pc         \* "head", "prev", "done"

vars == <<written, stream, chunkSize, full, end, pos, bufEnd, limit, found, pc>>

-------------------------------------------------------------------------------
(* _format_block and codec.escape. *)

Escape(value) ==
  FlattenSeq([n \in DOMAIN value |-> IF value[n] = "@" THEN <<"@", "@">> ELSE <<value[n]>>])

Field(key, value) == <<key, "@">> \o Escape(value) \o <<"@", ";", "nl">>

\* The hash, in hexadecimal, comes last.
Format(version, block) ==
  Field("ver", <<version>>) \o Field("log", block.log) \o Field(block.key, block.text)
    \o Field("hash", <<"x">>) \o <<"nl">>

\* The header line.
Header    == <<"# v2", "nl">>
DataStart == Len(Header)

First  == Format("1", written[1])
Second == Format("2", written[2])

\* Where the two blocks begin.
Starts == <<DataStart, DataStart + Len(First)>>

\* What a block says, by key.
Said(n) ==
  [key \in {"ver", "log", "hash", written[n].key} |->
     CASE key = "ver"  -> <<IF n = 1 THEN "1" ELSE "2">>
       [] key = "log"  -> written[n].log
       [] key = "hash" -> <<"x">>
       [] OTHER -> written[n].text]

-------------------------------------------------------------------------------
(* The parsers read the stream from token p, counting from 1, to token e. *)

Keywords == {"ver", "log", "text", "delta", "hash"}

IsToken(p, e, t) == p <= e /\ stream[p] = t

SkipSpace(p, e) ==
  LET from[q \in p..(e + 2)] == IF IsToken(q, e, "nl") THEN from[q + 1] ELSE q
  IN from[p]

\* Where the "@" is that closes the value from p on; e + 1 if there is none.
Close(p, e) ==
  LET from[q \in p..(e + 2)] ==
        IF q > e THEN e + 1
        ELSE IF stream[q] # "@" THEN from[q + 1]
        ELSE IF IsToken(q + 1, e, "@") THEN from[q + 2] ELSE q
  IN from[p]

\* After the last doubled "@" from p on: from there on nothing of an unclosed value is
\* read.
LastDoubled(p, e) ==
  LET from[q \in p..(e + 2), last \in p..(e + 2)] ==
        IF q > e THEN last
        ELSE IF stream[q] = "@" THEN from[q + 2, q + 2] ELSE from[q + 1, last]
  IN from[p, p]

\* What is stored, without the "@"s that escape others.
Unescape(s) ==
  LET from[q \in 1..(Len(s) + 2)] ==
        IF q > Len(s) THEN <<>>
        ELSE <<s[q]>> \o from[IF s[q] = "@" THEN q + 2 ELSE q + 1]
  IN from[1]

\* A field from k on whose "@" is at o: its value, and where to look for the ";".
FieldAt(k, o, e) ==
  LET c == Close(o + 1, e)
      last == LastDoubled(o + 1, e)
  IN IF c <= e
     THEN [key |-> stream[k], value |-> Unescape(SubSeq(stream, o + 1, c - 1)), next |-> c + 1,
           closed |-> TRUE]
     ELSE [key |-> stream[k], value |-> Unescape(SubSeq(stream, o + 1, last - 1)), next |-> last,
           closed |-> FALSE]

\* Mutant: the metadata parser takes a field that no ";" ends.
CompleteUnended(field, e, strict) ==
  IF strict THEN field.closed ELSE IsToken(SkipSpace(field.next, e), e, ";")

Complete(field, e, strict) ==
  /\ strict => field.closed
  /\ IsToken(SkipSpace(field.next, e), e, ";")

\* The fields from p on: up to what is no field, is not ended by ";", or begins the
\* next block.  The metadata parser takes a keyword and its "@" from one line, and no
\* value that is not closed; the contents parser is less strict in both.
Fields(p, e, strict) ==
  LET from[q \in p..(e + 2)] ==
        LET k == SkipSpace(q, e)
            o == IF strict THEN k + 1 ELSE SkipSpace(k + 1, e)
            field == FieldAt(k, o, e)
        IN IF /\ k <= e /\ stream[k] \in Keywords /\ (stream[k] = "ver" => k = p)
              /\ IsToken(o, e, "@")
              /\ Complete(field, e, strict)
           THEN <<field>> \o from[SkipSpace(field.next, e) + 1] ELSE <<>>
  IN from[p]

MetaFields(p, e) == Fields(p, e, TRUE)
DataFields(p, e) == Fields(p, e, FALSE)

\* What a parser returns, by key: of a key that was read twice the last.
Parsed(fields) ==
  [key \in {fields[n].key : n \in DOMAIN fields} |->
     fields[SelectLastInSeq(fields, LAMBDA f : f.key = key)].value]

\* is_delta, as the last field with contents has it.
IsDelta(fields) ==
  LET n == SelectLastInSeq(fields, LAMBDA f : f.key \in {"text", "delta"})
  IN n > 0 /\ fields[n].key = "delta"

-------------------------------------------------------------------------------
(* The scanners.  Offsets count from 0. *)

Smaller(m, n) == IF m < n THEN m ELSE n

\* Mutant: a marker may be split between two chunks.
NoOverlap == 0

\* _SCAN_OVERLAP: one less than the marker.
Overlap == 1

IsMarker(p) == stream[p + 1] = "ver" /\ stream[p + 2] = "@"

\* Mutant: whatever run of "@" follows.
IsBoundaryAnyRun(p) ==
  \/ p = DataStart
  \/ p >= 2 /\ stream[p - 1] = "nl" /\ stream[p] = "nl"

\* _is_block_boundary: a blank line before the marker, and a single "@" in it.
IsBoundary(p) ==
  \/ p = DataStart
  \/ /\ p >= 2 /\ stream[p - 1] = "nl" /\ stream[p] = "nl"
     /\ ~IsToken(p + 3, Len(stream), "@")

\* _scan_for_block: the last place before the limit where a block may begin.
Candidates ==
  {p \in pos..(Smaller(limit, bufEnd) - 2) : IsMarker(p) /\ IsBoundary(p)}

IsCandidate(p) == p \in Candidates /\ \A q \in Candidates : q <= p

\* _resolve_block: the contents are parsed only if the metadata can be; and no delta
\* is a HEAD.
FieldsAt(p) ==
  {IF meta = <<>> \/ ~full THEN meta ELSE DataFields(p + 1, end) : meta \in {MetaFields(p + 1, end)}}

Rejected(fields) == fields = <<>> \/ (pc = "head" /\ IsDelta(fields))

\* The next chunk to the left, with a little of the one to its right.
ReadChunk ==
  /\ pc # "done" /\ Candidates = {} /\ pos > 0
  /\ pos' = pos - Smaller(chunkSize, pos)
  /\ IF pc = "head"
     THEN bufEnd' = Smaller(pos + Overlap, Len(stream)) /\ limit' = bufEnd'
     ELSE bufEnd' = Smaller(pos + PrevOverlap, Len(stream)) /\ limit' = end
  /\ UNCHANGED <<written, stream, chunkSize, full, end, found, pc>>

\* Mutant: the candidate stays within the limit.
RejectAndKeep ==
  /\ pc # "done"
  /\ \E p \in Candidates : IsCandidate(p) /\ (\E fields \in FieldsAt(p) : Rejected(fields))
                            /\ limit' = p + 2
  /\ UNCHANGED <<written, stream, chunkSize, full, end, pos, bufEnd, found, pc>>

\* What looked like a block is none; the search goes on to its left.
Reject ==
  /\ pc # "done"
  /\ \E p \in Candidates : IsCandidate(p) /\ (\E fields \in FieldsAt(p) : Rejected(fields))
                            /\ limit' = p
  /\ UNCHANGED <<written, stream, chunkSize, full, end, pos, bufEnd, found, pc>>

\* A block; the one before it is looked for next.
Accept ==
  /\ pc # "done"
  /\ \E p \in Candidates :
       \E fields \in FieldsAt(p) :
         /\ IsCandidate(p) /\ ~Rejected(fields)
         /\ found' = Append(found, [start |-> p, end |-> end, says |-> Parsed(fields)])
         /\ end' = p /\ pos' = p /\ bufEnd' = p /\ limit' = p
  /\ pc' = "prev"
  /\ UNCHANGED <<written, stream, chunkSize, full>>

Exhausted ==
  /\ pc # "done" /\ Candidates = {} /\ pos = 0
  /\ pc' = "done"
  /\ UNCHANGED <<written, stream, chunkSize, full, end, pos, bufEnd, limit, found>>

Init ==
  /\ \E p \in [log : PrevLogs, key : {"delta"}, text : Payloads]
             \cup [log : PrevLogs, key : {"text"}, text : Snapshots],
        h \in [log : Logs, key : {"text"}, text : Texts] :
       written = <<p, h>>
  /\ \E left \in {Len(Second) - cut : cut \in Cuts} \cup Kept :
       stream = Header \o First \o SubSeq(Second, 1, left)
  /\ chunkSize \in ChunkSizes /\ full \in BOOLEAN
  /\ end = Len(stream) /\ pos = end /\ bufEnd = end /\ limit = end
  /\ found = <<>> /\ pc = "head"

Next == ReadChunk \/ Reject \/ Accept \/ Exhausted

Spec == Init /\ [][Next]_vars /\ WF_vars(Next)

-------------------------------------------------------------------------------
(* Properties. *)

\* From r on a text has only line ends before a ";", as if a value had ended before r.
Ends(text, r) ==
  \E q \in r..Len(text) : text[q] = ";" /\ \A m \in r..(q - 1) : text[m] = "nl"

\* A value that ends in a blank line and "ver ", and after it a text of which only "@"s
\* precede such an end: between them they are a block with a version of their own, and
\* _is_block_boundary is not "exact wherever every field is escaped".
Phantom(n) ==
  LET log == written[n].log
      text == written[n].text
  IN /\ Len(log) >= 3 /\ SubSeq(log, Len(log) - 2, Len(log)) = <<"nl", "nl", "ver">>
     /\ \E r \in DOMAIN text : Ends(text, r) /\ \A m \in 1..(r - 1) : text[m] = "@"

NoPhantom == ~Phantom(1) /\ ~Phantom(2)

Whole == Len(stream) = DataStart + Len(First) + Len(Second)

\* Whatever the messages and the texts are, phantoms aside, and wherever the chunks
\* end, the walk from HEAD finds every block, only the blocks, and in each what was
\* written.
WalkExact ==
  Whole /\ NoPhantom =>
    /\ \A n \in DOMAIN found :
         /\ n <= 2 /\ found[n].start = Starts[3 - n]
         /\ found[n].says = Said(3 - n)
    /\ pc = "done" => Len(found) = 2

\* Nor does a stream that lost its end make a scanner begin a block anywhere else.
StartsAreBlocks ==
  NoPhantom => \A n \in DOMAIN found : found[n].start \in {Starts[1], Starts[2]}

\* What has just been taken for a block both parsers read alike, in a whole stream and in
\* a torn one: except that the contents parser, which forgives a value that is not
\* closed, takes a torn text for one that ends where such a value could have.
ParsersAgree ==
  pc = "prev" /\ pos = end /\ NoPhantom =>
    \/ LET block == Last(found)
           p == block.start + 1
       IN Parsed(MetaFields(p, block.end)) = Parsed(DataFields(p, block.end))
    \/ /\ ~Whole
       /\ \E r \in DOMAIN written[2].text :
            Ends(written[2].text, r) /\ (r = 1 \/ written[2].text[r - 1] = "@")

\* The walk comes to an end.
WalkEnds == <>(pc = "done")
===============================================================================
