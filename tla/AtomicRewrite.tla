---------------------------- MODULE AtomicRewrite -----------------------------
(***************************************************************************)
(* How a path-backed SimpleRCS writes its file: the first commit, appended *)
(* through the stream's buffer, and _atomic_rewrite_head, which every      *)
(* later commit and every sign_head goes through, one system call at a     *)
(* time.  Any of those can fail, the process can be killed between any     *)
(* two, and the power can be cut.                                          *)
(*                                                                         *)
(* The file is abstracted to the number of updates it holds; how the       *)
(* blocks change is SimpleRCS.tla's matter.  Abstracted away: closing a    *)
(* stream, unlinking and opening a directory always succeed, and nobody    *)
(* else writes the file.                                                   *)
(***************************************************************************)
EXTENDS Integers

CONSTANTS
  MaxUpdates,  \* bound: how many updates are made
  MaxFaults,   \* bound: how many system calls fail
  MaxCrashes,  \* bound: how often the process is killed or the power cut
  SizeOf,      \* the size of the file that holds n updates
  Torn         \* a file that holds part of its first block only

ASSUME BoundAssumption ==
  MaxUpdates \in Nat \ {0} /\ MaxFaults \in Nat /\ MaxCrashes \in Nat

Updates == 0..MaxUpdates

ASSUME SizeAssumption == SizeOf \in [Updates -> Nat]

ASSUME TornAssumption == Torn = -1

VARIABLES
  live,       \* what a reader of file_path sees: a number of updates, or Torn
  stable,     \* what file_path can hold after a power cut
  tmp,        \* the temp file: "none", "partial", "whole" or "synced"
  stream,     \* self.stream: at "path", at the "orphan" inode, or "closed"
  unflushed,  \* the stream's buffer holds the first commit
  cached,     \* head_info (of: the update it shows, 0 for None) and its key
  durable,    \* self._durable
  pc,         \* where the running call is; "down" without an instance
  raising     \* an exception is on its way to the caller

\* What the callers were told, and how much has gone wrong so far.
VARIABLES promised, faults, crashes

file   == <<live, stable>>
inst   == <<stream, unflushed, cached, durable>>
counts == <<faults, crashes>>
vars   == <<file, tmp, inst, pc, raising, promised, counts>>

Fault == faults < MaxFaults /\ faults' = faults + 1 /\ UNCHANGED crashes

-------------------------------------------------------------------------------
(* Reading HEAD. *)

\* Seeking to the end, which every load starts with, flushes the buffer first.
AfterFlush == IF unflushed THEN 1 ELSE live

DroppedKey == -1

HeadOn(c) == [of |-> c, key |-> SizeOf[c]]

\* _load_head: the cached HEAD while the size is its key, else what a scan finds.
Load ==
  /\ live' = AfterFlush
  /\ stable' = IF unflushed THEN stable \cup {1, Torn} ELSE stable
  /\ unflushed' = FALSE
  /\ cached' = IF cached.of # 0 /\ cached.key = SizeOf[AfterFlush] THEN cached
               ELSE HeadOn(AfterFlush)
  /\ UNCHANGED <<stream, durable>>

Ready == pc = "idle" /\ stream = "path"

\* A reader, or a writer that raises before it writes.
Read ==
  /\ Ready /\ Load
  /\ UNCHANGED <<tmp, pc, raising, promised, counts>>

\* The flush fails part of the way: what is left stays in the buffer.
LoadFails ==
  /\ Ready /\ unflushed /\ Fault
  /\ live' \in {live, Torn}
  /\ stable' = stable \cup {Torn}
  /\ UNCHANGED <<tmp, inst, pc, raising, promised>>

-------------------------------------------------------------------------------
(* The first commit: appended to the live file. *)

FirstCommit ==
  /\ Ready /\ AfterFlush = 0
  /\ live' = live /\ stable' = stable
  /\ unflushed' = TRUE
  /\ cached' = HeadOn(0)
  /\ pc' = IF durable THEN "flush" ELSE "idle"
  /\ UNCHANGED <<tmp, stream, durable, raising, promised, counts>>

Flush ==
  /\ pc = "flush"
  /\ live' = 1 /\ stable' = stable \cup {1, Torn}
  /\ unflushed' = FALSE
  /\ pc' = "syncFile"
  /\ UNCHANGED <<tmp, stream, cached, durable, raising, promised, counts>>

FlushFails ==
  /\ pc = "flush" /\ Fault
  /\ live' \in {live, Torn}
  /\ stable' = stable \cup {Torn}
  /\ pc' = "idle"
  /\ UNCHANGED <<tmp, inst, raising, promised>>

\* Returning before the directory entry of a new file is durable.
SyncFileOnly ==
  /\ pc = "syncFile"
  /\ stable' = {0, live}
  /\ promised' = live
  /\ pc' = "idle"
  /\ UNCHANGED <<live, tmp, inst, raising, counts>>

\* The data is on the disk; the name of a new file need not be.
SyncFile ==
  /\ pc = "syncFile"
  /\ stable' = {0, live}
  /\ pc' = "syncDir"
  /\ UNCHANGED <<live, tmp, inst, raising, promised, counts>>

SyncFileFails ==
  /\ pc = "syncFile" /\ Fault
  /\ pc' = "idle"
  /\ UNCHANGED <<file, tmp, inst, raising, promised>>

-------------------------------------------------------------------------------
(* _atomic_rewrite_head. *)

\* commit() or sign_head() on a HEAD: load it, then mkstemp beside the file.
Begin ==
  /\ Ready /\ AfterFlush \in 1..(MaxUpdates - 1)
  /\ Load
  /\ tmp' = "partial"
  /\ pc' = "fill"
  /\ UNCHANGED <<raising, promised, counts>>

\* fchmod, the prefix before HEAD, and the payload made from the HEAD loaded.
Fill ==
  /\ pc = "fill"
  /\ tmp' = "whole"
  /\ pc' = "syncTmp"
  /\ UNCHANGED <<file, inst, raising, promised, counts>>

\* Renaming without waiting for the data.
SyncTmpSkipped ==
  /\ pc = "syncTmp"
  /\ pc' = "replace"
  /\ stream' = "closed"
  /\ UNCHANGED <<file, tmp, unflushed, cached, durable, raising, promised, counts>>

\* fsync if durable; then the temp file and the stream are closed.
SyncTmp ==
  /\ pc = "syncTmp"
  /\ tmp' = IF durable THEN "synced" ELSE tmp
  /\ pc' = "replace"
  /\ stream' = "closed"
  /\ UNCHANGED <<file, unflushed, cached, durable, raising, promised, counts>>

\* A write or the fsync fails: the stream was not touched yet.
FillFails ==
  /\ pc = "fill" \/ (pc = "syncTmp" /\ durable)
  /\ Fault
  /\ raising' = TRUE
  /\ pc' = "unlink"
  /\ UNCHANGED <<file, tmp, inst, promised>>

\* os.replace: the path names the new file at once.  Without the fsync the name
\* can reach the disk before the data, and an older durable version goes with it.
Replace ==
  /\ pc = "replace"
  /\ live' = cached.of + 1
  /\ stable' = stable \cup {live'} \cup (IF tmp = "synced" THEN {} ELSE {Torn})
  /\ tmp' = "none"
  /\ promised' = IF durable THEN promised ELSE Torn
  /\ stream' = IF stream = "path" THEN "orphan" ELSE stream
  /\ pc' = "reopen"
  /\ UNCHANGED <<unflushed, cached, durable, raising, counts>>

ReplaceFails ==
  /\ pc = "replace" /\ Fault
  /\ raising' = TRUE
  /\ pc' = "reopen"
  /\ UNCHANGED <<file, tmp, inst, promised>>

\* The old descriptor is kept: only a failed replace needs no new one.
ReopenSkipped ==
  /\ pc = "reopen"
  /\ pc' = "unlink"
  /\ stream' = IF raising THEN "path" ELSE "orphan"
  /\ UNCHANGED <<file, tmp, unflushed, cached, durable, raising, promised, counts>>

\* The stream is opened again either way, on the new file or the untouched one.
Reopen ==
  /\ pc = "reopen"
  /\ stream' = "path"
  /\ pc' = "unlink"
  /\ UNCHANGED <<file, tmp, unflushed, cached, durable, raising, promised, counts>>

ReopenFails ==
  /\ pc = "reopen" /\ Fault
  /\ raising' = TRUE
  /\ pc' = "unlink"
  /\ UNCHANGED <<file, tmp, inst, promised>>

\* Leaving the temp file of a failed rewrite behind.
UnlinkSkipped ==
  /\ pc = "unlink"
  /\ pc' = IF raising THEN "idle" ELSE "dropKey"
  /\ raising' = FALSE
  /\ UNCHANGED <<file, tmp, inst, promised, counts>>

\* The outer finally: a temp file that was not installed is removed.
Unlink ==
  /\ pc = "unlink"
  /\ tmp' = "none"
  /\ pc' = IF raising THEN "idle" ELSE "dropKey"
  /\ raising' = FALSE
  /\ UNCHANGED <<file, inst, promised, counts>>

\* Trusting the size to have changed.
KeyNotDropped ==
  /\ pc = "dropKey"
  /\ pc' = IF durable THEN "syncDir" ELSE "idle"
  /\ UNCHANGED <<file, tmp, inst, raising, promised, counts>>

\* The cache is keyed on the size, and the new file may have the old one's.
DropKey ==
  /\ pc = "dropKey"
  /\ cached' = [cached EXCEPT !.key = DroppedKey]
  /\ pc' = IF durable THEN "syncDir" ELSE "idle"
  /\ UNCHANGED <<file, tmp, stream, unflushed, durable, raising, promised, counts>>

\* The directory is synced, and the call returns: the update is promised.
SyncDir ==
  /\ pc = "syncDir"
  /\ stable' = {live}
  /\ promised' = live
  /\ pc' = "idle"
  /\ UNCHANGED <<live, tmp, inst, raising, counts>>

\* The call raises although the update is in the file.
SyncDirFails ==
  /\ pc = "syncDir" /\ Fault
  /\ pc' = "idle"
  /\ UNCHANGED <<file, tmp, inst, raising, promised>>

-------------------------------------------------------------------------------
(* Instances come and go. *)

\* __init__ over a file with whole blocks; TornTail.tla takes up the others.
Open ==
  /\ pc = "down" /\ live # Torn
  /\ durable' \in BOOLEAN
  /\ stream' = "path" /\ unflushed' = FALSE
  /\ cached' = HeadOn(live)
  /\ pc' = "idle"
  /\ UNCHANGED <<file, tmp, raising, promised, counts>>

\* __del__: closing the stream flushes it.
Close ==
  /\ pc = "idle"
  /\ live' = AfterFlush
  /\ stable' = IF unflushed THEN stable \cup {1, Torn} ELSE stable
  /\ unflushed' = FALSE
  /\ pc' = "down"
  /\ UNCHANGED <<tmp, stream, cached, durable, raising, promised, counts>>

Gone ==
  /\ crashes < MaxCrashes /\ crashes' = crashes + 1
  /\ pc' = "down" /\ tmp' = "none" /\ raising' = FALSE /\ unflushed' = FALSE
  /\ UNCHANGED <<stream, cached, durable, promised, faults>>

\* SIGKILL: the kernel keeps what was written, a buffer may be lost or cut.  The
\* stray temp file has a name no one opens again.
Kill ==
  /\ pc # "down" /\ Gone
  /\ live' \in IF unflushed THEN {live, 1, Torn} ELSE {live}
  /\ stable' = stable \cup {live'} \cup (IF unflushed THEN {1, Torn} ELSE {})

PowerCut ==
  /\ Gone
  /\ live' \in stable \cup (IF unflushed THEN {1, Torn} ELSE {})
  /\ stable' = {live'}

Init ==
  /\ live = 0 /\ stable = {0} /\ tmp = "none"
  /\ stream = "closed" /\ unflushed = FALSE
  /\ cached = HeadOn(0) /\ durable = TRUE
  /\ pc = "down" /\ raising = FALSE
  /\ promised = Torn /\ faults = 0 /\ crashes = 0

First == FirstCommit \/ Flush \/ FlushFails \/ SyncFile \/ SyncFileFails

Rewrite ==
  \/ Begin \/ Fill \/ FillFails \/ SyncTmp
  \/ Replace \/ ReplaceFails \/ Reopen \/ ReopenFails
  \/ Unlink \/ DropKey \/ SyncDir \/ SyncDirFails

Next == Read \/ LoadFails \/ First \/ Rewrite \/ Open \/ Close \/ Kill \/ PowerCut

Spec == Init /\ [][Next]_vars

-------------------------------------------------------------------------------
(* Properties. *)

TypeOK ==
  /\ live \in {Torn} \cup Updates
  /\ stable \subseteq {Torn} \cup Updates
  /\ tmp \in {"none", "partial", "whole", "synced"}
  /\ stream \in {"path", "orphan", "closed"}
  /\ unflushed \in BOOLEAN
  /\ cached \in [of : Updates, key : Int]
  /\ durable \in BOOLEAN
  /\ pc \in {"down", "idle", "flush", "syncFile", "fill", "syncTmp", "replace",
             "reopen", "unlink", "dropKey", "syncDir"}
  /\ raising \in BOOLEAN
  /\ promised \in {Torn} \cup Updates
  /\ faults \in Nat /\ crashes \in Nat

\* Whatever fails, and wherever the process or the machine stops, the path holds
\* at least the newest update a durable call returned from, whole.
PromisesKept == \A c \in stable \cup {live} : c >= promised

\* Between calls an open stream is the file at the path, and a cached HEAD that
\* the next load would serve is the one in that file -- also after a call that
\* raised, and when a rewrite left the size as it was.
ServesThePath ==
  (pc = "idle" /\ stream # "closed") =>
    /\ stream = "path"
    /\ (~unflushed /\ cached.of # 0 /\ cached.key = SizeOf[live]) => cached.of = live

\* A call that ends, by returning or by raising, leaves no temp file behind.
NoTempLeft == pc = "idle" => tmp = "none"

Log == INSTANCE DurableLog WITH
  content <- live, promised <- promised, up <- pc # "down"

\* What a reader of the path sees changes as DurableLog allows.
ImplementsLog == Log!Spec

-------------------------------------------------------------------------------
(* Why the properties hold: the invariant every step preserves.               *)

\* Only an unacknowledged first commit is ever in a buffer, or torn by one.
BufferInv ==
  /\ unflushed => /\ pc \in {"idle", "flush"} /\ stream = "path"
                  /\ live \in {0, Torn} /\ cached.of = 0 /\ promised = Torn
  /\ live = Torn => (pc = "down" \/ unflushed)
  /\ pc = "flush" => unflushed
  /\ pc = "syncFile" => /\ live = 1 /\ cached.of = 0 /\ promised = Torn
                        /\ stream = "path"

\* The payload is made from what the path holds until it is installed; from then
\* on the cached HEAD is one update behind, until its key is dropped.
RewriteInv ==
  /\ pc \in {"fill", "syncTmp", "replace"} =>
       live = cached.of /\ live \in 1..(MaxUpdates - 1)
  /\ pc \in {"fill", "syncTmp", "dropKey", "syncDir"} => stream = "path"
  /\ pc = "replace" => stream = "closed" /\ (durable => tmp = "synced")
  /\ pc = "reopen" => stream = "closed"
  /\ pc \in {"reopen", "unlink", "dropKey", "syncDir"} => live >= 1
  /\ (pc \in {"reopen", "unlink"} /\ raising) => live = cached.of \/ stream = "closed"
  /\ (pc = "reopen" /\ raising) => live = cached.of
  /\ pc = "unlink" => stream # "orphan" /\ (raising \/ stream = "path")
  /\ pc = "syncDir" => cached.of = 0 \/ cached.key = DroppedKey
  /\ raising => pc \in {"reopen", "unlink"}
  /\ tmp # "none" => pc \in {"fill", "syncTmp", "replace", "reopen", "unlink"}

\* What a power cut can bring back is at most one update ahead of the path, and
\* an empty store is never promised.
StableInv ==
  /\ \A c \in stable : c <= Log!After(live)
  /\ promised # 0

IInv ==
  TypeOK /\ PromisesKept /\ ServesThePath /\ NoTempLeft
    /\ BufferInv /\ RewriteInv /\ StableInv
===============================================================================
