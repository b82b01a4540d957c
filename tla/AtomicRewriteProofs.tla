-------------------------- MODULE AtomicRewriteProofs --------------------------
(***************************************************************************)
(* Proofs about AtomicRewrite, for every number of updates and faults and  *)
(* every assignment of sizes to files: the invariant, what it implies, and *)
(* that the steps implement DurableLog.                                    *)
(***************************************************************************)
EXTENDS AtomicRewrite, TLAPS

\* Numbers of updates are naturals, Torn is below them, and each has a size.
LEMMA UpdatesAreInts ==
  /\ 0 \in Updates /\ 1 \in Updates
  /\ Torn = -1 /\ Torn \notin Updates
  /\ \A u \in Updates : u \in Int /\ u >= 0 /\ SizeOf[u] \in Nat
BY BoundAssumption, SizeAssumption, TornAssumption DEF Updates

\* What DurableLog lets an update turn the file into.
LEMMA AfterValues ==
  /\ Log!After(Torn) = 1 /\ Log!After(0) = 1
  /\ \A u \in Updates : Log!After(u) = u + 1
BY UpdatesAreInts, TornAssumption DEF Log!After

\* A scan caches a HEAD with its key.
LEMMA HeadOnType == \A u \in Updates : HeadOn(u) \in [of : Updates, key : Int]
BY UpdatesAreInts DEF HeadOn

\* The invariant holds of a store that does not exist yet.
LEMMA InitInv == Init => IInv
<1> SUFFICES ASSUME Init PROVE IInv
  OBVIOUS
<1> USE UpdatesAreInts DEF Init
<1>1. TypeOK
  <2>1. cached \in [of : Updates, key : Int]
    BY HeadOnType
  <2>2. live \in Updates /\ stable \subseteq Updates /\ promised = Torn
    OBVIOUS
  <2> QED
    BY <2>1, <2>2 DEF TypeOK
<1>2. PromisesKept /\ ServesThePath /\ NoTempLeft /\ BufferInv /\ RewriteInv
  BY DEF HeadOn, PromisesKept, ServesThePath, NoTempLeft, BufferInv, RewriteInv
<1>3. StableInv
  BY AfterValues DEF StableInv
<1> QED
  BY <1>1, <1>2, <1>3 DEF IInv

\* After _load_head the cached HEAD is what the path holds, the buffer is empty, and
\* nothing promised is gone.
LEMMA LoadInv ==
  ASSUME IInv, Ready, Load
  PROVE  /\ live' = AfterFlush /\ live' \in Updates /\ cached'.of = live'
         /\ cached' \in [of : Updates, key : Int]
         /\ stable' \subseteq {Torn} \cup Updates
         /\ \A c \in stable' \cup {live'} : c >= promised /\ c <= Log!After(live')
         /\ unflushed' = FALSE /\ stream' = "path" /\ durable' = durable
BY BoundAssumption, SizeAssumption, TornAssumption, UpdatesAreInts
DEF IInv, TypeOK, PromisesKept, ServesThePath, BufferInv, RewriteInv, StableInv, Ready, Load,
    HeadOn, AfterFlush, DroppedKey, Log!After

\* Every system call, failure, kill and power cut preserves the invariant.
THEOREM StepInv == IInv /\ [Next]_vars => IInv'
<1> SUFFICES ASSUME IInv, [Next]_vars PROVE IInv'
  OBVIOUS
<1> USE UpdatesAreInts, BoundAssumption, TornAssumption DEF IInv, TypeOK, PromisesKept, ServesThePath, NoTempLeft, BufferInv, RewriteInv, StableInv
<1>1. CASE Read
  <2>1. TypeOK'
    BY <1>1, LoadInv DEF Read, Ready, counts
  <2>2. PromisesKept'
    BY <1>1, LoadInv DEF Read, Ready, counts
  <2>3. (ServesThePath /\ NoTempLeft)'
    BY <1>1, LoadInv DEF Read, Ready, counts
  <2>4. BufferInv'
    BY <1>1, LoadInv DEF Read, Ready, counts
  <2>5. RewriteInv'
    BY <1>1, LoadInv DEF Read, Ready, counts
  <2>6. StableInv'
    BY <1>1, LoadInv, AfterValues DEF Read, Ready, counts
  <2> QED
    BY <2>1, <2>2, <2>3, <2>4, <2>5, <2>6
<1>2. CASE LoadFails
  <2>1. TypeOK'
    BY <1>2 DEF LoadFails, Fault, Ready, inst, Log!After
  <2>2. PromisesKept'
    BY <1>2 DEF LoadFails, Fault, Ready, inst, Log!After
  <2>3. (ServesThePath /\ NoTempLeft)'
    BY <1>2 DEF LoadFails, Fault, Ready, inst, Log!After
  <2>4. BufferInv'
    BY <1>2 DEF LoadFails, Fault, Ready, inst, Log!After
  <2>5. RewriteInv'
    BY <1>2 DEF LoadFails, Fault, Ready, inst, Log!After
  <2>6. StableInv'
    BY <1>2, AfterValues DEF LoadFails, Fault, Ready, inst
  <2> QED
    BY <2>1, <2>2, <2>3, <2>4, <2>5, <2>6
<1>3. CASE FirstCommit
  BY <1>3 DEF FirstCommit, Ready, counts, HeadOn, AfterFlush, Log!After
<1>4. CASE Flush
  <2>1. TypeOK'
    BY <1>4 DEF Flush, counts, Log!After
  <2>2. PromisesKept'
    BY <1>4 DEF Flush, counts, Log!After
  <2>3. (ServesThePath /\ NoTempLeft)'
    BY <1>4 DEF Flush, counts, Log!After
  <2>4. BufferInv'
    BY <1>4 DEF Flush, counts, Log!After
  <2>5. RewriteInv'
    BY <1>4 DEF Flush, counts, Log!After
  <2>6. StableInv'
    BY <1>4, AfterValues DEF Flush, counts
  <2> QED
    BY <2>1, <2>2, <2>3, <2>4, <2>5, <2>6
<1>5. CASE FlushFails
  <2>1. TypeOK'
    BY <1>5 DEF FlushFails, Fault, inst, Log!After
  <2>2. PromisesKept'
    BY <1>5 DEF FlushFails, Fault, inst, Log!After
  <2>3. (ServesThePath /\ NoTempLeft)'
    BY <1>5 DEF FlushFails, Fault, inst, Log!After
  <2>4. BufferInv'
    BY <1>5 DEF FlushFails, Fault, inst, Log!After
  <2>5. RewriteInv'
    BY <1>5 DEF FlushFails, Fault, inst, Log!After
  <2>6. StableInv'
    BY <1>5, AfterValues DEF FlushFails, Fault, inst
  <2> QED
    BY <2>1, <2>2, <2>3, <2>4, <2>5, <2>6
<1>6. CASE SyncFile
  BY <1>6 DEF SyncFile, inst, counts, Log!After
<1>7. CASE SyncFileFails
  BY <1>7 DEF SyncFileFails, file, inst, Fault, Log!After
<1>8. CASE Begin
  <2>1. TypeOK'
    BY <1>8, LoadInv DEF Begin, Ready, counts
  <2>2. PromisesKept'
    BY <1>8, LoadInv DEF Begin, Ready, counts
  <2>3. (ServesThePath /\ NoTempLeft)'
    BY <1>8, LoadInv DEF Begin, Ready, counts
  <2>4. BufferInv'
    BY <1>8, LoadInv DEF Begin, Ready, counts
  <2>5. RewriteInv'
    BY <1>8, LoadInv DEF Begin, Ready, counts
  <2>6. StableInv'
    BY <1>8, LoadInv, AfterValues DEF Begin, Ready, counts
  <2> QED
    BY <2>1, <2>2, <2>3, <2>4, <2>5, <2>6
<1>9. CASE Fill
  BY <1>9 DEF Fill, file, inst, counts, Log!After
<1>10. CASE FillFails
  BY <1>10 DEF FillFails, file, inst, Fault, Log!After
<1>11. CASE SyncTmp
  BY <1>11 DEF SyncTmp, file, counts, Log!After
<1>12. CASE Replace
  <2>1. TypeOK'
    <3>1. live' \in Updates
      BY <1>12 DEF Replace, Updates
    <3>2. stable' \subseteq {Torn} \cup Updates
      BY <1>12, <3>1 DEF Replace
    <3> QED
      BY <1>12, <3>1, <3>2 DEF Replace, counts
  <2>2. PromisesKept'
    BY <1>12 DEF Replace, counts, Log!After, Updates
  <2>3. (ServesThePath /\ NoTempLeft)'
    BY <1>12 DEF Replace, counts, Log!After, Updates
  <2>4. BufferInv'
    BY <1>12 DEF Replace, counts, Log!After, Updates
  <2>5. RewriteInv'
    BY <1>12 DEF Replace, counts, Log!After, Updates
  <2>6. StableInv'
    BY <1>12, AfterValues DEF Replace, counts, Updates
  <2> QED
    BY <2>1, <2>2, <2>3, <2>4, <2>5, <2>6
<1>13. CASE ReplaceFails
  BY <1>13 DEF ReplaceFails, file, inst, Fault, Log!After
<1>14. CASE Reopen
  BY <1>14 DEF Reopen, file, counts, Log!After
<1>15. CASE ReopenFails
  BY <1>15 DEF ReopenFails, file, inst, Fault, Log!After
<1>16. CASE Unlink
  BY <1>16 DEF Unlink, file, inst, counts, Log!After
<1>17. CASE DropKey
  BY <1>17 DEF DropKey, file, counts, DroppedKey, Log!After
<1>18. CASE SyncDir
  BY <1>18 DEF SyncDir, inst, counts, DroppedKey, Log!After
<1>19. CASE SyncDirFails
  BY <1>19 DEF SyncDirFails, file, inst, Fault, DroppedKey, Log!After
<1>20. CASE Open
  <2>1. TypeOK'
    <3>1. cached' \in [of : Updates, key : Int]
      BY <1>20, HeadOnType DEF Open
    <3> QED
      BY <1>20, <3>1 DEF Open, file, counts
  <2>2. PromisesKept'
    BY <1>20 DEF Open, file, counts, HeadOn, Log!After
  <2>3. (ServesThePath /\ NoTempLeft)'
    BY <1>20 DEF Open, file, counts, HeadOn, Log!After
  <2>4. BufferInv'
    BY <1>20 DEF Open, file, counts, HeadOn, Log!After
  <2>5. RewriteInv'
    BY <1>20 DEF Open, file, counts, HeadOn, Log!After
  <2>6. StableInv'
    BY <1>20, AfterValues DEF Open, file, counts, HeadOn
  <2> QED
    BY <2>1, <2>2, <2>3, <2>4, <2>5, <2>6
<1>21. CASE Close
  <2>1. TypeOK'
    BY <1>21 DEF Close, counts, AfterFlush, Log!After
  <2>2. PromisesKept'
    BY <1>21 DEF Close, counts, AfterFlush, Log!After
  <2>3. (ServesThePath /\ NoTempLeft)'
    BY <1>21 DEF Close, counts, AfterFlush, Log!After
  <2>4. BufferInv'
    BY <1>21 DEF Close, counts, AfterFlush, Log!After
  <2>5. RewriteInv'
    BY <1>21 DEF Close, counts, AfterFlush, Log!After
  <2>6. StableInv'
    BY <1>21, AfterValues DEF Close, counts, AfterFlush
  <2> QED
    BY <2>1, <2>2, <2>3, <2>4, <2>5, <2>6
<1>22. CASE Kill
  <2>1. TypeOK'
    <3>1. live' \in {Torn} \cup Updates
      BY <1>22 DEF Kill
    <3>2. stable' \subseteq {Torn} \cup Updates
      BY <1>22, <3>1 DEF Kill
    <3>3. /\ tmp' = "none" /\ pc' = "down" /\ raising' = FALSE /\ unflushed' = FALSE
          /\ crashes' = crashes + 1
          /\ UNCHANGED <<stream, cached, durable, promised, faults>>
      BY <1>22 DEF Kill, Gone
    <3>4. /\ tmp' \in {"none", "partial", "whole", "synced"}
          /\ stream' \in {"path", "orphan", "closed"}
          /\ unflushed' \in BOOLEAN /\ durable' \in BOOLEAN /\ raising' \in BOOLEAN
      BY <3>3
    <3>5. cached' \in [of : Updates, key : Int]
      BY <3>3
    <3>6. pc' = "down" /\ promised' \in {Torn} \cup Updates
      BY <3>3
    <3>7. faults' \in Nat /\ crashes' \in Nat
      BY <3>3
    <3> QED
      BY <3>1, <3>2, <3>4, <3>5, <3>6, <3>7
  <2>2. PromisesKept'
    BY <1>22 DEF Kill, Gone, Log!After
  <2>3. (ServesThePath /\ NoTempLeft)'
    BY <1>22 DEF Kill, Gone, Log!After
  <2>4. BufferInv'
    BY <1>22 DEF Kill, Gone, Log!After
  <2>5. RewriteInv'
    BY <1>22 DEF Kill, Gone, Log!After
  <2>6. StableInv'
    BY <1>22, AfterValues DEF Kill, Gone
  <2> QED
    BY <2>1, <2>2, <2>3, <2>4, <2>5, <2>6
<1>23. CASE PowerCut
  <2>1. TypeOK'
    <3>1. live' \in {Torn} \cup Updates
      BY <1>23 DEF PowerCut
    <3>2. stable' \subseteq {Torn} \cup Updates
      BY <1>23, <3>1 DEF PowerCut
    <3>3. /\ tmp' = "none" /\ pc' = "down" /\ raising' = FALSE /\ unflushed' = FALSE
          /\ crashes' = crashes + 1
          /\ UNCHANGED <<stream, cached, durable, promised, faults>>
      BY <1>23 DEF PowerCut, Gone
    <3>4. /\ tmp' \in {"none", "partial", "whole", "synced"}
          /\ stream' \in {"path", "orphan", "closed"}
          /\ unflushed' \in BOOLEAN /\ durable' \in BOOLEAN /\ raising' \in BOOLEAN
      BY <3>3
    <3>5. cached' \in [of : Updates, key : Int]
      BY <3>3
    <3>6. pc' = "down" /\ promised' \in {Torn} \cup Updates
      BY <3>3
    <3>7. faults' \in Nat /\ crashes' \in Nat
      BY <3>3
    <3> QED
      BY <3>1, <3>2, <3>4, <3>5, <3>6, <3>7
  <2>2. PromisesKept'
    BY <1>23 DEF PowerCut, Gone, Log!After
  <2>3. (ServesThePath /\ NoTempLeft)'
    BY <1>23 DEF PowerCut, Gone, Log!After
  <2>4. BufferInv'
    BY <1>23 DEF PowerCut, Gone, Log!After
  <2>5. RewriteInv'
    BY <1>23 DEF PowerCut, Gone, Log!After
  <2>6. StableInv'
    BY <1>23, AfterValues DEF PowerCut, Gone
  <2> QED
    BY <2>1, <2>2, <2>3, <2>4, <2>5, <2>6
<1>24. CASE UNCHANGED vars
  BY <1>24 DEF vars, file, inst, counts, Log!After
<1> QED
  BY <1>1, <1>2, <1>3, <1>4, <1>5, <1>6, <1>7, <1>8, <1>9, <1>10, <1>11, <1>12, <1>13, <1>14,
     <1>15, <1>16, <1>17, <1>18, <1>19, <1>20, <1>21, <1>22, <1>23, <1>24
  DEF Next, First, Rewrite

\* The invariant holds throughout: a first commit is buffered or torn only while
\* nothing is promised, and a rewrite is built from what the path holds.
THEOREM Invariant == Spec => []IInv
<1>1. Init => IInv
  BY InitInv
<1>2. IInv /\ [Next]_vars => IInv'
  BY StepInv
<1> QED
  BY <1>1, <1>2, PTL DEF Spec

\* Every variable keeps its type, for any number of updates.
THEOREM TypeCorrect == Spec => []TypeOK
BY Invariant, PTL DEF IInv

\* No fault, kill or power cut takes back an update a durable call returned from.
THEOREM DurableSurvives == Spec => []PromisesKept
BY Invariant, PTL DEF IInv

\* Between calls the stream and the cached HEAD are those of the file at the path,
\* whatever sizes the rewritten files have.
THEOREM PathServed == Spec => []ServesThePath
BY Invariant, PTL DEF IInv

\* No call that ends leaves a temp file.
THEOREM TempRemoved == Spec => []NoTempLeft
BY Invariant, PTL DEF IInv

\* What a step does to the file and to the promise, if anything.
LogVars == <<live, promised, pc # "down">>

\* Flushing a buffered first commit installs it; flushing nothing is invisible.
LEMMA FlushStep ==
  ASSUME IInv, live' = AfterFlush, promised' = promised, pc # "down", pc' # "down"
  PROVE  Log!Install \/ UNCHANGED LogVars
BY UpdatesAreInts, AfterValues
DEF IInv, BufferInv, AfterFlush, LogVars, Log!Install

\* An instance that goes away leaves what DurableLog allows.
LEMMA StopStep ==
  ASSUME IInv, IInv', pc' = "down", promised' = promised, live' <= Log!After(live)
  PROVE  Log!Stop
<1>1. live' \in Int /\ promised \in Int /\ Log!After(live) \in Int
  BY UpdatesAreInts, TornAssumption DEF IInv, TypeOK, Log!After
<1>2. live' >= promised
  BY DEF IInv, PromisesKept
<1> QED
  BY <1>1, <1>2 DEF Log!Stop

\* Each step is a step of DurableLog, or invisible to it.
LEMMA LogStep == IInv /\ IInv' /\ [Next]_vars => [Log!Next]_LogVars
<1> SUFFICES ASSUME IInv, IInv', [Next]_vars PROVE Log!Next \/ UNCHANGED LogVars
  OBVIOUS
<1>1. CASE Read \/ Begin
  <2>1. live' = AfterFlush /\ promised' = promised /\ pc # "down" /\ pc' # "down"
    BY <1>1 DEF Read, Begin, Load, Ready
  <2> QED
    BY <2>1, FlushStep DEF Log!Next
<1>2. CASE LoadFails \/ FlushFails
  <2>1. /\ pc # "down" /\ pc' # "down" /\ unflushed
        /\ live' \in {live, Torn} /\ promised' = promised
    BY <1>2 DEF LoadFails, FlushFails, Ready, IInv, BufferInv
  <2>2. live \in {0, Torn} /\ promised = Torn
    BY <2>1 DEF IInv, BufferInv
  <2> QED
    BY <2>1, <2>2 DEF Log!Next, Log!Tear, LogVars
<1>3. CASE Flush
  <2>1. pc # "down" /\ pc' # "down" /\ live' = 1 /\ promised' = promised
    BY <1>3 DEF Flush
  <2>2. Log!After(live) = 1
    BY <1>3, AfterValues DEF Flush, IInv, BufferInv
  <2> QED
    BY <2>1, <2>2 DEF Log!Next, Log!Install
<1>4. CASE Replace
  <2>1. /\ pc # "down" /\ pc' # "down" /\ live' = live + 1 /\ live \in Updates
        /\ promised' \in {promised, Torn}
    BY <1>4, UpdatesAreInts DEF Replace, IInv, RewriteInv, TypeOK
  <2> QED
    BY <2>1, AfterValues DEF Log!Next, Log!Install
<1>5. CASE SyncDir
  BY <1>5 DEF SyncDir, Log!Next, Log!Promise, inst
<1>6. CASE Open
  BY <1>6 DEF Open, Log!Next, Log!Start, file
<1>7. CASE Close
  <2>1. live' = AfterFlush /\ promised' = promised /\ pc' = "down"
    BY <1>7 DEF Close
  <2>2. AfterFlush <= Log!After(live)
    BY UpdatesAreInts, AfterValues DEF AfterFlush, IInv, BufferInv, TypeOK
  <2> QED
    BY <2>1, <2>2, StopStep DEF Log!Next
<1>8. CASE Kill \/ PowerCut
  <2>1. pc' = "down" /\ promised' = promised
    BY <1>8 DEF Kill, PowerCut, Gone
  <2>2. live' \in stable \cup {live} \cup (IF unflushed THEN {1, Torn} ELSE {})
    BY <1>8 DEF Kill, PowerCut
  <2>3. CASE live' \in stable
    BY <2>1, <2>3, StopStep DEF Log!Next, IInv, StableInv
  <2>4. CASE live' = live
    <3>1. live <= Log!After(live)
      BY UpdatesAreInts, AfterValues DEF IInv, TypeOK
    <3> QED
      BY <2>1, <2>4, <3>1, StopStep DEF Log!Next
  <2>5. CASE unflushed /\ live' \in {1, Torn}
    <3>1. Log!After(live) = 1
      BY <2>5, AfterValues DEF IInv, BufferInv
    <3> QED
      BY <2>1, <2>5, <3>1, StopStep, TornAssumption DEF Log!Next
  <2> QED
    BY <2>2, <2>3, <2>4, <2>5
<1>9. CASE FirstCommit \/ SyncFile \/ SyncFileFails \/ Fill \/ FillFails \/ SyncTmp \/ ReplaceFails
  BY <1>9 DEF FirstCommit, SyncFile, SyncFileFails, Fill, FillFails, SyncTmp, ReplaceFails,
     Ready, file, LogVars
<1>10. CASE Reopen \/ ReopenFails \/ Unlink \/ DropKey \/ SyncDirFails \/ UNCHANGED vars
  BY <1>10 DEF Reopen, ReopenFails, Unlink, DropKey, SyncDirFails, vars, file, LogVars
<1> QED
  BY <1>1, <1>2, <1>3, <1>4, <1>5, <1>6, <1>7, <1>8, <1>9, <1>10 DEF Next, First, Rewrite

\* The system calls together implement DurableLog: a reader of the path sees whole
\* updates, one at a time, and only a crash takes any away, down to the promised.
THEOREM RefinesLog == Spec => ImplementsLog
<1>1. Init => Log!Init
  BY DEF Init, Log!Init
<1>2. IInv /\ IInv' /\ [Next]_vars => [Log!Next]_<<live, promised, pc # "down">>
  BY LogStep DEF LogVars
<1> QED
  BY <1>1, <1>2, Invariant, PTL DEF Spec, ImplementsLog, Log!Spec
===============================================================================
