------------------------ MODULE RevokeWorker_proofs ------------------------
(***************************************************************************)
(* The poll loop never leaves a revocation behind its cursor, for every    *)
(* margin, window, chunk size and number of blocks and crashes.            *)
(***************************************************************************)
EXTENDS RevokeWorker, TLAPS

\* Where a pass stands.  What is below its cursor was handed over or is still
\* to be; the cursor does not go back behind the one in memory; and a file with
\* a cursor means there is one in memory too, since the window a scan without a
\* cursor falls back to may start anywhere.
PassInv ==
  /\ pc = "scan" => cursor <= safeHead
  /\ pc \in {"scan", "submit"} =>
       /\ fromBlock <= cursor
       /\ \A b \in revoked : floor <= b /\ b < cursor => b \in handled \cup found

FileInv == fromBlock = 0 => file = 0

IInv == TypeOK /\ PassInv /\ FileInv /\ NoRevocationIsPassedOver

-----------------------------------------------------------------------------
\* Max and Min of two numbers.
LEMMA MaxOfTwo ==
  ASSUME NEW m \in Int, NEW n \in Int
  PROVE  Max({m, n}) = IF m >= n THEN m ELSE n
  BY DEF Max

LEMMA MinOfTwo ==
  ASSUME NEW m \in Int, NEW n \in Int
  PROVE  Min({m, n}) = IF m <= n THEN m ELSE n
  BY DEF Min

\* A scan without a cursor starts inside the chain.
LEMMA StartOfType ==
  ASSUME TypeOK, NEW safe \in Int, safe <= head
  PROVE  /\ startOf(safe) \in 0..head + 1
         /\ fromBlock # 0 => startOf(safe) = fromBlock
<1>1. CASE fromBlock # 0
  BY <1>1 DEF startOf, TypeOK
<1>2. CASE fromBlock = 0
  <2>1. WINDOW \in Nat /\ head \in Nat
    BY RevokeWorkerAssumption DEF TypeOK
  <2>2. Max({0, safe - WINDOW}) = IF 0 >= safe - WINDOW THEN 0 ELSE safe - WINDOW
    BY <2>1, MaxOfTwo
  <2> QED  BY <1>2, <2>1, <2>2 DEF startOf
<1> QED  BY <1>1, <1>2

\* A chunk is not empty and ends at or below the safe head.
LEMMA ChunkEndType ==
  ASSUME TypeOK, cursor <= safeHead
  PROVE  chunkEnd \in Int /\ cursor <= chunkEnd /\ chunkEnd <= safeHead
<1>1. cursor \in Nat /\ safeHead \in Int /\ CHUNK \in Nat \ {0}
  BY RevokeWorkerAssumption DEF TypeOK
<1>2. chunkEnd = IF cursor + CHUNK - 1 <= safeHead THEN cursor + CHUNK - 1
                                                   ELSE safeHead
  BY <1>1, MinOfTwo DEF chunkEnd
<1> QED  BY <1>1, <1>2

-----------------------------------------------------------------------------
LEMMA InitIInv == Init => IInv
<1> SUFFICES ASSUME Init PROVE IInv
  OBVIOUS
<1>1. TypeOK
  BY RevokeWorkerAssumption DEF Init, TypeOK
<1>2. PassInv /\ FileInv /\ NoRevocationIsPassedOver
  BY RevokeWorkerAssumption DEF Init, PassInv, FileInv, NoRevocationIsPassedOver
<1> QED  BY <1>1, <1>2 DEF IInv

\* A step of the loop that only moves the program counter, away from the pass
\* or to its end.
LEMMA LeavesCursorsIInv ==
  ASSUME IInv,
         pc' \in {"sleep", "mirror", "head", "save"},
         UNCHANGED passVars \/ PassOver,
         UNCHANGED <<sourceVars, processed, fromBlock, file, historyVars>>
  PROVE  IInv'
<1> USE DEF sourceVars, historyVars
<1>1. TypeOK'
  <2>1. CASE UNCHANGED passVars
    BY <2>1 DEF passVars, IInv, TypeOK
  <2>2. CASE PassOver
    BY <2>2 DEF PassOver, IInv, TypeOK
  <2> QED  BY <2>1, <2>2
<1>2. PassInv' /\ FileInv' /\ NoRevocationIsPassedOver'
  BY DEF IInv, PassInv, FileInv, NoRevocationIsPassedOver
<1> QED  BY <1>1, <1>2 DEF IInv

LEMMA SaveIInv ==
  ASSUME IInv, saveState
  PROVE  IInv'
<1> USE DEF saveState, sourceVars, passVars, historyVars
<1>1. TypeOK'
  BY DEF IInv, TypeOK
<1>2. PassInv' /\ FileInv' /\ NoRevocationIsPassedOver'
  BY DEF IInv, PassInv, FileInv, NoRevocationIsPassedOver
<1> QED  BY <1>1, <1>2 DEF IInv

LEMMA CrashIInv ==
  ASSUME IInv, Crash
  PROVE  IInv'
<1> USE DEF Crash, PassOver, sourceVars
<1>1. file' \in {file, fromBlock, 0} /\ fromBlock' = file'
  OBVIOUS
<1>2. TypeOK'
  BY <1>1, RevokeWorkerAssumption DEF IInv, TypeOK
<1>3. PassInv' /\ FileInv'
  BY <1>1 DEF PassInv, FileInv
<1>4. NoRevocationIsPassedOver'
  BY <1>1 DEF IInv, TypeOK, NoRevocationIsPassedOver
<1> QED  BY <1>2, <1>3, <1>4 DEF IInv

LEMMA HeadReadIInv ==
  ASSUME IInv, HeadRead
  PROVE  IInv'
<1> USE DEF HeadRead, sourceVars
<1>1. safeHead' = head - MARGIN /\ safeHead' \in Int /\ safeHead' <= head
  BY RevokeWorkerAssumption DEF IInv, TypeOK
<1>2. cursor' \in 0..head + 1 /\ (fromBlock # 0 => cursor' = fromBlock)
  BY <1>1, StartOfType DEF IInv
<1>3. TypeOK'
  BY <1>1, <1>2 DEF IInv, TypeOK
<1>4. PassInv'
  <2>1. pc' = "scan" => cursor' <= safeHead'
    BY <1>1, <1>2 DEF IInv, TypeOK
  <2>2. fromBlock' <= cursor'
    BY <1>2 DEF IInv, TypeOK
  <2>3. ASSUME NEW b \in revoked', floor' <= b, b < cursor'
        PROVE  b \in handled'
    <3>1. CASE fromBlock # 0
      BY <2>3, <3>1, <1>2 DEF IInv, NoRevocationIsPassedOver
    <3>2. CASE fromBlock = 0
      BY <2>3, <3>2, <1>2 DEF IInv, TypeOK
    <3> QED  BY <3>1, <3>2
  <2> QED  BY <2>1, <2>2, <2>3 DEF PassInv
<1>5. FileInv'
  BY DEF IInv, FileInv
<1>6. NoRevocationIsPassedOver'
  \* without a cursor nothing is below one, in memory or in the file
  <2>1. CASE fromBlock # 0
    BY <2>1 DEF IInv, NoRevocationIsPassedOver
  <2>2. CASE fromBlock = 0
    <3>1. file' = 0 /\ fromBlock' = 0 /\ revoked' \subseteq 1..head /\ head \in Nat
      BY <2>2 DEF IInv, FileInv, TypeOK
    <3> QED  BY <3>1 DEF NoRevocationIsPassedOver
  <2> QED  BY <2>1, <2>2
<1> QED  BY <1>3, <1>4, <1>5, <1>6 DEF IInv

LEMMA ChunkScannedIInv ==
  ASSUME IInv, ChunkScanned
  PROVE  IInv'
<1> USE DEF ChunkScanned, sourceVars, historyVars
<1>1. chunkEnd \in Int /\ cursor <= chunkEnd /\ chunkEnd <= safeHead
  BY ChunkEndType DEF IInv, PassInv
<1>2. cursor \in Nat /\ head \in Nat /\ safeHead \in Int /\ safeHead <= head
  BY DEF IInv, TypeOK
<1>3. TypeOK'
  BY <1>1, <1>2 DEF IInv, TypeOK
<1>4. PassInv'
  <2>1. pc' = "scan" => cursor' <= safeHead'
    BY <1>1, <1>2
  <2>2. fromBlock' <= cursor'
    BY <1>1, <1>2 DEF IInv, TypeOK, PassInv
  <2>3. ASSUME NEW b \in revoked', floor' <= b, b < cursor'
        PROVE  b \in handled' \cup found'
    <3>1. CASE b < cursor
      BY <2>3, <3>1 DEF IInv, PassInv
    <3>2. CASE ~(b < cursor)
      <4>1. b \in Int
        BY <1>2, <2>3 DEF IInv, TypeOK
      <4>2. b \in cursor..chunkEnd
        BY <1>1, <1>2, <2>3, <3>2, <4>1
      <4> QED  BY <2>3, <4>2
    <3> QED  BY <3>1, <3>2
  <2> QED  BY <2>1, <2>2, <2>3 DEF PassInv
<1>5. FileInv' /\ NoRevocationIsPassedOver'
  BY DEF IInv, FileInv, NoRevocationIsPassedOver
<1> QED  BY <1>3, <1>4, <1>5 DEF IInv

LEMMA ChunkFailsIInv ==
  ASSUME IInv, ChunkFails
  PROVE  IInv'
<1> USE DEF ChunkFails, sourceVars, passVars, historyVars
<1>1. TypeOK'
  BY DEF IInv, TypeOK
<1>2. PassInv' /\ FileInv' /\ NoRevocationIsPassedOver'
  BY DEF IInv, PassInv, FileInv, NoRevocationIsPassedOver
<1> QED  BY <1>1, <1>2 DEF IInv

LEMMA GroupHandledIInv ==
  ASSUME IInv, NEW b \in 1..MaxHead, GroupHandled(b)
  PROVE  IInv'
<1>1. PICK o \in Outcomes(b) :
        /\ processed' = o.applied
        /\ retryable' = IF o.is = "skipped-not-attested" THEN retryable \cup {b}
                                                         ELSE retryable \ {b}
  BY DEF GroupHandled
<1>2. o.applied \subseteq processed \cup {b}
  BY <1>1 DEF Outcomes
<1>3. b \in found /\ found \subseteq revoked
  BY DEF GroupHandled, IInv, TypeOK
<1>4. TypeOK'
  BY <1>1, <1>2, <1>3 DEF IInv, TypeOK, GroupHandled, sourceVars
<1>5. PassInv'
  BY DEF IInv, PassInv, GroupHandled, sourceVars
<1>6. FileInv' /\ NoRevocationIsPassedOver'
  BY DEF IInv, FileInv, NoRevocationIsPassedOver, GroupHandled, sourceVars
<1> QED  BY <1>4, <1>5, <1>6 DEF IInv

LEMMA PassEndsIInv ==
  ASSUME IInv, PassEnds
  PROVE  IInv'
<1> USE DEF PassEnds, PassOver, sourceVars, historyVars
<1>1. TypeOK'
  BY DEF IInv, TypeOK
<1>2. PassInv'
  BY DEF PassInv
<1>3. FileInv'
  BY DEF IInv, TypeOK, PassInv, FileInv
<1>4. NoRevocationIsPassedOver'
  BY DEF IInv, PassInv, NoRevocationIsPassedOver
<1> QED  BY <1>1, <1>2, <1>3, <1>4 DEF IInv

\* A block that is added is above every cursor.
LEMMA SourceGrowsIInv ==
  ASSUME IInv, SourceGrows
  PROVE  IInv'
<1> USE DEF SourceGrows, passVars, historyVars
<1>1. TypeOK'
  BY DEF IInv, TypeOK
<1>2. \A b \in revoked' : b \in revoked \/ b = head + 1
  OBVIOUS
<1>3. {cursor, fromBlock, file} \subseteq 0..head + 1 /\ head \in Nat
  BY DEF IInv, TypeOK
<1>4. PassInv' /\ NoRevocationIsPassedOver'
  BY <1>2, <1>3 DEF IInv, PassInv, NoRevocationIsPassedOver
<1>5. FileInv'
  BY DEF IInv, FileInv
<1> QED  BY <1>1, <1>4, <1>5 DEF IInv

LEMMA OthersProcessIInv ==
  ASSUME IInv, NEW b \in 1..MaxHead, OthersProcess(b)
  PROVE  IInv'
<1> USE DEF OthersProcess, sourceVars, passVars, historyVars
<1>1. TypeOK'
  BY DEF IInv, TypeOK
<1>2. PassInv' /\ FileInv' /\ NoRevocationIsPassedOver'
  BY DEF IInv, PassInv, FileInv, NoRevocationIsPassedOver
<1> QED  BY <1>1, <1>2 DEF IInv

LEMMA NextIInv == IInv /\ [Next]_vars => IInv'
<1> SUFFICES ASSUME IInv, [Next]_vars PROVE IInv'
  OBVIOUS
<1>1. CASE Wake
  BY <1>1, LeavesCursorsIInv DEF Wake
<1>2. CASE MirrorPassed
  BY <1>2, LeavesCursorsIInv DEF MirrorPassed
<1>3. CASE CycleThrows
  BY <1>3, LeavesCursorsIInv DEF CycleThrows
<1>4. CASE saveState
  BY <1>4, SaveIInv
<1>5. CASE Crash
  BY <1>5, CrashIInv
<1>6. CASE HeadRead
  BY <1>6, HeadReadIInv
<1>7. CASE ChunkScanned
  BY <1>7, ChunkScannedIInv
<1>8. CASE ChunkFails
  BY <1>8, ChunkFailsIInv
<1>9. CASE PassEnds
  BY <1>9, PassEndsIInv
<1>10. CASE \E b \in 1..MaxHead : GroupHandled(b) \/ OthersProcess(b)
  BY <1>10, GroupHandledIInv, OthersProcessIInv
<1>11. CASE SourceGrows
  BY <1>11, SourceGrowsIInv
<1>12. CASE UNCHANGED vars
  <2> USE <1>12 DEF vars, sourceVars, passVars, historyVars
  <2>1. TypeOK'
    BY DEF IInv, TypeOK
  <2>2. PassInv' /\ FileInv' /\ NoRevocationIsPassedOver'
    BY DEF IInv, PassInv, FileInv, NoRevocationIsPassedOver
  <2> QED  BY <2>1, <2>2 DEF IInv
<1> QED
  BY <1>1, <1>2, <1>3, <1>4, <1>5, <1>6, <1>7, <1>8, <1>9, <1>10, <1>11, <1>12
  DEF Next

LEMMA WorkerInvariant == Spec => []IInv
  BY InitIInv, NextIInv, PTL DEF Spec

-----------------------------------------------------------------------------
\* The variables of the worker keep their types; the cursor, in memory and on
\* disk, is never more than one block above the head of the source chain.
THEOREM WorkerTypeCorrect == Spec => []TypeOK
<1>1. IInv => TypeOK
  BY DEF IInv
<1> QED  BY <1>1, WorkerInvariant, PTL

\* Whatever fails in a pass, and wherever the worker crashes, no revocation is
\* below the cursor it goes on from and was never handed over.
THEOREM NothingPassedOver == Spec => []NoRevocationIsPassedOver
<1>1. IInv => NoRevocationIsPassedOver
  BY DEF IInv
<1> QED  BY <1>1, WorkerInvariant, PTL

=============================================================================
