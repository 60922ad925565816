---------------------------- MODULE RevokeWorker ----------------------------
(***************************************************************************)
(* worker/src/index.ts: the poll loop and its Sepolia revocation pass      *)
(* (pollRevokeSepolia), with the state file it resumes from (state.ts).    *)
(* The steps of a cycle run from one await to the next; the process may    *)
(* crash between any two, and while it writes the file.  The mirror passes *)
(* before and the mainnet pass after are steps that may throw: nothing     *)
(* they do touches the cursor.  A group is the block of its transaction,   *)
(* of which a block has at most one.  Reorganisations deeper than MARGIN   *)
(* are left out.                                                           *)
(***************************************************************************)
EXTENDS Integers, FiniteSetsExt

CONSTANTS
  MARGIN,       \* MARGIN[1]: blocks left for the source chain to settle
  WINDOW,       \* blocks below the head a scan without a cursor starts at
  CHUNK,        \* REVOKE_LOG_CHUNK
  FirstHead,    \* the head when the worker first starts
  MaxHead,      \* bound on the source chain
  MaxCrashes    \* bound on crashes

ASSUME RevokeWorkerAssumption ==
  /\ MARGIN \in Nat /\ WINDOW \in Nat /\ CHUNK \in Nat \ {0}
  /\ FirstHead \in Nat /\ MaxHead \in Nat /\ MaxCrashes \in Nat

VARIABLES
  head, revoked,     \* Sepolia: its head, the blocks with a Revoked log
  processed,         \* groups the registry has applied
  pc,                \* what the worker waits for
  safeHead, cursor,  \* locals of the pass
  found,             \* groups found and not yet handled
  fromBlock,         \* state.sepoliaRevokeLog.fromBlock; 0 is none
  file,              \* the same, in state.json
  handled,           \* history: groups handed to mirrorOrRevokeGroup
  retryable,         \* history: those whose last outcome asks for a retry
  floor,             \* history: where the scan without a cursor started
  crashes            \* bound: crashes so far

sourceVars == <<head, revoked>>
passVars == <<safeHead, cursor, found>>
historyVars == <<handled, retryable, floor, crashes>>
vars == <<sourceVars, processed, pc, passVars, fromBlock, file, historyVars>>

TypeOK ==
  /\ head \in Nat
  /\ revoked \subseteq 1..head
  /\ processed \subseteq revoked /\ found \subseteq revoked
  /\ pc \in {"sleep", "mirror", "head", "scan", "submit", "save"}
  /\ safeHead \in Int /\ safeHead <= head
  /\ {cursor, fromBlock, file, floor} \subseteq 0..head + 1
  /\ handled \subseteq revoked /\ retryable \subseteq handled
  /\ crashes \in 0..MaxCrashes

Init ==
  /\ head = FirstHead /\ revoked \in SUBSET (1..FirstHead)
  /\ processed = {}
  /\ pc = "sleep"
  /\ safeHead = 0 /\ cursor = 0 /\ found = {}
  /\ fromBlock = 0 /\ file = 0
  /\ handled = {} /\ retryable = {} /\ floor = 0 /\ crashes = 0

-----------------------------------------------------------------------------
(* The poll loop *)

Wake ==
  /\ pc = "sleep"
  /\ pc' = "mirror"
  /\ UNCHANGED <<sourceVars, processed, passVars, fromBlock, file, historyVars>>

\* The locals of the pass are gone.
PassOver == safeHead' = 0 /\ cursor' = 0 /\ found' = {}

MirrorPassed ==
  /\ pc = "mirror"
  /\ pc' = "head"
  /\ UNCHANGED <<sourceVars, processed, passVars, fromBlock, file, historyVars>>

\* An exception ends the cycle but not the loop: the mirror pass, the request
\* for the head, or a nonce that mirrorOrRevokeGroup cannot get.
CycleThrows ==
  /\ pc \in {"mirror", "head"} \/ (pc = "submit" /\ found # {})
  /\ pc' = "save"
  /\ PassOver
  /\ UNCHANGED <<sourceVars, processed, fromBlock, file, historyVars>>

saveState ==
  /\ pc = "save"
  /\ file' = fromBlock
  /\ pc' = "sleep"
  /\ UNCHANGED <<sourceVars, processed, passVars, fromBlock, historyVars>>

\* The process dies and loads the file when it starts again; a file it was
\* writing may be the old one, the new one, or unreadable, which is no cursor.
Crash ==
  /\ crashes < MaxCrashes
  /\ crashes' = crashes + 1
  /\ file' \in IF pc = "save" THEN {file, fromBlock, 0} ELSE {file}
  /\ fromBlock' = file'
  /\ pc' = "sleep"
  /\ PassOver
  /\ UNCHANGED <<sourceVars, processed, handled, retryable, floor>>

-----------------------------------------------------------------------------
(* pollRevokeSepolia *)

startOf(safe) == IF fromBlock # 0 THEN fromBlock ELSE Max({0, safe - WINDOW})

HeadRead ==
  /\ pc = "head"
  /\ safeHead' = head - MARGIN
  /\ cursor' = startOf(safeHead')
  /\ found' = {}
  /\ floor' = IF fromBlock # 0 THEN floor ELSE cursor'
  /\ pc' = IF cursor' > safeHead' THEN "save" ELSE "scan"
  /\ UNCHANGED <<sourceVars, processed, fromBlock, file, handled, retryable, crashes>>

\* Mistake: a chunk may end above the safe head.
chunkEndUncapped == cursor + CHUNK - 1

chunkEnd == Min({cursor + CHUNK - 1, safeHead})

ChunkScanned ==
  /\ pc = "scan"
  /\ found' = found \cup (revoked \cap cursor..chunkEnd)
  /\ cursor' = chunkEnd + 1
  /\ pc' = IF cursor' > safeHead THEN "submit" ELSE "scan"
  /\ UNCHANGED <<sourceVars, processed, safeHead, fromBlock, file, historyVars>>

\* Mistake: the chunk that cannot be scanned is skipped.
ChunkSkipped ==
  /\ pc = "scan"
  /\ cursor' = chunkEnd + 1
  /\ pc' = "submit"
  /\ UNCHANGED <<sourceVars, processed, safeHead, found, fromBlock, file, historyVars>>

\* getLogs fails: what was found so far is handled, the cursor stays.
ChunkFails ==
  /\ pc = "scan"
  /\ pc' = "submit"
  /\ UNCHANGED <<sourceVars, processed, passVars, fromBlock, file, historyVars>>

\* mirrorOrRevokeGroup on the group of block b, and what becomes of the
\* registry.  The prover may not have attested the block yet: the pass goes by
\* the head of the source chain, not by what is attested as pollMirror does.
Outcomes(b) ==
  IF b \in processed
  THEN {[is |-> "already-mirrored", applied |-> processed]}
  ELSE [is: {"mirrored"}, applied: {processed \cup {b}}] \cup
       [is: {"skipped-not-attested"}, applied: {processed}] \cup
       [is: {"failed"}, applied: {processed, processed \cup {b}}]

\* Whatever the outcome, the pass goes on with the next group.
GroupHandled(b) ==
  /\ pc = "submit"
  /\ b \in found /\ \A c \in found : b <= c
  /\ \E o \in Outcomes(b) :
       /\ processed' = o.applied
       /\ retryable' = IF o.is = "skipped-not-attested" THEN retryable \cup {b}
                                                        ELSE retryable \ {b}
  /\ handled' = handled \cup {b}
  /\ found' = found \ {b}
  /\ UNCHANGED <<sourceVars, pc, safeHead, cursor, fromBlock, file, floor, crashes>>

\* Mistake: the progress of a pass whose scan failed is thrown away.
PassEndsComplete ==
  /\ pc = "submit" /\ found = {}
  /\ fromBlock' = IF cursor > safeHead THEN cursor ELSE fromBlock
  /\ pc' = "save"
  /\ PassOver
  /\ UNCHANGED <<sourceVars, processed, file, historyVars>>

PassEnds ==
  /\ pc = "submit" /\ found = {}
  /\ fromBlock' = cursor
  /\ pc' = "save"
  /\ PassOver
  /\ UNCHANGED <<sourceVars, processed, file, historyVars>>

-----------------------------------------------------------------------------
(* The chains *)

SourceGrows ==
  /\ head < MaxHead
  /\ head' = head + 1
  /\ revoked' \in {revoked, revoked \cup {head + 1}}
  /\ UNCHANGED <<processed, pc, passVars, fromBlock, file, historyVars>>

\* Someone else submits the revocation, or an earlier transaction of the worker
\* that it gave up on is included after all.
OthersProcess(b) ==
  /\ b \in revoked
  /\ processed' = processed \cup {b}
  /\ UNCHANGED <<sourceVars, pc, passVars, fromBlock, file, historyVars>>

Next ==
  \/ Wake \/ MirrorPassed \/ CycleThrows \/ saveState \/ Crash
  \/ HeadRead \/ ChunkScanned \/ ChunkFails \/ PassEnds
  \/ \E b \in 1..MaxHead : GroupHandled(b) \/ OthersProcess(b)
  \/ SourceGrows

\* The loop runs on; a call to a node that is made again and again does not
\* fail for ever.
Fairness ==
  /\ WF_vars(Wake) /\ WF_vars(saveState) /\ WF_vars(PassEnds)
  /\ SF_vars(MirrorPassed) /\ SF_vars(HeadRead) /\ SF_vars(ChunkScanned)
  /\ \A b \in 1..MaxHead : SF_vars(GroupHandled(b))

Spec == Init /\ [][Next]_vars /\ Fairness

-----------------------------------------------------------------------------
(* Properties *)

\* The cursor in memory and the one on disk never pass a revocation that was
\* not handed to mirrorOrRevokeGroup: not when a chunk cannot be scanned, when
\* the pass throws between two groups, or when the worker crashes anywhere
\* ("Persists progress across restarts").
NoRevocationIsPassedOver ==
  \A b \in revoked :
    floor <= b /\ (b < fromBlock \/ b < file) => b \in handled

\* Every revocation that has settled, and that was not older than the window
\* when a scan without a cursor started, is handed over in the end.
EveryRevocationIsExamined ==
  \A b \in 1..MaxHead :
    b \in revoked /\ b <= head - MARGIN ~> b \in handled \/ b < floor

\* A revocation whose block the prover could not prove yet is ahead of the
\* cursor when the worker sleeps ("retryable (will be re-attempted next poll
\* cycle)", mirrorOrRevokeGroup).
RetryableIsAhead == pc = "sleep" => \A b \in retryable : b >= fromBlock

=============================================================================
