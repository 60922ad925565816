-------------------------- MODULE MainnetRevocations --------------------------
(***************************************************************************)
(* worker/src/index.ts, the mainnet revocation pass of the poll loop:      *)
(* pollRevokeMainnetEtherscan, which walks down from the head and keeps a  *)
(* cursor and a stuck counter in the state file, and without an API key    *)
(* pollRevokeMainnetRecent, which scans a window anew each cycle.  What    *)
(* the cycle does before this pass is one step, which may throw.  A group  *)
(* is the block of its transaction, of which a block has at most one.      *)
(***************************************************************************)
EXTENDS Integers, FiniteSetsExt

CONSTANTS
  MARGIN,       \* MARGIN[3]
  CHUNK,        \* ETHERSCAN_CHUNK
  TAIL,         \* the 1000 blocks a saturated slice shrinks to
  TRUSTED,      \* ETHERSCAN_TRUSTED_LOG_COUNT
  GROUPS,       \* MAINNET_REVOKE_GROUPS_PER_CYCLE
  BLOCKS,       \* MAINNET_REVOKE_BLOCKS_PER_CYCLE
  MAX_SKIPPED,  \* MAINNET_REVOKE_MAX_SKIPPED
  WINDOW,       \* MAINNET_REVOKE_RECENT_WINDOW
  FirstHead,    \* the head when the worker first starts
  MaxHead       \* bound on the source chain

ASSUME MainnetAssumption ==
  /\ {MARGIN, BLOCKS, FirstHead, MaxHead} \subseteq Nat
  /\ {CHUNK, TAIL, TRUSTED, GROUPS, MAX_SKIPPED, WINDOW} \subseteq Nat \ {0}
  /\ TAIL < CHUNK
  /\ FirstHead <= MaxHead

VARIABLES
  hasKey,                \* ETHERSCAN_API_KEY is set
  head, revoked,         \* mainnet: its head, the blocks with a Revoked log
  unprovable,            \* those the prover will never have a proof for
  processed,             \* groups the registry has applied
  pc,
  high, low, walked,     \* locals of the walk
  found,                 \* groups of the slice not yet handled
  acted, unattested,
  state, file,           \* the worker's state, and state.json
  accounted,             \* history: groups handed to mirrorOrRevokeGroup, or
                         \* left out of a saturated answer
  stalls,                \* history: cycles in a row that left a slice for the
                         \* next, since the last crash
  stallsHere             \* history: those since the head has last moved

sourceVars == <<hasKey, head, revoked, unprovable>>
sliceVars == <<low, found, unattested>>
localVars == <<high, walked, acted, sliceVars>>
stallVars == <<stalls, stallsHere>>
historyVars == <<accounted, stallVars>>
vars == <<sourceVars, processed, pc, localVars, state, file, historyVars>>

Blocks == 0..MaxHead

\* mainnetRevokeLog and mainnetRevokeStuck.  top is history: the last block of
\* the slice that the cursor was set for.
State == [fromBlock: Blocks, top: Blocks, atBlock: Blocks, count: 0..MAX_SKIPPED]

defaultState == [fromBlock |-> 0, top |-> 0, atBlock |-> 0, count |-> 0]

TypeOK ==
  /\ hasKey \in BOOLEAN /\ head \in Blocks
  /\ revoked \subseteq 1..head /\ unprovable \subseteq revoked
  /\ processed \subseteq revoked \ unprovable
  /\ pc \in {"sleep", "head", "fetch", "groups", "save"}
  /\ high \in -1..head /\ low \in 0..head /\ walked \in Nat
  /\ found \subseteq revoked \cap low..high
  /\ acted \in Nat /\ unattested \in Nat
  /\ state \in State /\ file \in State
  /\ state.fromBlock <= state.top /\ state.count < MAX_SKIPPED
  /\ accounted \subseteq revoked /\ stalls \in Nat /\ stallsHere \in Nat

NoLocals ==
  high = 0 /\ walked = 0 /\ acted = 0 /\ low = 0 /\ found = {} /\ unattested = 0

Init ==
  /\ hasKey \in BOOLEAN /\ head = FirstHead
  /\ revoked \in SUBSET (1..FirstHead) /\ unprovable \in SUBSET revoked
  /\ processed = {} /\ accounted = {}
  /\ pc = "sleep" /\ NoLocals
  /\ state = defaultState /\ file = defaultState
  /\ stalls = 0 /\ stallsHere = 0

-----------------------------------------------------------------------------
(* The poll loop *)

\* The mirror passes and the Sepolia pass are over.
Wake ==
  /\ pc = "sleep"
  /\ pc' = "head"
  /\ UNCHANGED <<sourceVars, processed, localVars, state, file, historyVars>>

\* One of them throws.
CycleThrows ==
  /\ pc = "sleep"
  /\ pc' = "save"
  /\ UNCHANGED <<sourceVars, processed, localVars, state, file, historyVars>>

EndPass ==
  /\ pc' = "save"
  /\ high' = 0 /\ walked' = 0 /\ acted' = 0 /\ low' = 0 /\ found' = {} /\ unattested' = 0

saveState ==
  /\ pc = "save"
  /\ pc' = "sleep"
  /\ file' = state
  /\ UNCHANGED <<sourceVars, processed, localVars, state, historyVars>>

\* A file that was being written may be the old one, the new one, or
\* unreadable, which is the default state.
Crash ==
  /\ pc # "sleep"
  /\ file' \in IF pc = "save" THEN {file, state, defaultState} ELSE {file}
  /\ state' = file'
  /\ pc' = "sleep"
  /\ high' = 0 /\ walked' = 0 /\ acted' = 0 /\ low' = 0 /\ found' = {} /\ unattested' = 0
  /\ stalls' = 0 /\ stallsHere' = 0
  /\ UNCHANGED <<sourceVars, processed, accounted>>

\* getBlockNumber fails.
HeadFails ==
  /\ pc = "head"
  /\ EndPass
  /\ UNCHANGED <<sourceVars, processed, state, file, historyVars>>

-----------------------------------------------------------------------------
(* pollRevokeMainnet *)

target == Max({0, head - MARGIN})

\* Where the walk goes on from h: another slice, or the end of the pass.
WalkFrom(h, w, cursor) ==
  IF h > cursor /\ w < BLOCKS
  THEN /\ pc' = "fetch" /\ high' = h /\ walked' = w
       /\ UNCHANGED <<acted, sliceVars>>
  ELSE EndPass

HeadRead ==
  /\ pc = "head"
  /\ IF ~hasKey
     THEN pc' = "fetch" /\ high' = target /\ UNCHANGED <<walked, acted, sliceVars>>
     ELSE WalkFrom(target, 0, state.fromBlock)
  /\ UNCHANGED <<sourceVars, processed, state, file, historyVars>>

Logs(l, h) == revoked \cap l..h
Saturated(l, h) == Cardinality(Logs(l, h)) >= TRUSTED

\* The slice below high, shrunk to its tail when its answer cannot be trusted.
firstLow == Max({state.fromBlock, high - CHUNK + 1})
Shrinks == Saturated(firstLow, high) /\ high - firstLow > TAIL
sliceLow == IF Shrinks THEN high - TAIL + 1 ELSE firstLow

recentLow == Max({0, high - WINDOW})

\* Etherscan may leave logs out of an answer that is not below TRUSTED.
Answers(l, h) ==
  IF Saturated(l, h) THEN {a \in SUBSET Logs(l, h) : Cardinality(a) >= TRUSTED}
                     ELSE {Logs(l, h)}

\* One getLogs answers, or two where the slice shrinks.  An empty slice moves
\* the cursor as a handled one does.
SliceFetched ==
  /\ pc = "fetch"
  /\ LET l == IF hasKey THEN sliceLow ELSE recentLow
     IN  /\ low' = l
         /\ found' \in IF hasKey THEN Answers(l, high) ELSE {Logs(l, high)}
         /\ accounted' = accounted \cup (Logs(l, high) \ found')
  /\ unattested' = 0
  /\ pc' = "groups"
  /\ UNCHANGED <<sourceVars, processed, high, walked, acted, state, file, stallVars>>

\* Mistake: the answer from before the failed shrink is processed.
SliceKept ==
  /\ pc = "fetch" /\ hasKey
  /\ low' = sliceLow /\ unattested' = 0
  /\ found' \in Answers(firstLow, high)
  /\ pc' = "groups"
  /\ UNCHANGED <<sourceVars, processed, high, walked, acted, state, file, historyVars>>

\* Etherscan, at the first or the second call, or every RPC node fails.
FetchFails ==
  /\ pc = "fetch"
  /\ EndPass
  /\ UNCHANGED <<sourceVars, processed, state, file, historyVars>>

-----------------------------------------------------------------------------
(* mirrorOrRevokeGroup and the book-keeping of a slice *)

\* Mistake: every outcome uses up the budget.
CountsAny(outcome) == TRUE

Counts(outcome) == outcome = "mirrored"

\* Groups come in the order of their blocks.
NextGroup(b) == pc = "groups" /\ b \in found /\ \A c \in found : b <= c
BudgetHit == hasKey /\ acted >= GROUPS

Handle(b, outcome) ==
  /\ NextGroup(b) /\ ~BudgetHit
  /\ found' = found \ {b}
  /\ accounted' = accounted \cup {b}
  /\ acted' = IF Counts(outcome) THEN acted + 1 ELSE acted
  /\ unattested' = IF outcome = "skipped-not-attested" THEN unattested + 1 ELSE unattested
  /\ UNCHANGED <<sourceVars, pc, high, low, walked, state, file, stallVars>>

GroupApplied(b) ==
  /\ b \notin unprovable
  /\ processed' = processed \cup {b}
  /\ Handle(b, IF b \in processed THEN "already-mirrored" ELSE "mirrored")

\* The dedupe check fails, the prover has no proof yet, or anything else goes wrong.
GroupNotApplied(b) ==
  /\ \E outcome \in {"failed"} \cup (IF b \in processed THEN {} ELSE {"skipped-not-attested"}) :
       Handle(b, outcome)
  /\ UNCHANGED processed

\* nonces.take, outside the try of mirrorOrRevokeGroup, throws.
TakeThrows(b) ==
  /\ NextGroup(b) /\ ~BudgetHit /\ b \notin processed \cup unprovable
  /\ EndPass
  /\ UNCHANGED <<sourceVars, processed, state, file, historyVars>>

\* The slice is left for the next cycle.
OutOfBudget ==
  /\ pc = "groups" /\ found # {} /\ BudgetHit
  /\ EndPass
  /\ UNCHANGED <<sourceVars, processed, state, file, historyVars>>

\* Mistake: the count starts anew each time.
stuckCountReset == 1

stuckCount == IF state.atBlock = low THEN state.count + 1 ELSE 1

\* Groups without a proof hold the cursor, for a while.
SliceStalls ==
  /\ pc = "groups" /\ found = {} /\ hasKey
  /\ unattested > 0 /\ stuckCount < MAX_SKIPPED
  /\ state' = [state EXCEPT !.atBlock = low, !.count = stuckCount]
  /\ stalls' = stalls + 1 /\ stallsHere' = stallsHere + 1
  /\ EndPass
  /\ UNCHANGED <<sourceVars, processed, file, accounted>>

\* cursor = low, high = cursor - 1, and the walk goes on.
SliceDone ==
  /\ pc = "groups" /\ found = {} /\ hasKey
  /\ unattested = 0 \/ stuckCount >= MAX_SKIPPED
  /\ state' = [fromBlock |-> low, top |-> high,
               atBlock |-> IF unattested = 0 THEN state.atBlock ELSE 0,
               count |-> IF unattested = 0 THEN state.count ELSE 0]
  /\ stalls' = 0 /\ stallsHere' = 0
  /\ WalkFrom(low - 1, walked + high - low + 1, low)
  /\ UNCHANGED <<sourceVars, processed, file, accounted>>

\* The recent scan keeps nothing.
RecentDone ==
  /\ pc = "groups" /\ found = {} /\ ~hasKey
  /\ EndPass
  /\ UNCHANGED <<sourceVars, processed, state, file, historyVars>>

-----------------------------------------------------------------------------
(* The chains *)

\* Blocks above its target mean nothing to a pass, so they come between passes.
SourceGrows ==
  /\ pc = "sleep" /\ head < MaxHead
  /\ head' = head + 1
  /\ \/ UNCHANGED <<revoked, unprovable>>
     \/ /\ revoked' = revoked \cup {head + 1}
        /\ unprovable' \in {unprovable, unprovable \cup {head + 1}}
  /\ stallsHere' = 0
  /\ UNCHANGED <<hasKey, processed, pc, localVars, state, file, accounted, stalls>>

Next ==
  \/ Wake \/ CycleThrows \/ saveState \/ Crash \/ HeadFails
  \/ HeadRead \/ SliceFetched \/ FetchFails
  \/ \E b \in Blocks : GroupApplied(b) \/ GroupNotApplied(b) \/ TakeThrows(b)
  \/ OutOfBudget \/ SliceStalls \/ SliceDone \/ RecentDone
  \/ SourceGrows

\* The loop runs on, and the process does not crash for ever; a call that is
\* made again and again does not fail each time, and of the groups that have a
\* proof not all are refused each time.  (A crash right after the write is no
\* different from a save.)
Fairness ==
  /\ WF_vars(\/ saveState \/ OutOfBudget \/ SliceStalls \/ SliceDone \/ RecentDone
             \/ \E b \in Blocks : GroupApplied(b) \/ GroupNotApplied(b))
  /\ SF_vars(Wake) /\ SF_vars(HeadRead) /\ SF_vars(SliceFetched)
  /\ SF_vars(\E b \in Blocks \ processed : GroupApplied(b))
  /\ <>[][Crash => saveState]_vars

Spec == Init /\ [][Next]_vars /\ Fairness

-----------------------------------------------------------------------------
(* Properties *)

\* What the cursor claims, that every block from it up to the last walk's
\* start has been processed ("this is the earliest block already processed",
\* state.ts), holds for every revocation that Etherscan did not leave out of
\* an answer: across failed shrinks, budgets, stalls and crashes.
NothingAboveTheCursorIsMissed ==
  \A b \in revoked \cap (state.fromBlock..state.top) : b \in accounted

\* While the head stands still and the worker does not crash, a slice is left for the
\* next cycle at most MAX_SKIPPED - 1 times: the counter that abandons it survives
\* cycles that throw, run out of budget, or cannot fetch.
StallsAreBounded == stallsHere < MAX_SKIPPED


\* The blocks below the settled head that every pass looks at, unless they hold
\* more logs than Etherscan is trusted to return.
Fresh ==
  LET from == IF hasKey THEN target - TAIL + 1 ELSE target - WINDOW
  IN  IF hasKey /\ Cardinality(Logs(from, target)) > TRUSTED THEN {} ELSE from..target

\* A revocation that can be proven is applied, or the head moves on: whatever
\* the unprovable ones around it, the budget and the failures, with and
\* without an API key ("one permanently unprovable group cannot starve fresh
\* revocations during continuous operation").
FreshRevocationsAreApplied ==
  \A b \in 1..MaxHead :
    b \in revoked \ unprovable /\ b \in Fresh ~> b \in processed \/ b \notin Fresh

\* The backfill reaches every revocation, however old ("walking
\* newest-blocks-first from head. Etherscan indexes the full history, so
\* previously-unreachable old revocations become mirrorable").
HistoryIsWalked ==
  \A b \in Blocks :
    hasKey /\ b \in revoked /\ b <= target ~> b \in accounted

=============================================================================
