--------------------- MODULE MainnetRevocations_proofs ---------------------
(***************************************************************************)
(* What the cursor of the mainnet walk claims is true, and a slice stalls  *)
(* a bounded number of cycles, for every margin, slice, budget and number  *)
(* of blocks, failures and crashes.                                        *)
(***************************************************************************)
EXTENDS MainnetRevocations, TLAPS

\* What a cursor, in memory or in the file, claims.
Claim(s) ==
  /\ s.fromBlock <= s.top /\ s.top <= head /\ s.count < MAX_SKIPPED
  /\ \A b \in revoked \cap (s.fromBlock..s.top) : b \in accounted

\* Where the walk stands: above the cursor, with what is left of its slice.
WalkInv ==
  /\ pc # "groups" => found = {}
  /\ hasKey =>
       /\ pc \in {"fetch", "groups"} => state.fromBlock < high
       /\ pc = "groups" => low <= high
       /\ pc = "groups" => \A b \in revoked \cap (low..high) : b \in accounted \cup found

IInv == TypeOK /\ WalkInv /\ Claim(state) /\ Claim(file)

-----------------------------------------------------------------------------
LEMMA MaxOfTwo ==
  ASSUME NEW m \in Int, NEW n \in Int
  PROVE  Max({m, n}) = IF m >= n THEN m ELSE n
  BY DEF Max

\* The settled head is a block of the chain.
LEMMA TargetType ==
  ASSUME TypeOK
  PROVE  target \in 0..head
<1>1. head \in Nat /\ MARGIN \in Nat
  BY MainnetAssumption DEF TypeOK, Blocks
<1>2. Max({0, head - MARGIN}) = IF 0 >= head - MARGIN THEN 0 ELSE head - MARGIN
  BY <1>1, MaxOfTwo
<1> QED  BY <1>1, <1>2 DEF target

\* A slice lies above the cursor and holds at least the block it begins at.
LEMMA SliceLowType ==
  ASSUME TypeOK, state.fromBlock < high
  PROVE  sliceLow \in 0..head /\ sliceLow <= high
<1>1. state.fromBlock \in Nat /\ high \in Int /\ high <= head /\ head \in Nat
  BY MainnetAssumption DEF TypeOK, State, Blocks
<1>2. CHUNK \in Nat \ {0} /\ TAIL \in Nat \ {0}
  BY MainnetAssumption
<1>3. firstLow = IF state.fromBlock >= high - CHUNK + 1
                 THEN state.fromBlock ELSE high - CHUNK + 1
  BY <1>1, <1>2, MaxOfTwo DEF firstLow
<1>4. firstLow \in Int /\ 0 <= firstLow /\ firstLow <= high
  BY <1>1, <1>2, <1>3
<1>5. sliceLow = firstLow \/ (high - firstLow > TAIL /\ sliceLow = high - TAIL + 1)
  BY DEF sliceLow, Shrinks
<1> QED  BY <1>1, <1>2, <1>4, <1>5

LEMMA RecentLowType ==
  ASSUME TypeOK
  PROVE  recentLow \in 0..head
<1>1. high \in Int /\ high <= head /\ head \in Nat /\ WINDOW \in Nat \ {0}
  BY MainnetAssumption DEF TypeOK, Blocks
<1>2. Max({0, high - WINDOW}) = IF 0 >= high - WINDOW THEN 0 ELSE high - WINDOW
  BY <1>1, MaxOfTwo
<1> QED  BY <1>1, <1>2 DEF recentLow

\* An answer holds nothing but logs of its range.
LEMMA AnswersAreLogs ==
  ASSUME NEW l, NEW h, NEW a \in Answers(l, h)
  PROVE  a \subseteq Logs(l, h)
  BY DEF Answers

-----------------------------------------------------------------------------
\* A step that leaves the walk, or stays outside it, and what the cursors claim.
LEMMA EndsIInv ==
  ASSUME IInv,
         EndPass \/ (pc = "sleep" /\ pc' \in {"head", "save"} /\ UNCHANGED localVars),
         UNCHANGED <<sourceVars, processed, state, file, accounted>>,
         stalls' \in Nat /\ stallsHere' \in Nat
  PROVE  IInv'
<1> USE DEF sourceVars, localVars, sliceVars, EndPass
<1>1. TypeOK'
  <2>1. CASE EndPass
    BY <2>1 DEF IInv, TypeOK, Blocks, State
  <2>2. CASE pc = "sleep" /\ pc' \in {"head", "save"} /\ UNCHANGED localVars
    BY <2>2 DEF IInv, TypeOK, Blocks, State
  <2> QED  BY <2>1, <2>2
<1>2. WalkInv'
  BY DEF IInv, WalkInv
<1>3. Claim(state)' /\ Claim(file)'
  BY DEF IInv, Claim
<1> QED  BY <1>1, <1>2, <1>3 DEF IInv

LEMMA InitIInv == Init => IInv
<1> SUFFICES ASSUME Init PROVE IInv
  OBVIOUS
<1> USE MainnetAssumption DEF Init, NoLocals, defaultState
<1>1. TypeOK
  BY DEF TypeOK, Blocks, State
<1>2. WalkInv
  BY DEF WalkInv
<1>3. Claim(state) /\ Claim(file)
  BY DEF Claim
<1> QED  BY <1>1, <1>2, <1>3 DEF IInv

LEMMA SaveIInv ==
  ASSUME IInv, saveState
  PROVE  IInv'
<1> USE DEF saveState, sourceVars, localVars, sliceVars, historyVars, stallVars
<1>1. TypeOK'
  BY DEF IInv, TypeOK, Blocks, State
<1>2. WalkInv' /\ Claim(state)' /\ Claim(file)'
  BY DEF IInv, WalkInv, Claim
<1> QED  BY <1>1, <1>2 DEF IInv

\* The file and the state it may have become claim nothing that is not so; the default
\* state claims nothing.
LEMMA CrashIInv ==
  ASSUME IInv, Crash
  PROVE  IInv'
<1> USE DEF Crash, sourceVars
<1>1. file' \in {file, state, defaultState} /\ state' = file'
  OBVIOUS
<1>2. defaultState \in State /\ Claim(defaultState)
  BY MainnetAssumption DEF IInv, TypeOK, defaultState, State, Blocks, Claim
<1>3. file' \in State /\ state' \in State
  BY <1>1, <1>2 DEF IInv, TypeOK
<1>4. Claim(state)' /\ Claim(file)'
  BY <1>1, <1>2 DEF IInv, Claim
<1>5. TypeOK'
  <2>1. state'.fromBlock <= state'.top /\ state'.count < MAX_SKIPPED
    BY <1>4 DEF Claim
  <2> QED  BY <1>3, <2>1 DEF IInv, TypeOK, Blocks
<1>6. WalkInv'
  BY DEF WalkInv
<1> QED  BY <1>4, <1>5, <1>6 DEF IInv

LEMMA HeadReadIInv ==
  ASSUME IInv, HeadRead
  PROVE  IInv'
<1> USE DEF HeadRead, sourceVars, sliceVars, historyVars, stallVars
<1>1. target \in 0..head
  BY TargetType DEF IInv
<1>2. CASE EndPass
  <2>1. stalls' \in Nat /\ stallsHere' \in Nat
    BY DEF IInv, TypeOK
  <2> QED  BY <1>2, <2>1, EndsIInv
<1>3. CASE ~EndPass
  <2>1. /\ pc' = "fetch" /\ high' = target /\ walked' \in {walked, 0}
        /\ UNCHANGED <<acted, sliceVars>>
        /\ hasKey => target > state.fromBlock
    BY <1>3 DEF WalkFrom
  <2>2. found' = {}
    <3>1. pc = "head"
      OBVIOUS
    <3> QED  BY <3>1, <2>1 DEF IInv, WalkInv
  <2>3. TypeOK'
    BY <1>1, <2>1, <2>2 DEF IInv, TypeOK, Blocks, State
  <2>4. WalkInv' /\ Claim(state)' /\ Claim(file)'
    BY <1>1, <2>1, <2>2 DEF IInv, WalkInv, Claim
  <2> QED  BY <2>3, <2>4 DEF IInv
<1> QED  BY <1>2, <1>3

LEMMA SliceFetchedIInv ==
  ASSUME IInv, SliceFetched
  PROVE  IInv'
<1> USE DEF SliceFetched, sourceVars, historyVars, stallVars
<1>1. low' \in 0..head /\ (hasKey => low' <= high)
  BY SliceLowType, RecentLowType DEF IInv, WalkInv
<1>2. found' \subseteq Logs(low', high)
  BY AnswersAreLogs
<1>3. accounted' = accounted \cup (Logs(low', high) \ found')
  OBVIOUS
<1>4. TypeOK'
  BY <1>1, <1>2, <1>3 DEF IInv, TypeOK, Logs, Blocks
<1>5. WalkInv'
  BY <1>1, <1>3 DEF IInv, WalkInv, Logs
<1>6. Claim(state)' /\ Claim(file)'
  BY <1>3 DEF IInv, Claim
<1> QED  BY <1>4, <1>5, <1>6 DEF IInv

LEMMA HandleIInv ==
  ASSUME IInv, NEW b \in Blocks, NEW outcome, Handle(b, outcome),
         processed' \subseteq revoked \ unprovable
  PROVE  IInv'
<1> USE DEF Handle, NextGroup, sourceVars, stallVars
<1>1. TypeOK'
  <2>1. acted' \in Nat /\ unattested' \in Nat
    BY DEF IInv, TypeOK
  <2>2. found' \subseteq revoked \cap low..high /\ accounted' \subseteq revoked
    BY DEF IInv, TypeOK
  <2> QED  BY <2>1, <2>2 DEF IInv, TypeOK, Blocks
<1>2. WalkInv'
  BY DEF IInv, WalkInv
<1>3. Claim(state)' /\ Claim(file)'
  BY DEF IInv, Claim
<1> QED  BY <1>1, <1>2, <1>3 DEF IInv

LEMMA StallIInv ==
  ASSUME IInv, SliceStalls
  PROVE  IInv'
<1> USE DEF SliceStalls, sourceVars, EndPass
<1>1. stuckCount \in 0..MAX_SKIPPED /\ stuckCount < MAX_SKIPPED
  BY MainnetAssumption DEF IInv, TypeOK, State, stuckCount
<1>2. low \in Blocks
  BY MainnetAssumption DEF IInv, TypeOK, Blocks
<1>3. /\ state' \in State
      /\ state'.fromBlock = state.fromBlock /\ state'.top = state.top
      /\ state'.count = stuckCount
  BY <1>1, <1>2 DEF IInv, TypeOK, State
<1>4. TypeOK'
  BY <1>1, <1>3 DEF IInv, TypeOK, Blocks
<1>5. Claim(state)' /\ Claim(file)'
  BY <1>1, <1>3 DEF IInv, Claim
<1>6. WalkInv'
  BY DEF WalkInv
<1> QED  BY <1>4, <1>5, <1>6 DEF IInv

\* The slice is accounted for, so the cursor may be set for it.
LEMMA SliceDoneIInv ==
  ASSUME IInv, SliceDone
  PROVE  IInv'
<1> USE DEF SliceDone, sourceVars, sliceVars
<1>1. low \in 0..head /\ high \in Int /\ low <= high /\ high <= head /\ head \in 0..MaxHead
  BY MainnetAssumption DEF IInv, TypeOK, WalkInv, Blocks
<1>2. /\ state' \in State
      /\ state'.fromBlock = low /\ state'.top = high
      /\ state'.count < MAX_SKIPPED
  BY <1>1, MainnetAssumption DEF IInv, TypeOK, State, Blocks
<1>3. \A b \in revoked \cap (low..high) : b \in accounted
  BY DEF IInv, WalkInv
<1>4. Claim(state)'
  BY <1>1, <1>2, <1>3 DEF Claim
<1>5. Claim(file)'
  BY DEF IInv, Claim
<1>6. \/ EndPass
      \/ /\ pc' = "fetch" /\ high' = low - 1 /\ walked' = walked + high - low + 1
         /\ UNCHANGED <<acted, sliceVars>> /\ low - 1 > low
  BY DEF WalkFrom
<1>7. EndPass
  BY <1>1, <1>6
<1>8. TypeOK'
  BY <1>1, <1>2, <1>7 DEF IInv, TypeOK, EndPass, Blocks
<1>9. WalkInv'
  BY <1>7 DEF WalkInv, EndPass
<1> QED  BY <1>4, <1>5, <1>8, <1>9 DEF IInv

LEMMA SourceIInv ==
  ASSUME IInv, SourceGrows
  PROVE  IInv'
<1> USE DEF SourceGrows, localVars, sliceVars, historyVars, stallVars
<1>1. head' = head + 1 /\ head \in 0..MaxHead /\ head' \in 0..MaxHead
  BY MainnetAssumption DEF IInv, TypeOK, Blocks
<1>2. revoked \subseteq 1..head /\ unprovable \subseteq revoked
  BY DEF IInv, TypeOK
<1>3. head + 1 \notin revoked
  BY <1>1, <1>2
<1>4. processed \subseteq revoked \ unprovable
  BY DEF IInv, TypeOK
<1>5. /\ revoked' \in {revoked, revoked \cup {head + 1}}
      /\ unprovable' \in {unprovable, unprovable \cup {head + 1}}
      /\ unprovable' = unprovable \/ head + 1 \in revoked'
  OBVIOUS
<1>6. /\ revoked' \subseteq revoked \cup {head + 1} /\ revoked \subseteq revoked'
      /\ unprovable' \subseteq revoked'
      /\ processed \subseteq revoked' \ unprovable'
  BY <1>2, <1>3, <1>4, <1>5
<1>7. revoked' \subseteq 1..head'
  BY <1>1, <1>2, <1>6
<1>8. TypeOK'
  BY <1>1, <1>6, <1>7 DEF IInv, TypeOK, Blocks
<1>9. WalkInv'
  BY DEF IInv, WalkInv
<1>10. Claim(state)' /\ Claim(file)'
  BY <1>1, <1>6 DEF IInv, TypeOK, State, Blocks, Claim
<1> QED  BY <1>8, <1>9, <1>10 DEF IInv

-----------------------------------------------------------------------------
LEMMA NextIInv ==
  ASSUME IInv, [Next]_vars
  PROVE  IInv'
<1> USE DEF historyVars, stallVars
<1>0. stalls \in Nat /\ stallsHere \in Nat
  BY DEF IInv, TypeOK
<1>1. CASE Wake \/ CycleThrows
  BY <1>0, <1>1, EndsIInv DEF Wake, CycleThrows
<1>2. CASE HeadFails \/ FetchFails \/ OutOfBudget \/ RecentDone
  BY <1>0, <1>2, EndsIInv DEF HeadFails, FetchFails, OutOfBudget, RecentDone
<1>3. ASSUME NEW b \in Blocks, TakeThrows(b)
      PROVE  IInv'
  BY <1>0, <1>3, EndsIInv DEF TakeThrows
<1>4. CASE saveState
  BY <1>4, SaveIInv
<1>5. CASE Crash
  BY <1>5, CrashIInv
<1>6. CASE HeadRead
  BY <1>6, HeadReadIInv
<1>7. CASE SliceFetched
  BY <1>7, SliceFetchedIInv
<1>8. ASSUME NEW b \in Blocks, GroupApplied(b)
      PROVE  IInv'
  <2>1. processed' \subseteq revoked \ unprovable
    BY <1>8 DEF GroupApplied, Handle, NextGroup, IInv, TypeOK
  <2> QED  BY <1>8, <2>1, HandleIInv DEF GroupApplied
<1>9. ASSUME NEW b \in Blocks, GroupNotApplied(b)
      PROVE  IInv'
  <2>1. processed' \subseteq revoked \ unprovable
    BY <1>9 DEF GroupNotApplied, IInv, TypeOK
  <2> QED  BY <1>9, <2>1, HandleIInv DEF GroupNotApplied
<1>10. CASE SliceStalls
  BY <1>10, StallIInv
<1>11. CASE SliceDone
  BY <1>11, SliceDoneIInv
<1>12. CASE SourceGrows
  BY <1>12, SourceIInv
<1>13. CASE UNCHANGED vars
  <2> USE <1>13 DEF vars, sourceVars, localVars, sliceVars
  <2>1. TypeOK'
    BY DEF IInv, TypeOK, Blocks, State
  <2>2. WalkInv' /\ Claim(state)' /\ Claim(file)'
    BY DEF IInv, WalkInv, Claim
  <2> QED  BY <2>1, <2>2 DEF IInv
<1> QED
  BY <1>1, <1>2, <1>3, <1>4, <1>5, <1>6, <1>7, <1>8, <1>9, <1>10, <1>11, <1>12, <1>13
  DEF Next

LEMMA Invariance == Spec => []IInv
<1>1. Init => IInv
  BY InitIInv
<1>2. IInv /\ [Next]_vars => IInv'
  BY NextIInv
<1> QED  BY <1>1, <1>2, PTL DEF Spec

\* Every variable of the worker's mainnet pass keeps to its kind.
THEOREM TypeCorrect == Spec => []TypeOK
<1>1. IInv => TypeOK
  BY DEF IInv
<1> QED  BY <1>1, Invariance, PTL

\* From the block of the cursor up to the block the walk was at, every revocation has
\* been handed over or was left out of a saturated answer (worker/src/index.ts,
\* pollRevokeMainnetEtherscan, and the state file's comment on its cursor).
THEOREM CursorIsTrue == Spec => []NothingAboveTheCursorIsMissed
<1>1. IInv => NothingAboveTheCursorIsMissed
  BY DEF IInv, Claim, NothingAboveTheCursorIsMissed
<1> QED  BY <1>1, Invariance, PTL
-----------------------------------------------------------------------------
(* How long a slice may stall *)

\* Where the slice that ends at h would begin, the cursor and the logs being what they are.
firstLowOf(h) == Max({state.fromBlock, h - CHUNK + 1})
sliceLowOf(h) ==
  IF Saturated(firstLowOf(h), h) /\ h - firstLowOf(h) > TAIL
  THEN h - TAIL + 1 ELSE firstLowOf(h)

\* With a key a pass looks at one slice only, the one below the settled head, so the
\* counter is keyed by a block that stays as long as the head does.  The cycles of
\* the present head are those the counter has counted.
StallInv ==
  /\ hasKey /\ pc \in {"fetch", "groups"} => high = target
  /\ hasKey /\ pc = "groups" => low = sliceLowOf(target)
  /\ \/ stallsHere = 0
     \/ state.atBlock = sliceLowOf(target) /\ stallsHere <= state.count

\* A step that leaves the chain, the cursor and the counters as they are and stays
\* outside of a slice.
LEMMA QuietStallInv ==
  ASSUME TypeOK, StallInv,
         UNCHANGED <<sourceVars, state, stallsHere>>,
         pc' \notin {"fetch", "groups"}
  PROVE  StallInv'
<1> USE DEF sourceVars
<1>1. target' = target /\ sliceLowOf(target)' = sliceLowOf(target)
  BY DEF sliceLowOf, firstLowOf, Saturated, Logs, target
<1> QED  BY <1>1 DEF StallInv

LEMMA FetchedStallInv ==
  ASSUME TypeOK, StallInv, SliceFetched
  PROVE  StallInv'
<1> USE DEF SliceFetched, sourceVars, stallVars
<1>1. target' = target
  BY DEF target
<1>2. sliceLowOf(target)' = sliceLowOf(target)
  BY DEF sliceLowOf, firstLowOf, Saturated, Logs, target
<1>3. hasKey => low' = sliceLowOf(target)
  BY DEF StallInv, sliceLow, sliceLowOf, Shrinks, firstLow, firstLowOf
<1> QED  BY <1>1, <1>2, <1>3 DEF StallInv

LEMMA HandleStallInv ==
  ASSUME TypeOK, StallInv, NEW b, NEW outcome, Handle(b, outcome)
  PROVE  StallInv'
<1> USE DEF Handle, sourceVars, stallVars
<1>1. target' = target
  BY DEF target
<1>2. sliceLowOf(target)' = sliceLowOf(target)
  BY DEF sliceLowOf, firstLowOf, Saturated, Logs, target
<1> QED  BY <1>1, <1>2 DEF StallInv

LEMMA HeadReadStallInv ==
  ASSUME TypeOK, StallInv, HeadRead
  PROVE  StallInv'
<1> USE DEF HeadRead, sourceVars, historyVars, stallVars
<1>1. target' = target
  BY DEF target
<1>2. sliceLowOf(target)' = sliceLowOf(target)
  BY DEF sliceLowOf, firstLowOf, Saturated, Logs, target
<1>3. (pc' = "fetch" /\ high' = target) \/ pc' = "save"
  BY DEF WalkFrom, EndPass
<1> QED  BY <1>1, <1>2, <1>3 DEF StallInv

\* The counter goes on if the slice is the one it was set for; if it is not, the head
\* has moved, and there were no stalls since.
LEMMA StallsStallInv ==
  ASSUME TypeOK, StallInv, SliceStalls
  PROVE  StallInv'
<1> USE DEF SliceStalls, sourceVars, EndPass
<1>2. sliceLowOf(target)' = sliceLowOf(target) /\ low = sliceLowOf(target)
  BY DEF sliceLowOf, firstLowOf, Saturated, Logs, target, StallInv
<1>3. state'.atBlock = low /\ state'.count = stuckCount
  BY DEF TypeOK, State
<1>4. stallsHere \in Nat /\ state.count \in Nat
  BY DEF TypeOK, State
<1>5. stallsHere + 1 <= stuckCount
  <2>1. CASE state.atBlock = low
    <3>1. stuckCount = state.count + 1
      BY <2>1 DEF stuckCount
    <3> QED  BY <1>4, <3>1 DEF StallInv
  <2>2. CASE state.atBlock # low
    <3>1. stuckCount = 1
      BY <2>2 DEF stuckCount
    <3>2. stallsHere = 0
      BY <1>2, <2>2 DEF StallInv
    <3> QED  BY <3>1, <3>2
  <2> QED  BY <2>1, <2>2
<1> QED  BY <1>2, <1>3, <1>5 DEF StallInv

\* A slice that is done, a crash, and a head that moves, begin anew.
LEMMA ResetStallInv ==
  ASSUME stallsHere' = 0, pc' \notin {"fetch", "groups"}
  PROVE  StallInv'
  BY DEF StallInv

LEMMA InitStallInv == Init => StallInv
  BY DEF Init, StallInv

LEMMA NextStallInv ==
  ASSUME IInv, IInv', StallInv, [Next]_vars
  PROVE  StallInv'
<1> USE DEF historyVars, stallVars
<1>0. TypeOK /\ TypeOK'
  BY DEF IInv
<1>1. CASE Wake \/ CycleThrows \/ saveState
  BY <1>0, <1>1, QuietStallInv DEF Wake, CycleThrows, saveState
<1>2. CASE HeadFails \/ FetchFails \/ OutOfBudget \/ RecentDone
  BY <1>0, <1>2, QuietStallInv DEF HeadFails, FetchFails, OutOfBudget, RecentDone, EndPass
<1>3. ASSUME NEW b \in Blocks, TakeThrows(b)
      PROVE  StallInv'
  BY <1>0, <1>3, QuietStallInv DEF TakeThrows, EndPass
<1>4. CASE Crash
  BY <1>4, ResetStallInv DEF Crash
<1>5. CASE HeadRead
  BY <1>0, <1>5, HeadReadStallInv
<1>6. CASE SliceFetched
  BY <1>0, <1>6, FetchedStallInv
<1>7. ASSUME NEW b \in Blocks, GroupApplied(b) \/ GroupNotApplied(b)
      PROVE  StallInv'
  BY <1>0, <1>7, HandleStallInv DEF GroupApplied, GroupNotApplied
<1>8. CASE SliceStalls
  BY <1>0, <1>8, StallsStallInv
<1>9. CASE SliceDone
  <2>1. low \in Int
    BY <1>0 DEF TypeOK
  <2>2. EndPass
    BY <1>9, <2>1 DEF SliceDone, WalkFrom
  <2> QED  BY <1>9, <2>2, ResetStallInv DEF SliceDone, EndPass
<1>10. CASE SourceGrows
  BY <1>10, ResetStallInv DEF SourceGrows
<1>11. CASE UNCHANGED vars
  <2> USE <1>11 DEF vars, sourceVars, localVars, sliceVars
  <2>1. target' = target
    BY DEF target
  <2>2. sliceLowOf(target)' = sliceLowOf(target)
    BY DEF sliceLowOf, firstLowOf, Saturated, Logs, target
  <2> QED  BY <2>1, <2>2 DEF StallInv
<1> QED
  BY <1>1, <1>2, <1>3, <1>4, <1>5, <1>6, <1>7, <1>8, <1>9, <1>10, <1>11 DEF Next

\* While the head stands still a slice is left for the next cycle at most
\* MAX_SKIPPED - 1 times in a row, whatever the chunk, the tail, the budget and the
\* failures (pollRevokeMainnetEtherscan, mainnetRevokeStuck).
THEOREM StallsEnd == Spec => []StallsAreBounded
<1>1. IInv /\ StallInv => StallsAreBounded
  BY MainnetAssumption DEF IInv, TypeOK, State, StallInv, StallsAreBounded
<1>2. Init => StallInv
  BY InitStallInv
<1>3. IInv /\ IInv' /\ StallInv /\ [Next]_vars => StallInv'
  BY NextStallInv
<1> QED  BY <1>1, <1>2, <1>3, Invariance, PTL DEF Spec
=============================================================================
