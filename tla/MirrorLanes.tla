---------------------------- MODULE MirrorLanes ----------------------------
(***************************************************************************)
(* The programs that mirror many source transactions from one wallet:      *)
(*   bench   bench/src/index.ts, runPool and processGroup: lanes that take *)
(*           the next group as they get free;                              *)
(*   worker  worker/src/index.ts, mirrorOrRevokeGroup for the groups of    *)
(*           one pass, one after the other;                                *)
(*   batch   packages/sdk/src/mirror.ts, mirrorBatch: batch by batch, with *)
(*           one shared submission or slices of concurrent ones.           *)
(* They treat a transaction alike, step by step from one await to the      *)
(* next, but differ in what an error ends.  Each group is a query of its   *)
(* own; its proof names the same query as its discovery.                   *)
(***************************************************************************)
EXTENDS Wallet, FiniteSetsExt

CONSTANTS
  Programs,   \* the programs to run
  MaxGroups,  \* bound on the length of the list
  Width,      \* CONCURRENCY, submitConcurrency
  MaxKills,   \* bound on the times the process is killed and run again
  KillGroups  \* bound on the length of the list of a process that is killed

ASSUME LanesAssumption ==
  /\ Programs \subseteq {"bench", "worker", "batch"}
  /\ MaxGroups \in Nat \ {0} /\ Width \in Nat \ {0}
  /\ MaxKills \in Nat /\ KillGroups \in Nat

VARIABLES
  program,
  N,          \* groups, in the order of the list
  cuts,       \* groups that end a batch, the last one excepted
  stage,      \* of the batch: attest, shared, lanes; over
  pc,         \* pc[l]: what lane l waits for
  item,       \* item[l]: its group
  nonce,      \* nonce[l]: what take gave it
  from,       \* the first group of the batch
  idx,        \* the next group to start
  limit,      \* the last group that may start
  result,     \* result[g]: the receipt lines, or the MirrorResult
  lost,       \* history: groups dropped because a read of the nonce failed
  disturbed,  \* history: a submission failed, or used a nonce of its own
  kills

runVars == <<program, N, cuts, kills>>
laneVars == <<pc, item, nonce>>
listVars == <<stage, from, idx, limit>>
reportVars == <<result, lost>>
lanesVars == <<runVars, laneVars, listVars, reportVars, disturbed, allocatorVars, chainVars>>

Groups == 1..N
Lanes == 1..(IF program = "worker" THEN 1 ELSE Width)
Results == {"mirrored", "already-mirrored", "failed"}
Stages == {"free", "dedupe", "proof", "take", "submit", "wait", "receipt", "reverted",
           "resync", "refused", "dead"}

LanesTypeOK ==
  /\ AllocatorTypeOK
  /\ N \in 1..MaxGroups
  /\ cuts \subseteq 1..(N - 1) /\ stage \in {"attest", "shared", "lanes", "over"}
  /\ pc \in [1..Width -> Stages]
  /\ item \in [1..Width -> 0..N] /\ nonce \in [1..Width -> Nat \cup {NO_NONCE}]
  /\ {from, idx} \subseteq 1..(N + 1) /\ limit \in 0..N
  /\ result \in [Groups -> Results \cup {"none"}] /\ lost \subseteq Groups
  /\ mined \in Nat /\ processed \subseteq Groups
  /\ \A n \in DOMAIN pool : n \in Nat /\ pool[n].query \in Groups
  /\ disturbed \in BOOLEAN /\ kills \in 0..MaxKills

Start ==
  /\ stage = IF program = "batch" THEN "attest" ELSE "lanes"
  /\ pc = [l \in 1..Width |-> "free"] /\ item = [l \in 1..Width |-> 0]
  /\ nonce = [l \in 1..Width |-> NO_NONCE]
  /\ from = 1 /\ idx = 1 /\ limit = IF program = "batch" THEN 0 ELSE N
  /\ result = [g \in Groups |-> "none"] /\ lost = {}

LanesInit ==
  /\ program \in Programs
  /\ N \in 1..MaxGroups
  /\ cuts \in IF program = "batch" THEN SUBSET (1..(N - 1)) ELSE {{}}
  /\ Start /\ WalletInit
  /\ disturbed = FALSE /\ kills = 0

\* No lane has a nonce to resume with.
Quiescent == NonceReady => \A l \in Lanes : pc[l] # "take"

Goto(l, s) == pc' = [pc EXCEPT ![l] = s] /\ UNCHANGED <<item, nonce>>

Free(l) ==
  /\ pc' = [pc EXCEPT ![l] = "free"]
  /\ item' = [item EXCEPT ![l] = 0]
  /\ nonce' = [nonce EXCEPT ![l] = NO_NONCE]

Report(l, r) ==
  /\ Free(l)
  /\ result' = [result EXCEPT ![item[l]] = r]
  /\ UNCHANGED lost

-----------------------------------------------------------------------------
(* Batches *)

batchEnd == Min({N} \cup {c \in cuts : c >= from})
batch == from..batchEnd

NextBatch ==
  /\ from' = batchEnd + 1 /\ idx' = batchEnd + 1
  /\ stage' = IF batchEnd = N THEN "over" ELSE "attest"
  /\ UNCHANGED limit

\* A batch of one needs no shared proof; nor is one used unless proofMode says so.
Attested ==
  /\ stage = "attest"
  /\ stage' \in {"lanes"} \cup IF batchEnd > from THEN {"shared"} ELSE {}
  /\ UNCHANGED <<runVars, laneVars, from, idx, limit, reportVars, disturbed,
                 allocatorVars, chainVars>>

\* Mistake: the batch is skipped without its results.
AttestSkips ==
  /\ stage = "attest"
  /\ NextBatch
  /\ UNCHANGED <<runVars, laneVars, reportVars, disturbed, allocatorVars, chainVars>>

\* The wait for the highest block fails the batch; the next one goes on.
AttestFails ==
  /\ stage = "attest"
  /\ result' = [g \in Groups |-> IF g \in batch THEN "failed" ELSE result[g]]
  /\ NextBatch
  /\ UNCHANGED <<runVars, laneVars, lost, disturbed, allocatorVars, chainVars>>

\* The shared transaction, sent past the allocator, is executed: all or nothing.
SharedExecutes(ok) ==
  /\ DOMAIN pool = {}
  /\ ok => batch \cap processed = {}
  /\ mined' = mined + 1
  /\ processed' = IF ok THEN processed \cup batch ELSE processed
  /\ disturbed' = TRUE
  /\ UNCHANGED pool

SharedSubmitted ==
  /\ stage = "shared"
  /\ \E ok \in BOOLEAN :
       /\ SharedExecutes(ok)
       /\ result' = [g \in Groups |->
            IF g \notin batch THEN result[g] ELSE IF ok THEN "mirrored" ELSE "failed"]
  /\ NextBatch
  /\ UNCHANGED <<runVars, laneVars, lost, allocatorVars>>

\* No proof, no entry point (as with the registry's present ABI, which has none),
\* or no receipt in time although the transaction may be executed: every transaction
\* is submitted on its own.  A shared transaction that stays in the pool while the
\* lanes run is left out.
SharedFails ==
  /\ stage = "shared"
  /\ stage' = "lanes"
  /\ \/ \E ok \in BOOLEAN : SharedExecutes(ok)
     \/ UNCHANGED <<chainVars, disturbed>>
  /\ UNCHANGED <<runVars, laneVars, from, idx, limit, reportVars, allocatorVars>>

AllIdle == \A l \in Lanes : pc[l] \in {"free", "dead"}

\* Mistake: a slice is not cut at the end of the list.
SliceEndUncut == idx + Width - 1

SliceEnd == Min({idx + Width - 1, batchEnd})

\* Promise.all of the slice is settled: the next slice.
NextSlice ==
  /\ stage = "lanes" /\ AllIdle
  /\ limit < idx /\ idx <= batchEnd
  /\ limit' = SliceEnd
  /\ UNCHANGED <<runVars, laneVars, stage, from, idx, reportVars, disturbed,
                 allocatorVars, chainVars>>

\* Every group has been through a lane, or no lane is left.
ListDone ==
  /\ stage = "lanes" /\ AllIdle
  /\ idx > batchEnd \/ \A l \in Lanes : pc[l] = "dead"
  /\ IF program = "batch" THEN NextBatch
     ELSE stage' = "over" /\ UNCHANGED <<from, idx, limit>>
  /\ UNCHANGED <<runVars, laneVars, reportVars, disturbed, allocatorVars, chainVars>>

-----------------------------------------------------------------------------
(* One group in a lane *)

\* Which of the free lanes takes it makes no difference.
Claim(l) ==
  /\ Quiescent /\ pc[l] = "free" /\ \A m \in 1..(l - 1) : pc[m] # "free"
  /\ stage = "lanes" /\ idx <= limit
  /\ pc' = [pc EXCEPT ![l] = "dedupe"]
  /\ item' = [item EXCEPT ![l] = idx]
  /\ idx' = idx + 1
  /\ UNCHANGED <<runVars, nonce, stage, from, limit, reportVars, disturbed, allocatorVars,
                 chainVars>>

Deduped(l) ==
  /\ Quiescent /\ pc[l] = "dedupe"
  /\ IF item[l] \in processed
     THEN Report(l, "already-mirrored")
     ELSE Goto(l, "proof") /\ UNCHANGED reportVars
  /\ UNCHANGED <<runVars, listVars, disturbed, allocatorVars, chainVars>>

\* isQueryProcessed, or getProof after its attempts, throws.
Unproven(l) ==
  /\ Quiescent /\ pc[l] \in {"dedupe", "proof"}
  /\ Report(l, "failed")
  /\ UNCHANGED <<runVars, listVars, disturbed, allocatorVars, chainVars>>

Proved(l) ==
  /\ Quiescent /\ pc[l] = "proof"
  /\ callTake
  /\ Goto(l, "take")
  /\ UNCHANGED <<runVars, listVars, reportVars, disturbed, chainVars>>

NonceTaken(l) ==
  /\ pc[l] = "take"
  /\ take
  /\ nonce' = [nonce EXCEPT ![l] = next]
  /\ pc' = [pc EXCEPT ![l] = "submit"]
  /\ UNCHANGED <<runVars, item, listVars, reportVars, disturbed, chainVars>>

Broadcast(l) ==
  /\ Quiescent /\ pc[l] = "submit"
  /\ Accept(nonce[l], item[l], {l})
  /\ Goto(l, "wait")
  /\ UNCHANGED <<runVars, listVars, reportVars, disturbed, allocatorVars>>

\* The catch of the submission; next is "refused" if the error says that the
\* query is already processed.
SubmitThrows(l, s) ==
  /\ resync
  /\ Goto(l, s)
  /\ disturbed' = TRUE
  /\ UNCHANGED <<runVars, listVars, reportVars>>

\* The node refuses the nonce, the call never reaches it, or its reply is lost.
BroadcastFails(l) ==
  /\ Quiescent /\ pc[l] = "submit"
  /\ UNCHANGED chainVars \/ Accept(nonce[l], item[l], Nobody)
  /\ SubmitThrows(l, "resync")

\* A node that simulates the call says so: bench and worker return at once and
\* leave the nonce unused.
AlreadyProcessed(l) ==
  /\ Quiescent /\ pc[l] = "submit" /\ item[l] \in processed
  /\ IF program = "batch"
     THEN SubmitThrows(l, "refused")
     ELSE /\ Report(l, "already-mirrored")
          /\ disturbed' = TRUE
          /\ UNCHANGED <<runVars, listVars, allocatorVars>>
  /\ UNCHANGED chainVars

WaitTimesOut(l) ==
  /\ Quiescent /\ pc[l] = "wait"
  /\ StopWaiting(l)
  /\ SubmitThrows(l, "resync")

\* Mistake: the status of the receipt is not looked at.
OutcomeUnchecked(ok) == "mirrored"

Outcome(ok) == IF ok THEN "mirrored" ELSE "failed"

Receipt(l) ==
  /\ Quiescent /\ pc[l] \in {"receipt", "reverted"}
  /\ Report(l, Outcome(pc[l] = "receipt"))
  /\ UNCHANGED <<runVars, listVars, disturbed, allocatorVars, chainVars>>

\* tx.wait throws on a reverted receipt.
WaitThrows(l) ==
  /\ Quiescent /\ pc[l] = "reverted"
  /\ SubmitThrows(l, "resync")
  /\ UNCHANGED chainVars

-----------------------------------------------------------------------------
(* The node, the chain, the process *)

NodeReplies ==
  /\ Quiescent
  /\ NodeCounts(PendingCount)
  /\ UNCHANGED <<runVars, laneVars, listVars, reportVars, disturbed, chainVars>>

Awaiting(states) == {l \in Lanes : pc[l] \in states}

\* The lanes in ls end with r, which may differ for those that were refused.
AllReport(ls, r) ==
  /\ pc' = [l \in 1..Width |-> IF l \in ls THEN "free" ELSE pc[l]]
  /\ item' = [l \in 1..Width |-> IF l \in ls THEN 0 ELSE item[l]]
  /\ nonce' = [l \in 1..Width |-> IF l \in ls THEN NO_NONCE ELSE nonce[l]]
  /\ result' = [g \in Groups |->
       IF \E l \in ls : item[l] = g /\ pc[l] = "refused" THEN r
       ELSE IF \E l \in ls : item[l] = g THEN "failed" ELSE result[g]]

Resynced ==
  /\ ReadResolves
  /\ AllReport(Awaiting({"resync", "refused"}), "already-mirrored")
  /\ UNCHANGED <<runVars, listVars, lost, disturbed, chainVars>>

\* take or resync throws.  mirrorBatch catches both and reports a failure; in
\* the bench the lane dies and the others go on; the worker's cycle is over.
ReadFails ==
  /\ ReadRejects
  /\ disturbed' = TRUE
  /\ LET ls == Awaiting({"take", "resync", "refused"})
     IN  IF program = "batch"
         THEN AllReport(ls, "failed") /\ UNCHANGED <<lost, stage>>
         ELSE /\ pc' = [l \in 1..Width |-> IF l \in ls THEN "dead" ELSE pc[l]]
              /\ lost' = lost \cup {item[l] : l \in ls}
              /\ stage' = IF program = "worker" /\ ls # {} THEN "over" ELSE stage
              /\ UNCHANGED <<item, nonce, result>>
  /\ UNCHANGED <<runVars, from, idx, limit, chainVars>>

Mine ==
  /\ Quiescent
  /\ \E ok \in BOOLEAN :
       /\ Execute(ok)
       /\ pc' = [l \in 1..Width |-> IF l \notin pool[mined].waiting THEN pc[l]
                                    ELSE IF ok THEN "receipt" ELSE "reverted"]
  /\ UNCHANGED <<runVars, item, nonce, listVars, reportVars, disturbed, allocatorVars>>

\* Another process submits the query, with another wallet (see Wallet).
OthersProcess(g) ==
  /\ Quiescent
  /\ RetireQuery(g)
  /\ UNCHANGED <<runVars, laneVars, listVars, reportVars, disturbed, allocatorVars>>

\* The process is killed and run again over the same list: the bench is
\* "resumable" by its dedupe check alone.
Kill ==
  /\ kills < MaxKills /\ N <= KillGroups /\ stage # "over"
  /\ kills' = kills + 1 /\ disturbed' = TRUE
  /\ stage' = IF program = "batch" THEN "attest" ELSE "lanes"
  /\ pc' = [l \in 1..Width |-> "free"] /\ item' = [l \in 1..Width |-> 0]
  /\ nonce' = [l \in 1..Width |-> NO_NONCE]
  /\ from' = 1 /\ idx' = 1 /\ limit' = IF program = "batch" THEN 0 ELSE N
  /\ result' = [g \in Groups |-> "none"] /\ lost' = {}
  /\ next' = UNKNOWN /\ read' = NO_READ
  /\ pool' = [n \in DOMAIN pool |-> [pool[n] EXCEPT !.waiting = Nobody]]
  /\ UNCHANGED <<program, N, cuts, mined, processed>>

LaneStep(l) ==
  \/ Claim(l) \/ Deduped(l) \/ Unproven(l) \/ Proved(l) \/ NonceTaken(l)
  \/ Broadcast(l) \/ BroadcastFails(l) \/ AlreadyProcessed(l)
  \/ WaitTimesOut(l) \/ Receipt(l) \/ WaitThrows(l)

ReadStep == NodeReplies \/ Resynced \/ ReadFails

ListStep ==
  \/ Attested \/ AttestFails \/ SharedSubmitted \/ SharedFails
  \/ NextSlice \/ ListDone

LanesNext ==
  \/ ListStep
  \/ \E l \in Lanes : LaneStep(l)
  \/ ReadStep
  \/ Mine \/ (\E g \in Groups : OthersProcess(g)) \/ Kill

\* Every await ends: the prover is tried a bounded number of times, calls time
\* out, and so does the wait for a receipt.
LanesFairness ==
  /\ WF_lanesVars(ListStep) /\ WF_lanesVars(ReadStep)
  /\ \A l \in 1..Width : WF_lanesVars(l \in Lanes /\ LaneStep(l))

LanesSpec == LanesInit /\ [][LanesNext]_lanesVars /\ LanesFairness

-----------------------------------------------------------------------------
(* Properties *)

\* A transaction reported as mirrored or already mirrored is one the registry
\* has applied: whoever applied it, and however submissions, timeouts and kills
\* interleave.
ResultsAreTrue ==
  \A g \in Groups : result[g] \in {"mirrored", "already-mirrored"} => g \in processed

\* No group is forgotten or handled twice: each one before idx is in exactly one
\* lane, or reported, or was lost with its lane, and when the run is over every
\* group is reported unless reads of the nonce failed.
EveryGroupIsAccountedFor ==
  /\ \A g \in 1..(idx - 1) :
       Cardinality({l \in Awaiting(Stages \ {"free", "dead"}) : item[l] = g})
         = IF result[g] = "none" /\ g \notin lost THEN 1 ELSE 0
  /\ stage = "over" /\ lost = {} => \A g \in Groups : result[g] # "none"

InFlight == Awaiting({"submit", "wait"})

\* As long as nothing fails, the nonces in flight are distinct and leave no gap.
NoGapUntilDisturbed ==
  ~disturbed /\ next # UNKNOWN =>
    /\ \A l, m \in InFlight : nonce[l] = nonce[m] => l = m
    /\ mined..(next - 1) \subseteq {nonce[l] : l \in InFlight}

\* The run ends, whatever fails: no lane waits for ever for a nonce, behind the
\* gap that an unused one leaves, or for the other lanes of its slice.
RunEnds == <>(stage = "over")

=============================================================================
