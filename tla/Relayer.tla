------------------------------ MODULE Relayer ------------------------------
(***************************************************************************)
(* relayer/src/index.ts, handleMirror: the rate limiter, and past it       *)
(* concurrent requests that share one wallet (NonceAllocator) and one      *)
(* spend guard (spendGuard.ts), and the receipts file (receipts.ts) that   *)
(* every validated request writes to before it answers.  A lane is a       *)
(* request in progress; it is free again once it has answered.  A step of  *)
(* a lane runs from one await to the next.  Costs are counted in           *)
(* worst-case transactions: every transaction is planned at, and burns,    *)
(* one unit.  Code that waits in take resumes before anything else happens *)
(* when a nonce becomes ready.                                             *)
(***************************************************************************)
EXTENDS Wallet, RateLimiter

CONSTANTS
  Lanes,        \* requests that may be in progress at once
  Queries,      \* source transactions a request may name
  CEILING,      \* RELAYER_SPEND_CEILING_CTC
  MaxRequests   \* bound on the requests that arrive

ASSUME RelayerAssumption ==
  /\ IsFiniteSet(Lanes) /\ Lanes # {} /\ Queries # {}
  /\ CEILING \in Nat \ {0} /\ MaxRequests \in Nat

VARIABLES
  facet,       \* "limiter" or "requests": the limiter decides before a request
               \* does anything, and nothing it does later touches a bucket
  pc,          \* pc[l]: what the request of lane l waits for
  query,       \* query[l]: the source transaction it names
  nonce,       \* nonce[l]: what take gave it
  answer,      \* answer[l]: the last answer of the lane
  spent,       \* spentWei
  jammed,      \* writeQueue is rejected
  arrived,     \* bound: requests so far
  erred        \* history: a submission or a read has failed

laneVars == <<pc, query, nonce, answer, arrived>>
requestVars == <<allocatorVars, laneVars, chainVars, spent, jammed, erred>>
vars == <<facet, limiterVars, requestVars>>

Stages == {"idle", "body", "proof", "dedupe", "gas", "take", "submit", "wait", "receipt",
           "reverted", "resync", "hung"}

TypeOK ==
  /\ LimiterTypeOK /\ facet \in {"limiter", "requests"}
  /\ AllocatorTypeOK
  /\ pc \in [Lanes -> Stages]
  /\ query \in [Lanes -> Queries]
  /\ nonce \in [Lanes -> Nat \cup {NO_NONCE}]
  /\ answer \in [Lanes -> {"none", "mirrored", "alreadyMirrored", "failed"}]
  /\ spent \in Nat /\ mined \in Nat /\ arrived \in 0..MaxRequests
  /\ DOMAIN pool \subseteq Nat
  /\ \A n \in DOMAIN pool : pool[n] \in [query: Queries, waiting: SUBSET Lanes]
  /\ processed \in SUBSET Queries
  /\ jammed \in BOOLEAN /\ erred \in BOOLEAN

Init ==
  /\ facet \in {"limiter", "requests"} /\ LimiterInit
  /\ WalletInit
  /\ pc = [l \in Lanes |-> "idle"]
  /\ query = [l \in Lanes |-> CHOOSE q \in Queries : TRUE]
  /\ nonce = [l \in Lanes |-> NO_NONCE]
  /\ answer = [l \in Lanes |-> "none"]
  /\ spent = 0 /\ arrived = 0
  /\ jammed = FALSE /\ erred = FALSE

\* No lane has a nonce to resume with.
Quiescent == NonceReady => \A l \in Lanes : pc[l] # "take"

Goto(l, stage) == pc' = [pc EXCEPT ![l] = stage]

\* appendRelayerReceipt and then the answer a, for the requests of ls.  A write that
\* fails leaves the queue rejected, and with it the line of the catch block: that
\* request and each one after it throws out of handleMirror, which nothing awaits.
Answer(ls, a) ==
  \E written \in SUBSET ls :
    /\ jammed => written = {}
    /\ jammed' = (jammed \/ written # ls)
    /\ pc' = [l \in Lanes |-> IF l \in written THEN "idle"
                              ELSE IF l \in ls THEN "hung" ELSE pc[l]]
    /\ answer' = [l \in Lanes |-> IF l \in written THEN a ELSE answer[l]]
    /\ nonce' = [l \in Lanes |-> IF l \in ls THEN NO_NONCE ELSE nonce[l]]
    /\ UNCHANGED <<query, arrived>>

-----------------------------------------------------------------------------
(* Steps of a request *)

Arrive(l, q) ==
  /\ Quiescent
  /\ pc[l] = "idle" /\ arrived < MaxRequests
  /\ arrived' = arrived + 1
  /\ query' = [query EXCEPT ![l] = q]
  /\ answer' = [answer EXCEPT ![l] = "none"]
  /\ Goto(l, "body")
  /\ UNCHANGED <<allocatorVars, nonce, chainVars, spent, jammed, erred>>

\* parseMirrorRequest accepts the body.
Parsed(l) ==
  /\ Quiescent /\ pc[l] = "body"
  /\ Goto(l, "proof")
  /\ UNCHANGED <<allocatorVars, query, nonce, answer, arrived, chainVars, spent, jammed, erred>>

\* It does not, or the body is no JSON, too long, or cut off: 400, with no receipt.
Unreadable(l) ==
  /\ Quiescent /\ pc[l] = "body"
  /\ Goto(l, "idle")
  /\ answer' = [answer EXCEPT ![l] = "failed"]
  /\ UNCHANGED <<allocatorVars, query, nonce, arrived, chainVars, spent, jammed, erred>>

\* The prover's answer matches the posted bundle.
Derived(l) ==
  /\ Quiescent /\ pc[l] = "proof"
  /\ Goto(l, "dedupe")
  /\ UNCHANGED <<allocatorVars, query, nonce, answer, arrived, chainVars, spent, jammed, erred>>

\* It does not, or the prover or an RPC call before the nonce fails.
Failed(l) ==
  /\ Quiescent /\ pc[l] \in {"proof", "dedupe", "gas"}
  /\ Answer({l}, "failed")
  /\ UNCHANGED <<allocatorVars, chainVars, spent, erred>>

Deduped(l) ==
  /\ Quiescent /\ pc[l] = "dedupe"
  /\ IF query[l] \in processed
     THEN Answer({l}, "alreadyMirrored")
     ELSE Goto(l, "gas") /\ UNCHANGED <<query, nonce, answer, arrived, jammed>>
  /\ UNCHANGED <<allocatorVars, chainVars, spent, erred>>

\* Mistake: the check ignores what has been spent.
wouldExceedCeilingAlone == 1 > CEILING

wouldExceedCeiling == spent + 1 > CEILING

\* The gas is planned; the ceiling is tested and take is called in one turn.
Planned(l) ==
  /\ Quiescent /\ pc[l] = "gas"
  /\ IF wouldExceedCeiling
     THEN Answer({l}, "failed") /\ UNCHANGED allocatorVars
     ELSE /\ callTake
          /\ Goto(l, "take") /\ UNCHANGED <<query, nonce, answer, arrived, jammed>>
  /\ UNCHANGED <<chainVars, spent, erred>>

NonceTaken(l) ==
  /\ pc[l] = "take"
  /\ take
  /\ nonce' = [nonce EXCEPT ![l] = next]
  /\ Goto(l, "submit")
  /\ UNCHANGED <<query, answer, arrived, chainVars, spent, jammed, erred>>

Broadcast(l) ==
  /\ Quiescent /\ pc[l] = "submit"
  /\ Accept(nonce[l], query[l], {l})
  /\ Goto(l, "wait")
  /\ UNCHANGED <<allocatorVars, query, nonce, answer, arrived, spent, jammed, erred>>

\* The catch block of the submission: the read, then the failed answer.
SubmitThrows(l) ==
  /\ resync
  /\ Goto(l, "resync")
  /\ erred' = TRUE
  /\ UNCHANGED <<query, nonce, answer, arrived, spent, jammed>>

\* The node refuses the nonce, the call never reaches it, or its reply is lost.
BroadcastFails(l) ==
  /\ Quiescent /\ pc[l] = "submit"
  /\ UNCHANGED chainVars \/ Accept(nonce[l], query[l], Nobody)
  /\ SubmitThrows(l)

\* waitForReceipt gives up; the transaction stays in the pool.
WaitTimesOut(l) ==
  /\ Quiescent /\ pc[l] = "wait"
  /\ StopWaiting(l)
  /\ SubmitThrows(l)

\* Mistake: the status of the receipt is not looked at.
OutcomeUnchecked(ok) == "mirrored"

Outcome(ok) == IF ok THEN "mirrored" ELSE "failed"

\* The receipt: the cost is recorded whatever its status.
Receipt(l) ==
  /\ Quiescent /\ pc[l] \in {"receipt", "reverted"}
  /\ spent' = spent + 1
  /\ Answer({l}, Outcome(pc[l] = "receipt"))
  /\ UNCHANGED <<allocatorVars, chainVars, erred>>

\* tx.wait throws on a reverted receipt: its cost is not recorded.
WaitThrows(l) ==
  /\ Quiescent /\ pc[l] = "reverted"
  /\ SubmitThrows(l)
  /\ UNCHANGED chainVars

-----------------------------------------------------------------------------
(* The node and the chain *)

NodeReplies ==
  /\ Quiescent
  /\ NodeCounts(PendingCount)
  /\ UNCHANGED <<laneVars, chainVars, spent, jammed, erred>>

\* The lanes that awaited the read as their last step have failed.
Resynced ==
  /\ ReadResolves
  /\ Answer({l \in Lanes : pc[l] = "resync"}, "failed")
  /\ UNCHANGED <<chainVars, spent, erred>>

\* The read fails: so do the lanes that wait in take.
ReadFails ==
  /\ ReadRejects
  /\ erred' = TRUE
  /\ Answer({l \in Lanes : pc[l] \in {"resync", "take"}}, "failed")
  /\ UNCHANGED <<chainVars, spent>>

\* The clamped gas limit may be too low.
Mine ==
  /\ Quiescent
  /\ \E ok \in BOOLEAN :
       /\ Execute(ok)
       /\ pc' = [l \in Lanes |-> IF l \notin pool[mined].waiting THEN pc[l]
                                 ELSE IF ok THEN "receipt" ELSE "reverted"]
  /\ UNCHANGED <<allocatorVars, query, nonce, answer, arrived, spent, jammed, erred>>

\* Another process (worker, bench, a browser wallet) submits the query, with another
\* wallet: that it has this one's key is left out (see Wallet).
OthersProcess(q) ==
  /\ Quiescent
  /\ RetireQuery(q)
  /\ UNCHANGED <<allocatorVars, laneVars, spent, jammed, erred>>

LaneStep(l) ==
  \/ Parsed(l) \/ Unreadable(l) \/ Derived(l) \/ Failed(l) \/ Deduped(l) \/ Planned(l)
  \/ NonceTaken(l) \/ Broadcast(l) \/ BroadcastFails(l)
  \/ WaitTimesOut(l) \/ Receipt(l) \/ WaitThrows(l)

ReadStep == NodeReplies \/ Resynced \/ ReadFails

RequestNext ==
  \/ \E l \in Lanes : LaneStep(l) \/ \E q \in Queries : Arrive(l, q)
  \/ ReadStep
  \/ Mine
  \/ \E q \in Queries : OthersProcess(q)

Next ==
  \/ facet = "limiter" /\ LimiterNext /\ UNCHANGED <<facet, requestVars>>
  \/ facet = "requests" /\ RequestNext /\ UNCHANGED <<facet, limiterVars>>

\* Every await of a request ends: the server closes a connection whose body does
\* not come, the prover is tried a bounded number of times, RPC calls time out, and
\* so does the wait for the receipt.
Fairness ==
  WF_requestVars(ReadStep) /\ \A l \in Lanes : WF_requestVars(LaneStep(l))

Spec == Init /\ [][Next]_vars /\ Fairness

-----------------------------------------------------------------------------
(* Properties *)

InFlight == {l \in Lanes : pc[l] \in {"submit", "wait"}}

\* Two requests in progress never hold the same nonce ("Hands out sequential
\* nonces so several submissions can be in flight from one wallet").
NoncesInFlightAreDistinct ==
  \A l, m \in InFlight : nonce[l] = nonce[m] => l = m

\* Until something fails, the nonces that requests hold and have sent are
\* distinct and fill the range from the account's nonce to the allocator's,
\* so that none collides and none waits for a gap, however the requests,
\* the first read and the blocks interleave.
NoGapUntilAnError ==
  ~erred /\ next # UNKNOWN =>
    /\ NoncesInFlightAreDistinct
    /\ mined..(next - 1) \subseteq {nonce[l] : l \in InFlight}

\* A request that is told mirrored or alreadyMirrored names a transaction the
\* registry has applied, whoever applied it.
AnswersAreTrue ==
  \A l \in Lanes :
    answer[l] \in {"mirrored", "alreadyMirrored"} => query[l] \in processed

\* What the guard has recorded exceeds the ceiling by no more than the
\* requests that were past its check at once.
OvershootIsBounded == spent <= CEILING + Cardinality(Lanes) - 1

\* The process spends no more than its ceiling ("refuses to submit if the
\* worst-case cost of a transaction would push cumulative spend over
\* RELAYER_SPEND_CEILING_CTC", relayer/README.md).
SpendWithinCeiling == mined <= CEILING

\* Every request is answered as long as the receipts file can be written: no
\* failure of the prover, of the node or of a shared read leaves one waiting.
EveryRequestIsAnswered == \A l \in Lanes : pc[l] # "idle" ~> pc[l] = "idle" \/ jammed

=============================================================================
