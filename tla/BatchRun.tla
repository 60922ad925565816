----------------------------- MODULE BatchRun -----------------------------
(***************************************************************************)
(* The page that mirrors a whole schema: web/src/lib/batch.ts, driven by   *)
(* web/src/routes/Batch.tsx.  A plan locates the transactions of the       *)
(* schema's recent attestations and packs them into batches.  A run waits, *)
(* for one batch after the other, until its newest block is attested, has  *)
(* the batch proved, and submits one proof after the other.  The visitor   *)
(* may leave at any await.  Every transaction carries one attestation.     *)
(***************************************************************************)
EXTENDS Naturals, SequencesExt

CONSTANTS
  Txs,      \* the source transactions, numbered in the order of their blocks
  Span,     \* bound on the blocks of the source chain
  MAX_TXS_PER_BATCH,
  MAX_BLOCK_SPAN

ASSUME BatchAssumption ==
  /\ Txs \subseteq Nat /\ {Span, MAX_TXS_PER_BATCH} \subseteq Nat \ {0}
  /\ MAX_BLOCK_SPAN \in Nat

VARIABLES
  step,        \* the await it is at
  blockOf,     \* the block of each transaction
  succeeded,   \* the transactions whose receipts have status 1
  unpacked,    \* located transactions that are in no batch yet
  batches,     \* plan.batches
  mode,        \* submissionMode
  left,        \* the batches that have not begun
  proofs,      \* the proofs of this batch that are to be submitted
  bundle,      \* the transactions the bundle of this batch proves
  done,        \* the transactions of the batches with status done
  mirrored,    \* attestationsMirrored, as the transactions it counts
  halted,      \* signal.aborted
  attestedTo,  \* the height Creditcoin has attested
  inFlight,    \* the submission whose receipt is awaited: none, ok, reverted
  onChain      \* the transactions the registry has applied

planVars == <<blockOf, succeeded, unpacked, batches, mode>>
tallyVars == <<done, mirrored>>
batchVars == <<step, planVars, left, proofs, bundle, tallyVars, halted, attestedTo,
               inFlight, onChain>>

BatchTypeOK ==
  /\ step \in {"off", "plan", "pack", "probe", "next", "wait", "prove", "submit", "receipt", "end"}
  /\ blockOf \in [Txs -> 1..Span] /\ succeeded \subseteq Txs /\ unpacked \subseteq Txs
  /\ batches \in Seq(Seq(Txs)) /\ left \in Seq(Seq(Txs))
  /\ mode \in {"signer", "relayer", "none"}
  /\ proofs \subseteq Txs /\ bundle \subseteq Txs
  /\ done \subseteq Txs /\ mirrored \subseteq Txs /\ onChain \subseteq Txs
  /\ halted \in BOOLEAN /\ attestedTo \in 0..Span
  /\ inFlight \in {"none", "pending", "ok", "reverted"}

BatchStart(where) ==
  /\ step = where /\ unpacked = {} /\ batches = <<>> /\ mode = "none"
  /\ left = <<>> /\ proofs = {} /\ bundle = {} /\ done = {} /\ mirrored = {}
  /\ halted = FALSE /\ attestedTo = 0 /\ inFlight = "none" /\ onChain = {}

BatchInit ==
  /\ blockOf \in {f \in [Txs -> 1..Span] : \A s, t \in Txs : s < t => f[s] <= f[t]}
  /\ succeeded \in SUBSET Txs
  /\ BatchStart("plan")

BatchOff == blockOf = [t \in Txs |-> 1] /\ succeeded = {} /\ BatchStart("off")

-----------------------------------------------------------------------------
(* The plan *)

\* Mistake: a batch takes one transaction more than the prover.
FullLate(batch, t) ==
  \/ Len(batch) > MAX_TXS_PER_BATCH
  \/ blockOf[t] - blockOf[Head(batch)] > MAX_BLOCK_SPAN

Full(batch, t) ==
  \/ Len(batch) >= MAX_TXS_PER_BATCH
  \/ blockOf[t] - blockOf[Head(batch)] > MAX_BLOCK_SPAN

Earliest(txs) == CHOOSE t \in txs : \A u \in txs : t <= u

Packed(t) ==
  IF batches = <<>> \/ Full(Last(batches), t)
  THEN Append(batches, <<t>>)
  ELSE [batches EXCEPT ![Len(batches)] = Append(@, t)]

\* A transaction that is not found is left out, and those behind an abort.
Located ==
  /\ step = "plan"
  /\ unpacked' \in SUBSET succeeded
  /\ step' = "pack"
  /\ UNCHANGED <<blockOf, succeeded, batches, mode, left, proofs, bundle, tallyVars, halted,
                 attestedTo, inFlight, onChain>>

\* The loop of planBatches, in one turn: nothing comes between its rounds.
planBatches ==
  /\ step = "pack"
  /\ IF unpacked = {}
     THEN step' = "probe" /\ left' = batches /\ UNCHANGED <<unpacked, batches>>
     ELSE /\ batches' = Packed(Earliest(unpacked))
          /\ unpacked' = unpacked \ {Earliest(unpacked)}
          /\ UNCHANGED <<step, left>>
  /\ UNCHANGED <<blockOf, succeeded, mode, proofs, bundle, tallyVars, halted, attestedTo,
                 inFlight, onChain>>

PlanFails ==
  /\ step = "plan"
  /\ step' = "end"
  /\ UNCHANGED <<planVars, left, proofs, bundle, tallyVars, halted, attestedTo,
                 inFlight, onChain>>

-----------------------------------------------------------------------------
(* The run *)

\* The way of submission is decided once, by a key, the relayer's health, or neither.
ModeChosen ==
  /\ step = "probe"
  /\ mode' \in {"signer", "relayer", "none"}
  /\ step' = "next"
  /\ UNCHANGED <<blockOf, succeeded, unpacked, batches, left, proofs, bundle, tallyVars, halted,
                 attestedTo, inFlight, onChain>>

NextBatch ==
  /\ step = "next"
  /\ step' = IF halted \/ left = <<>> THEN "end" ELSE "wait"
  /\ UNCHANGED <<planVars, left, proofs, bundle, tallyVars, halted, attestedTo, inFlight,
                 onChain>>

\* The batch is over, whatever became of it.
Close == step' = "next" /\ left' = Tail(left) /\ proofs' = {} /\ bundle' = {}

NewestAttested ==
  /\ step = "wait" /\ ~halted
  /\ attestedTo >= blockOf[Last(Head(left))]
  /\ step' = "prove"
  /\ UNCHANGED <<planVars, left, proofs, bundle, tallyVars, halted, attestedTo, inFlight,
                 onChain>>

WaitBreaks ==
  /\ step = "wait"
  /\ \/ halted /\ step' = "end" /\ UNCHANGED <<left, proofs, bundle>>
     \/ Close
  /\ UNCHANGED <<planVars, tallyVars, halted, attestedTo, inFlight, onChain>>

\* The prover proves the batch, or what it has of it; its proofs are submitted in the
\* order of the blocks.  Without a way to submit, the batch needs a signer.
BatchProved ==
  /\ step = "prove"
  /\ \E proven \in SUBSET ToSet(Head(left)) :
       IF mode = "none"
       THEN Close
       ELSE /\ proofs' = proven
            /\ bundle' = proven
            /\ step' = "submit" /\ UNCHANGED left
  /\ UNCHANGED <<planVars, tallyVars, halted, attestedTo, inFlight, onChain>>

ProofFails ==
  /\ step = "prove"
  /\ Close
  /\ UNCHANGED <<planVars, tallyVars, halted, attestedTo, inFlight, onChain>>

SubmitProof ==
  /\ step = "submit" /\ mode = "signer" /\ proofs # {} /\ ~halted
  /\ inFlight' = "pending"
  /\ step' = "receipt"
  /\ UNCHANGED <<planVars, left, proofs, bundle, tallyVars, halted, attestedTo, onChain>>

Waited ==
  /\ step = "receipt" /\ inFlight = "ok"
  /\ step' = "submit" /\ inFlight' = "none" /\ proofs' = proofs \ {Earliest(proofs)}
  /\ UNCHANGED <<planVars, left, bundle, tallyVars, halted, attestedTo, onChain>>

\* The relayer's ok means that the registry has applied the query.
Relayed ==
  /\ step = "submit" /\ mode = "relayer" /\ proofs # {} /\ ~halted
  /\ onChain' = onChain \cup {Earliest(proofs)}
  /\ proofs' = proofs \ {Earliest(proofs)}
  /\ UNCHANGED <<step, planVars, left, bundle, tallyVars, halted, attestedTo, inFlight>>

\* Mistake: what the relayer declines is passed over.
DeclinesIgnored ==
  /\ step = "submit" /\ mode = "relayer" /\ proofs # {}
  /\ proofs' = proofs \ {Earliest(proofs)}
  /\ UNCHANGED <<step, planVars, left, bundle, tallyVars, halted, attestedTo, inFlight,
                 onChain>>

\* The relayer declines, or its answer does not come; it may have submitted.
Declines ==
  /\ step = "submit" /\ mode = "relayer" /\ proofs # {}
  /\ onChain' \in {onChain, onChain \cup {Earliest(proofs)}}
  /\ Close
  /\ UNCHANGED <<planVars, tallyVars, halted, attestedTo, inFlight>>

\* The simulation or the broadcast fails, or the receipt says that the call reverts;
\* a query that another has submitted is such a failure here.
SignerFails ==
  /\ mode = "signer" /\ proofs # {}
  /\ \/ step = "submit"
     \/ step = "receipt" /\ inFlight \in {"pending", "reverted"}
  /\ Close
  /\ inFlight' = "none"
  /\ UNCHANGED <<planVars, tallyVars, halted, attestedTo, onChain>>

\* After the last proof, or at an abort, the batch counts with all its proofs.
BatchDone ==
  /\ step = "submit" /\ (proofs = {} \/ halted)
  /\ mirrored' = mirrored \cup bundle
  /\ done' = done \cup ToSet(Head(left))
  /\ Close
  /\ UNCHANGED <<planVars, halted, attestedTo, inFlight, onChain>>

-----------------------------------------------------------------------------
(* The visitor, the chains and the other submitters *)

Leave ==
  /\ step \notin {"off", "pack", "end"} /\ ~halted
  /\ halted' = TRUE
  /\ UNCHANGED <<step, planVars, left, proofs, bundle, tallyVars, attestedTo, inFlight, onChain>>

HeightGrows ==
  /\ step \notin {"off", "plan", "pack"} /\ attestedTo < Span
  /\ attestedTo' = attestedTo + 1
  /\ UNCHANGED <<step, planVars, left, proofs, bundle, tallyVars, halted, inFlight, onChain>>

OthersApply ==
  /\ \E t \in succeeded : blockOf[t] <= attestedTo /\ onChain' = onChain \cup {t}
  /\ UNCHANGED <<step, planVars, left, proofs, bundle, tallyVars, halted, attestedTo, inFlight>>

Included ==
  /\ inFlight = "pending"
  /\ IF Earliest(proofs) \in onChain
     THEN inFlight' = "reverted" /\ UNCHANGED onChain
     ELSE inFlight' = "ok" /\ onChain' = onChain \cup {Earliest(proofs)}
  /\ UNCHANGED <<step, planVars, left, proofs, bundle, tallyVars, halted, attestedTo>>

BatchStep ==
  \/ Located \/ planBatches \/ PlanFails \/ ModeChosen \/ NextBatch
  \/ NewestAttested \/ WaitBreaks
  \/ BatchProved \/ ProofFails \/ SubmitProof \/ Waited \/ Relayed \/ Declines \/ SignerFails
  \/ BatchDone

BatchNext == BatchStep \/ Leave \/ HeightGrows \/ OthersApply \/ Included

BatchFairness == WF_batchVars(BatchStep) /\ WF_batchVars(HeightGrows) /\ WF_batchVars(Included)

-----------------------------------------------------------------------------
(* Properties *)

\* No transaction is in two batches, the batches are in the order of the blocks, none is
\* larger than MAX_TXS_PER_BATCH or ends more than MAX_BLOCK_SPAN blocks after its first
\* (planBatches' own measure: first and last included, one block more), and none
\* could take the first transaction of the next one.
BatchesArePacked ==
  /\ \A i \in 1..Len(batches) - 1 :
       \/ Len(batches[i]) = MAX_TXS_PER_BATCH
       \/ blockOf[Head(batches[i + 1])] - blockOf[Head(batches[i])] > MAX_BLOCK_SPAN
  /\ \A i \in 1..Len(batches) :
       /\ Len(batches[i]) \in 1..MAX_TXS_PER_BATCH
       /\ blockOf[Last(batches[i])] - blockOf[Head(batches[i])] <= MAX_BLOCK_SPAN
  /\ \A i, j \in 1..Len(batches) : \A k \in 1..Len(batches[i]), m \in 1..Len(batches[j]) :
       i < j \/ (i = j /\ k < m) => batches[i][k] < batches[j][m]

\* What the summary counts as mirrored is in the registry, unless the visitor has left:
\* a run that is aborted between two proofs still counts the whole batch.
CountedIsMirrored == ~halted => mirrored \subseteq onChain /\ mirrored \subseteq done

Batching == step \notin {"off", "end"}
=============================================================================
