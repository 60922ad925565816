--------------------------- MODULE MirrorClient ---------------------------
(***************************************************************************)
(* One run of a client that mirrors one attestation:                       *)
(*   sdk  packages/sdk/src/mirror.ts, mirror, driven by the command line   *)
(*        of packages/sdk/bin/admissible.ts;                               *)
(*   web  web/src/lib/mirror.ts, mirror, driven by the page MirrorApp.     *)
(* Both resolve the source transaction, wait until its block is attested,  *)
(* have it proved, and submit; both tell a callback about every stage.     *)
(* While they wait, the source chain may move the transaction to another   *)
(* place, others may submit it first, and a submission may be executed     *)
(* after its client has given up on it.  A place is a block and an index   *)
(* in it, which is what a query is about: the registry retires the query   *)
(* of a place, under a hash of it.                                         *)
(***************************************************************************)
EXTENDS Naturals, FiniteSets

CONSTANTS
  Clients,      \* the clients to run, a subset of {"sdk", "web"}
  SourceHead,   \* bound on the blocks of the source chain
  Indexes,      \* the indexes a transaction may have in its block
  MaxAttempts   \* of getProof

ASSUME ClientAssumption ==
  /\ Clients \subseteq {"sdk", "web"} /\ Clients # {}
  /\ {SourceHead, MaxAttempts} \subseteq Nat \ {0}
  /\ Indexes \subseteq Nat /\ Indexes # {}

VARIABLES
  client,
  signer,     \* the client holds a key
  at,         \* the await it is at
  target,     \* where it was found: prepared, located
  attempts,
  shown,      \* the stage the callback was last told
  outcome,    \* result.status, MirrorOutcome.stage, or a rejection
  query,      \* the place whose query the outcome is about
  queryId,    \* the id it reports: result.queryId, MirrorProgressDetail.queryId
  own,        \* its submission: none, pending, ok, reverted
  home,       \* the place of the transaction
  attested,   \* the height Creditcoin has attested
  cached,     \* the height the prover serves
  applied,    \* the places whose queries the registry has applied
  tombstone,  \* a revocation has made a record of the attestation
  stray       \* submissions nobody waits for: a lost reply, the relayer's

runVars == <<client, signer>>
stepVars == <<at, target, attempts, shown, outcome, query, queryId>>
sourceVars == <<home, attested, cached>>
registryVars == <<applied, tombstone>>
clientVars == <<runVars, stepVars, own, sourceVars, registryVars, stray>>

Blocks == 1..SourceHead
Places == Blocks \X Indexes
NowhereYet == <<0, 0>>
Block(place) == place[1]
Index(place) == place[2]

\* A hash is what it hashes.  The browser's encoding pads each of the three numbers to
\* a word, which makes 96 bytes where the registry and the SDK hash 72.
NoId == <<0, NowhereYet>>
computeQueryId(place) == <<72, place>>
webQueryId(place) == <<96, place>>

Stages == {"resolving", "awaiting-attestation", "building-proof", "submitting",
           "mirrored", "failed"}
Outcomes == {"mirrored", "already-mirrored", "needs-signer", "failed", "rejected"}
Awaits == {"resolve", "dedupe", "height", "poll", "hold", "prove", "relay", "submit",
           "receipt", "record"}

ClientTypeOK ==
  /\ client \in Clients /\ signer \in BOOLEAN
  /\ at \in Awaits \cup {"off", "done"}
  /\ target \in Places \cup {NowhereYet} /\ query \in Places \cup {NowhereYet}
  /\ queryId \in {0, 72, 96} \X (Places \cup {NowhereYet})
  /\ attempts \in 1..MaxAttempts
  /\ shown \in Stages \cup {"none"} /\ outcome \in Outcomes \cup {"none"}
  /\ own \in {"none", "pending", "ok", "reverted"}
  /\ home \in Places /\ attested \in 0..SourceHead /\ cached \in 0..attested
  /\ applied \subseteq {p \in Places : Block(p) <= attested}
  /\ tombstone \in BOOLEAN /\ stray \in 0..2

ClientStart(where) ==
  /\ at = where
  /\ target = NowhereYet /\ query = NowhereYet /\ queryId = NoId
  /\ attempts = 1 /\ outcome = "none"
  /\ own = "none" /\ attested = 0 /\ cached = 0
  /\ applied = {} /\ tombstone = FALSE /\ stray = 0

ClientInit ==
  /\ client \in Clients /\ signer \in BOOLEAN /\ home \in Places
  /\ shown = "resolving"
  /\ ClientStart("resolve")

\* No client runs.
ClientOff ==
  /\ client \in Clients /\ client = CHOOSE c \in Clients : TRUE
  /\ signer = FALSE /\ home = <<1, CHOOSE i \in Indexes : TRUE>> /\ shown = "none"
  /\ ClientStart("off")

-----------------------------------------------------------------------------
(* Steps of a client *)

Goto(next, stage) ==
  /\ at' = next /\ shown' = stage
  /\ UNCHANGED outcome

End(stage, result) ==
  /\ at' = "done" /\ shown' = stage /\ outcome' = result

Fail == End("failed", "failed") /\ UNCHANGED <<query, queryId>>

\* A submission, or a read, changes nothing but the client's own step.
Reads == UNCHANGED <<runVars, own, sourceVars, registryVars, stray>>

Is(c, where) == client = c /\ at = where

\* easscan's row and the receipt of its transaction.
Resolved ==
  /\ Is("sdk", "resolve")
  /\ target' = home /\ queryId' = computeQueryId(home)
  /\ Goto("dedupe", "resolving")
  /\ Reads /\ UNCHANGED <<attempts, query>>

\* No row, no transaction, no receipt, or an error.
Unresolved ==
  /\ Is("sdk", "resolve")
  /\ Fail
  /\ Reads /\ UNCHANGED <<target, attempts>>

\* skipDedupeCheck leaves the read out.
Deduped ==
  /\ Is("sdk", "dedupe")
  /\ \/ /\ target \in applied /\ query' = target
        /\ End("mirrored", "already-mirrored")
     \/ Goto("height", shown) /\ UNCHANGED query
  /\ Reads /\ UNCHANGED <<target, attempts, queryId>>

\* attestedHeight, -1 if it cannot be read.
HeightRead ==
  /\ Is("sdk", "height")
  /\ \E height \in {0, cached} :
       IF height < Block(target) THEN Goto("poll", "awaiting-attestation")
                          ELSE Goto("prove", "building-proof")
  /\ Reads /\ UNCHANGED <<target, attempts, query, queryId>>

\* The loop that tells of every poll, and then the builder's own wait.
WaitedOnce ==
  /\ cached >= Block(target)
  /\ \/ Is("sdk", "poll") /\ Goto("hold", shown)
     \/ Is("sdk", "hold") /\ Goto("prove", "building-proof")
  /\ Reads /\ UNCHANGED <<target, attempts, query, queryId>>

\* isQueryProcessed throws, or a wait takes longer than timeoutMs.
WaitFails ==
  /\ client = "sdk" /\ at \in {"dedupe", "poll", "hold"}
  /\ Fail
  /\ Reads /\ UNCHANGED <<target, attempts>>

\* The prover finds the transaction by its hash, wherever it is by now.  The id is made
\* anew only if the index is another: a new block alone leaves the old id.
ProofBuilt ==
  /\ Is("sdk", "prove") /\ Block(home) <= cached
  /\ query' = home
  /\ queryId' = IF Index(home) # Index(target) THEN computeQueryId(home) ELSE queryId
  /\ IF signer THEN Goto("submit", "submitting") ELSE End("failed", "failed")
  /\ Reads /\ UNCHANGED <<target, attempts>>

\* Mistake: a retry waits for the attestation again.
ProofRefusedPolls ==
  /\ Is("sdk", "prove")
  /\ \/ /\ attempts < MaxAttempts /\ attempts' = attempts + 1
        /\ Goto("poll", "awaiting-attestation") /\ UNCHANGED <<query, queryId>>
     \/ Fail /\ UNCHANGED attempts
  /\ Reads /\ UNCHANGED target

ProofRefused ==
  /\ Is("sdk", "prove")
  /\ \/ /\ attempts < MaxAttempts /\ attempts' = attempts + 1
        /\ UNCHANGED <<at, shown, outcome, query, queryId>>
     \/ Fail /\ UNCHANGED attempts
  /\ Reads /\ UNCHANGED target

\* Mistake: the catch takes any error for a race with another submitter.
CaughtAny(applies) == End("mirrored", "already-mirrored")

\* "Query already processed" is a race with another submitter, not a failure.
Caught(applies) ==
  IF applies THEN End("mirrored", "already-mirrored") ELSE End("failed", "failed")

\* The simulation, the broadcast, or the receipt says that the call reverts.
SubmitThrows ==
  /\ client = "sdk" /\ at \in {"submit", "receipt"}
  /\ at = "receipt" => own = "reverted"
  /\ \E applies \in BOOLEAN : (applies => query \in applied) /\ Caught(applies)
  /\ UNCHANGED <<runVars, own, sourceVars, registryVars, stray,
                 target, attempts, query, queryId>>

\* The reply to the broadcast is lost, or the receipt does not come in time.
SubmitLost ==
  /\ client = "sdk" /\ at \in {"submit", "receipt"}
  /\ at = "receipt" => own = "pending"
  /\ stray' = stray + 1 /\ own' = "none"
  /\ Fail
  /\ UNCHANGED <<runVars, sourceVars, registryVars, target, attempts>>

Submitted ==
  /\ at = "submit"
  /\ own' = "pending"
  /\ Goto("receipt", shown)
  /\ UNCHANGED <<runVars, sourceVars, registryVars, stray, target, attempts, query, queryId>>

\* The registry's event names the query.
Mirrored ==
  /\ Is("sdk", "receipt") /\ own = "ok"
  /\ End("mirrored", "mirrored")
  /\ queryId' = computeQueryId(query)
  /\ Reads /\ UNCHANGED <<target, attempts, query>>

-----------------------------------------------------------------------------
(* Steps of the browser *)

recorded == home \in applied \/ tombstone

\* The registry's record, which an error hides; then easscan's row and its receipt.
WebResolved ==
  /\ Is("web", "resolve")
  /\ target' = home
  /\ \/ recorded /\ query' = home /\ End("mirrored", "already-mirrored")
     \/ Goto("poll", shown) /\ UNCHANGED query
  /\ Reads /\ UNCHANGED <<attempts, queryId>>

WebUnresolved ==
  /\ Is("web", "resolve")
  /\ \/ Fail
     \/ End(shown, "rejected") /\ UNCHANGED <<query, queryId>>
  /\ Reads /\ UNCHANGED <<target, attempts>>

\* The prover's height, the precompile's if the prover does not answer.
WebHeightRead ==
  /\ Is("web", "poll")
  /\ \E height \in {cached, attested} :
       IF height < Block(target) THEN Goto("poll", "awaiting-attestation")
                          ELSE Goto("prove", "building-proof")
  /\ Reads /\ UNCHANGED <<target, attempts, query, queryId>>

\* Neither answers, or the page has aborted the run.
WebRejects ==
  /\ client = "web" /\ at \in {"poll", "prove"}
  /\ End(shown, "rejected")
  /\ Reads /\ UNCHANGED <<target, attempts, query, queryId>>

\* Without the address of the registry there is nothing to submit to.  The id that the
\* page shows, and asks the registry about, is the padded one.
WebProofBuilt ==
  /\ Is("web", "prove") /\ Block(home) <= cached
  /\ query' = home /\ queryId' = webQueryId(home)
  /\ \/ Goto("relay", "submitting")
     \/ End("failed", "needs-signer")
  /\ Reads /\ UNCHANGED <<target, attempts>>

\* An error that may go away is waited out, and changes nothing.
WebProofRefused ==
  /\ Is("web", "prove")
  /\ Fail
  /\ Reads /\ UNCHANGED <<target, attempts>>

\* The relayer has the proof; what it does with it is its own affair.
RelayerSubmits ==
  /\ Is("web", "relay") /\ stray = 0
  /\ stray' = 1
  /\ UNCHANGED <<runVars, stepVars, own, sourceVars, registryVars>>

\* Its ok means that the query is applied, by it or by another; it comes with the
\* relayer's id of the query.
RelayerAccepts ==
  /\ Is("web", "relay") /\ query \in applied
  /\ End("mirrored", "mirrored")
  /\ queryId' = computeQueryId(query)
  /\ Reads /\ UNCHANGED <<target, attempts, query>>

RelayerDeclines ==
  /\ Is("web", "relay")
  /\ Fail
  /\ Reads /\ UNCHANGED <<target, attempts>>

\* No answer within 120 s, none at all, an abort; or the record cannot be read after
\* an ok, which the same catch takes for an unreachable relayer.
RelayerUnreachable ==
  /\ Is("web", "relay")
  /\ IF signer THEN Goto("submit", shown) ELSE End(shown, "needs-signer")
  /\ Reads /\ UNCHANGED <<target, attempts, query, queryId>>

WebWaited ==
  /\ Is("web", "receipt") /\ own = "ok"
  /\ Goto("record", shown)
  /\ Reads /\ UNCHANGED <<target, attempts, query, queryId>>

WebMirrored ==
  /\ Is("web", "record")
  /\ End("mirrored", "mirrored")
  /\ Reads /\ UNCHANGED <<target, attempts, query, queryId>>

\* Whatever goes wrong with the browser's own submission, or with the read after it.
WebSubmitFails ==
  /\ client = "web"
  /\ at \in {"submit", "receipt", "record"}
  /\ at = "receipt" => own = "reverted"
  /\ Fail
  /\ Reads /\ UNCHANGED <<target, attempts>>

-----------------------------------------------------------------------------
(* The chains and the other submitters *)

Attest ==
  /\ at # "off" /\ attested < SourceHead
  /\ attested' = attested + 1
  /\ UNCHANGED <<runVars, stepVars, own, home, cached, registryVars, stray>>

ProverCatchesUp ==
  /\ cached < attested
  /\ cached' = cached + 1
  /\ UNCHANGED <<runVars, stepVars, own, home, attested, registryVars, stray>>

Reorg ==
  /\ at # "off" /\ Block(home) > attested
  /\ home' \in {p \in Places : Block(p) > attested} \ {home}
  /\ UNCHANGED <<runVars, stepVars, own, attested, cached, registryVars, stray>>

\* What is at an attested place may be submitted by others, and the revocation of the
\* attestation as well.  Only the places that a client asks about are kept.
OthersSubmit ==
  /\ at # "off"
  /\ \/ /\ \E p \in {home, target} :
             Block(p) \in 1..attested /\ applied' = applied \cup {p}
        /\ UNCHANGED tombstone
     \/ Block(home) <= attested /\ tombstone' = TRUE /\ UNCHANGED applied
  /\ UNCHANGED <<runVars, stepVars, own, sourceVars, stray>>

\* The registry applies a query once.
ExecuteOwn ==
  /\ own = "pending"
  /\ \/ query \notin applied /\ own' = "ok" /\ applied' = applied \cup {query}
     \/ own' = "reverted" /\ UNCHANGED applied
  /\ UNCHANGED <<runVars, stepVars, sourceVars, tombstone, stray>>

ExecuteStray ==
  /\ stray > 0
  /\ stray' = stray - 1
  /\ \/ applied' = applied \cup {query}
     \/ UNCHANGED applied
  /\ UNCHANGED <<runVars, stepVars, own, sourceVars, tombstone>>

SdkStep ==
  \/ Resolved \/ Unresolved \/ Deduped \/ HeightRead \/ WaitedOnce \/ WaitFails
  \/ ProofBuilt \/ ProofRefused \/ SubmitThrows \/ SubmitLost \/ Mirrored

WebStep ==
  \/ WebResolved \/ WebUnresolved \/ WebHeightRead \/ WebRejects
  \/ WebProofBuilt \/ WebProofRefused \/ RelayerAccepts \/ RelayerDeclines
  \/ RelayerUnreachable \/ WebWaited \/ WebMirrored \/ WebSubmitFails

ClientStep == SdkStep \/ WebStep \/ Submitted

ChainStep == Attest \/ ProverCatchesUp \/ Reorg \/ OthersSubmit \/ ExecuteOwn \/ ExecuteStray

ClientNext == ClientStep \/ RelayerSubmits \/ ChainStep

\* One client alone.
ClientSpec == ClientInit /\ [][ClientNext]_clientVars

\* The SDK's waits are bounded.  The browser polls as long as the block is not attested
\* and the proof is refused as retryable: Creditcoin goes on attesting, and the prover
\* proves what it has cached.
ClientFairness ==
  /\ WF_clientVars(SdkStep \/ Submitted) /\ WF_clientVars(ExecuteOwn)
  /\ WF_clientVars(Attest) /\ WF_clientVars(ProverCatchesUp)
  /\ WF_clientVars(WebResolved \/ WebHeightRead \/ WebProofBuilt \/ RelayerUnreachable
                     \/ WebWaited \/ WebMirrored \/ WebSubmitFails)

-----------------------------------------------------------------------------
(* Properties *)

Claims == {"mirrored", "already-mirrored"}

CliExitCode == IF outcome = "failed" THEN 1 ELSE 0

\* The last stage the callback is told agrees with the outcome.
LastStageAgrees ==
  /\ outcome = "none" <=> at # "done"
  /\ outcome \in Claims <=> shown = "mirrored"
  /\ shown = "failed" => outcome \in {"failed", "needs-signer"}
  /\ outcome = "failed" => shown = "failed"

\* The transaction has moved to another block and kept its index.
MovedUnseen == query # target /\ Index(query) = Index(target)

\* The id is that of the query, except that of a race which the SDK loses after the
\* transaction has moved unseen, and the one the browser makes itself.
IdNamesTheQuery ==
  /\ client = "sdk" /\ outcome \in Claims =>
       queryId = computeQueryId(query) \/ (outcome = "already-mirrored" /\ MovedUnseen)
  /\ client = "web" /\ outcome = "mirrored" =>
       queryId \in {computeQueryId(query), webQueryId(query)}

\* A client that says mirrored or already mirrored, or a command that exits with 0,
\* speaks of a query the registry has applied, and of the query of the transaction it
\* has proved, under an id made of that query's block and index except as
\* IdNamesTheQuery says; and the last stage its user was shown says the same.  Only the
\* browser's first read may have found a tombstone instead.
ClaimsAreTrue ==
  /\ outcome \in Claims =>
       \/ query \in applied
       \/ client = "web" /\ outcome = "already-mirrored" /\ tombstone
  /\ client = "sdk" /\ at = "done" /\ CliExitCode = 0 => query \in applied
  /\ outcome = "mirrored" => query = home
  /\ IdNamesTheQuery
  /\ LastStageAgrees

\* The id that a client reports with its claim is one the registry has retired: what the
\* SDK calls "The registry's dedupe key, mirrored from ASCBase._computeQueryId"
\* (computeQueryId), made from an index that is "authoritative for the dedupe key".
ReportedQueryIsApplied ==
  outcome \in Claims /\ queryId # NoId => \E p \in applied : queryId = computeQueryId(p)

Rank(stage) ==
  CASE stage = "none" -> 0 [] stage = "resolving" -> 1
    [] stage = "awaiting-attestation" -> 2 [] stage = "building-proof" -> 3
    [] stage = "submitting" -> 4 [] OTHER -> 5

\* The stages are told in order: the page's timings and the command's log rest on it.
StagesAreInOrder == [][Rank(shown) <= Rank(shown')]_shown

Mirroring == at \notin {"off", "done"}
=============================================================================
