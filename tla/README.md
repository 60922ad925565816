# A TLA+ model of Admissible

Admissible mirrors Ethereum attestations (EAS) into a registry contract on
Creditcoin: anyone proves to the registry that a source transaction exists, and
the registry records what its logs attest or revoke. These modules model the
registry, the example pool that lends on its word, the processes that feed it,
and the commands and pages that a user runs; TLC checks them on small instances,
and TLAPS proves every safety property of the passing runs for all of them.

Run TLC as `tlc -config <cfg> <module>` with the pairs listed under *Runs*, and
`tlapm <module>_proofs.tla` for the proofs.

## The system

| Part | State it keeps | Operations | Talks to |
|---|---|---|---|
| Registry, `contracts/src/AttestationRegistry.sol` | records per (chain key, uid), two counters, EAS address per chain key, owner, retired queries (ASCBase) | `submit` (mirror or revoke), `setEasAddress`, `transferOwnership`, views | the block prover through ASCBase; every consumer |
| Log reader, `contracts/src/EASReader.sol` | none | selects logs by topic, insists on emitter and shape; decodes calldata | called by the registry |
| Pool, `contracts/src/examples/CredentialGatedPool.sol` | deposits, debts, totals, requirement, cap, presented credentials | `deposit`, `withdraw`, `borrow`, `repay`, `presentCredential`, owner's calls | reads the registry; pays callers, who may call back |
| SDK, `packages/sdk/src` | `NonceAllocator`: next nonce, pending read; otherwise only the run in progress | `mirror`, `mirrorBatch`, `mirrorSchema`, proofs with retries, `verify` | prover, easscan, source chains, Creditcoin |
| CLI, `packages/sdk/bin` | none | `mirror`, `verify`, `status` | the SDK |
| Relayer, `relayer/src` | token buckets, spend counter, one nonce allocator, the write queue of its receipts file | `POST /mirror`, sweep timer | prover, registry, node |
| Worker, `worker/src` | scan cursors and stuck counter, persisted in `state.json` | a poll loop: mirror passes, Sepolia revocations, mainnet revocations | easscan, source RPCs, Etherscan, prover, registry |
| Bench, `bench/src` | receipts file, one nonce allocator over six lanes | `collectCandidates`, `processGroup`, `runPool` | as the worker |
| Web, `web/src` | view state of the open page | mirror one, mirror a schema, list the registry, look up a mirroring, verify, follow the mirror log | relayer or wallet, prover, easscan, registry |

What is hard: the order in which mirror and revocation transactions arrive, and
that one transaction carries many uids and is retired once; reentrant receivers
in the pool; concurrent requests over one wallet, where a nonce is taken in one
turn of the event loop and used in another; the guard that tests a sum other
requests are about to change; transactions that outlive the request that sent
them; a worker that may crash between any two steps, whose scans fail half way,
whose answers are truncated and whose proofs are not available yet; a process
that is killed and run again over a list it has half done; clients that wait for
a chain which still moves, and give up on submissions that are executed
afterwards; pages whose loads are aborted and come back late; lists that shift
while they are read page by page. The list with source lines, and which
property covers each, is in `PROJECT.json` under `hazards`.

What makes each part correct:

- Registry: a record says exactly what the applied queries of its chain say,
  in whatever order they came; revocation is final; nothing is written that no
  proven log supports; the counters are exact.
- Pool: the ether matches the books at every moment a stranger's code can run;
  no debt above the cap or without a credential; the explanation it gives
  agrees with the decision it takes.
- Rate limiter: an upper bound on what is admitted, and an honest `Retry-After`.
- Nonce allocator and relayer: distinct, gapless nonces; true answers; an
  answer to every request; spending within the ceiling.
- Worker: no revocation is passed over, whatever fails; failures are retried;
  fresh mainnet revocations are applied in spite of those that cannot be, and
  old ones are reached.
- Programs that mirror many: what they report is so, no group is forgotten, and
  they end.
- Clients: what they claim, count, list and judge is so at the moment they say
  it, and they come to an end.

## Modules

| Module | Models |
|---|---|
| `CredentialLedger` | the promise of `IAdmissibleRegistry`: credentials that are mirrored once and revoked once, in any order |
| `AttestationRegistry` | the registry, with the log reader and ASCBase's query book-keeping |
| `AttestationRegistry_proofs` | its theorems |
| `MC_AttestationRegistry` | seven source transactions for TLC |
| `CredentialGatedPool`, `CredentialGatedPool_proofs` | the pool over an instance of `CredentialLedger`, and its theorems |
| `MC_CredentialGatedPool` | its identities and requirements for TLC |
| `MC_RegistryAndLanes`, `MC_RelayerAndPool` | two components in one run of TLC: a behaviour is one of either |
| `RateLimiter` | `rateLimit.ts` |
| `NonceAllocator` | the SDK's allocator, as operators |
| `Wallet` | extends it: a wallet's transactions in the pool and on the chain, and the registry's retired queries, as operators |
| `Relayer`, `Relayer_proofs` | extends `Wallet` and `RateLimiter`: `handleMirror` with its guard and its receipts file; the theorems of limiter and relayer |
| `MirrorLanes`, `MirrorLanes_proofs` | extends `Wallet`: bench, worker pass and SDK batches, and their theorems |
| `RevokeWorker`, `RevokeWorker_proofs` | the worker's loop, its Sepolia revocation pass and its state file, and their theorems |
| `MainnetRevocations`, `MainnetRevocations_proofs` | the mainnet revocation pass, and its theorems |
| `Clients` | composes the six modules below: one program of a user at a time |
| `MirrorClient` | one mirroring, by the SDK under the CLI or by the browser |
| `BatchRun` | the browser's mirroring of a schema |
| `Listings` | a set of blocks as the list a client reads, the newest first |
| `LogScan` | the windowed scan of the registry's events under two pages |
| `Discovery` | what worker, bench and `mirrorSchema` find to mirror on easscan |
| `Verify` | the verification of a uid, by the SDK or by the browser |
| `ReceiptsView` | the page of the mirror log |
| `Clients_proofs` | the theorems of the six |
| `DataLemmas` | inductions over numbers and finite sets, and sums, for the proofs |

The operators whose comment begins with *Mistake* are plausible bugs; no
specification uses them. Each property names in `PROJECT.json`, under `mutants`,
one of them that breaks it.

### AttestationRegistry

Every external call is one EVM transaction, hence one step, and a call whose
`require`s fail is not enabled. `SubmitMirror` and `SubmitRevoke` are `submit`
under the two actions: `Accepted` collects all conditions that `submit`,
`execute`, `_processAndEmitEvent` and `_readEvents` impose before anything is
written, then every event of the transaction is applied and the query retired.
The loop over events is a function over uids: EAS derives a uid from the
content, so two logs of one transaction with one uid agree
(`SourceTxAssumption`), and the order within a transaction cannot matter. The
pending context of `submit` is zero outside its frame; `execute` called directly
finds it so and reverts. The prover is external: a query verifies for the chain
and height its transaction has and for no other. `appliedAs` and
`everRegistered` are history, which the properties speak about and no guard
reads. Left out: the payload events, which change no state, and the wrap-around
of two 256-bit counters.

`CredentialLedger` is the abstract specification; `credBar` maps a record to a
credential by forgetting block, hash and times.

### CredentialGatedPool

A payment to an account with code splits the call in two steps: its effects,
which push a frame with the state before the call, and the return, which pops
the frame (`AcceptPayment`) or restores that state (`RejectPayment`). While a frame is open
only accounts with code act. The registry appears through the ledger's steps
alone, so what holds here holds for any registry that keeps the promise. Left
out: ether forced onto the contract without a call, and amounts near 2^256.
`maxCap` is history.

### RateLimiter

`takeToken` is `Admit` or `Refuse`; the sweep may run at any time, which covers
the timer. A tick is any fraction of the refill interval; the clock does not go
back. `admitted` is the number of admissions up to each instant, so that the
burst bound compares two entries; `refusedAt` and `refusedLast` are the first and
the latest refusal of a client since it was last admitted, so that what is said
of the hint is said of states: a repeated refusal changes nothing else.

### NonceAllocator, Wallet and Relayer

A step of a request runs from one `await` to the next. `take` is two steps:
`callTake` up to its first await, `take` when a nonce is ready. JavaScript
resumes waiting code before it handles the next event, so while a nonce is ready
and a lane waits in `take`, only such lanes move (`Quiescent`). The node accepts
a transaction whose nonce is free and not below the account's, and mines in
nonce order; a submission may fail before or after the node has accepted it; a
wait may time out, after which the transaction has no waiter. Every transaction
costs its planned worst case, one unit. The comparison of the posted proof with
the derived one either passes (`Derived`) or ends the request (`Failed`). The
limiter decides before anything else of a request happens, and nothing that
happens later touches a bucket: a behaviour is about one or about the other
(`facet`), which keeps the clock of the limiter out of the interleavings of the
requests. A request that has arrived reads its body first (`Parsed`,
`Unreadable`), and a validated one ends in `Answer`: its line goes to the
receipts file, then it answers. The lines are chained in one promise
(`writeQueue` of `receipts.ts`); one append that fails leaves the chain rejected
(`jammed`), and from then on no validated request is logged or answered, the
`hung` ones. Left out: what validation tests, replacement of pending transactions.

The process is taken to be the only user of its wallet, here and in
`MirrorLanes`; other submitters (`OthersProcess`) have wallets of their own.
Nothing in the repository enforces that: relayer, worker and bench read the same
`PRIVATE_KEY` from the same file (`relayer/README.md:139-146`, `relayer/src/env.ts:3`,
`packages/sdk/src/registry.ts:114`), and two of them at once would take each other's
nonces. What is checked and proved of nonces holds for programs that run one at a
time, or with keys of their own.

### MirrorLanes

Three programs submit the transactions of a list over one allocator, and treat a
transaction alike: dedupe, proof, nonce, submission, receipt, in the steps from
await to await. They differ in what an error ends. A nonce that cannot be read
ends a lane of the bench (`take` and `resync` are outside its `try`, or in its
`catch`), a cycle of the worker, and nothing in `mirrorBatch`, which reports a
failure. `mirrorBatch` goes batch by batch: it waits for the attestation of the
last block, tries one shared submission, whose nonce the signer chooses, and
falls back to slices of concurrent ones. `cuts` is any division of the list into
batches. `Kill` ends the process at any step, with its transactions left in the
pool, and runs it again over the same list. Left out: gas planning, the lines of
the receipts file beyond their status, and a shared submission that stays pending
while the slices run (with the registry's present ABI, which has no entry point for
a batch, `submitSharedBatch` throws before it submits anything).

### RevokeWorker

The steps of a cycle run from await to await. `Crash` is possible at any step;
it loses the locals and the state in memory, and reloads the file, which may be
torn if it was being written. `mirrorOrRevokeGroup` is one step with the
outcomes its code can return (`Outcomes`); other submitters act in between, and
a late inclusion of a transaction that was given up has the same effect. Groups
are blocks: one revoking transaction per block. `handled`, `retryable` and
`floor` are history. The mirror passes appear as a step that may throw, the
mainnet pass has a module of its own.

### MainnetRevocations

`hasKey` chooses between the two passes. With an API key, `HeadRead` begins the
walk at the settled head, and `SliceFetched` is one slice: the answer of
Etherscan is truncated at `TRUSTED` logs, a slice that is full shrinks to its
last `TAIL` blocks, and what a truncated answer leaves out is any of its logs, as
long as `TRUSTED` of them remain. Then the groups are handled one by one within the budget, and the slice is
left for the next cycle (`OutOfBudget`, `SliceStalls`, which counts), or its low
end becomes the cursor (`SliceDone`). Without a key, a window below the head is
scanned anew each cycle. A group is proven and applied, or not; the prover will
never have a proof for those in `unprovable`. What the cycle does before this
pass is a step that may throw. `accounted`, `stalls`, `stallsHere` (those since the
head last moved) and the field `top` are history.

### Clients and its parts

A command is a process of its own and a page that is left aborts what it was
doing, so one program runs at a time; `Clients` takes the six modules in turn,
with whatever else happens on the chains, at the services and by other
submitters meanwhile.

- `MirrorClient`: a query is the block of its transaction and the index in it. Until
  a block is attested, `Reorg` may move the transaction, within its block or to
  another one, at the same index or not. `queryId`, what the client reports, is
  computed where the code computes it, and a hash stands for what it hashes: the SDK's
  72 bytes, the browser's 96 (`webQueryId`). The prover follows the
  attestation later; a submission may be lost, may revert, or may be executed
  after its client has given up on it (`stray`). SDK and browser are two sets of
  actions over the same state, for they differ in order and in what they catch:
  the browser reads the record before anything else, its relayer may be
  unreachable after it has accepted, and leaving the page rejects at the next
  sleep or fetch.
- `BatchRun`: `Located` finds the transactions; the loop of `planBatches` takes
  the earliest that is left, turn by turn, into the last batch or a new one, and
  nothing else happens to the run meanwhile. Then the run is batch by batch,
  proof by proof. The relayer's refusal ends a batch, whether its submission was
  executed or not.
- `LogScan`: a block has at most one event, of one chain. A window fails and
  shrinks, or fails for good. A new filter makes the load that is under way
  `late`: it still returns, or fails, afterwards. The page then leaves the button for
  more disabled if that load was an append (`Registry.tsx:66-69`); the model does not,
  and so has more scans than the page.
- `Discovery`: rows are numbered from the oldest, so that the page at an offset
  moves as rows come in. `Hydrated` keeps the groups whose block is known and, for
  the worker, settled; `mirrorSchema` leaves the margin to the wait of each batch.
  The schemas of the bench are one read that any page-sized set of rows may
  answer.
- `Verify`: a record has whether it is mirrored, whether its source transaction
  is the one easscan names, and when it was revoked, on a clock of its own that
  runs behind. All other fields are proven by the registry and agree.
- `ReceiptsView`: one fetch at a time, `current` as long as the wish that began
  it stands.

## Runs

| Run | Module, cfg | Shows |
|---|---|---|
| registry_and_lanes | `MC_RegistryAndLanes`, same cfg | registry: all its properties and the refinement of the ledger; lanes: true results, every group accounted for, nonces, the end of every run |
| relayer_and_pool | `MC_RelayerAndPool`, same cfg | relayer: nonces, answers, bounded overshoot, progress, the burst bound and the hint; pool: books, cap, gate and explanation under reentrancy |
| pool_partial_requirement | `MC_CredentialGatedPool`, `MC_PoolPartialRequirement.cfg` | a violation, see findings |
| relayer_spend | `Relayer`, `Relayer_spend.cfg` | a violation |
| relayer_nonces | `Relayer`, `Relayer_nonces.cfg` | a violation |
| revoke_worker | `RevokeWorker`, `RevokeWorker.cfg` | nothing passed over, everything examined |
| revoke_worker_retry | `RevokeWorker`, `RevokeWorker_retry.cfg` | a violation |
| worker_mainnet | `MainnetRevocations`, `MainnetRevocations.cfg` | the cursor tells the truth, stalls under one head are bounded, fresh revocations are applied |
| worker_mainnet_stall | `MainnetRevocations`, `MainnetRevocations_stall.cfg` | a violation |
| worker_mainnet_history | `MainnetRevocations`, `MainnetRevocations_history.cfg` | a violation |
| clients | `Clients`, `Clients.cfg` | claims, counts, lists, verdicts and stages; every program ends |
| client_query_id | `MirrorClient`, `MirrorClient_id.cfg` | a violation |

The two runs of two components check each on all of its own behaviours: the
initial state says which of them runs, and the other stays where it is. They share
no state but the constants.

### Bounds

The registry's seven transactions are chosen so that each pair that can
interfere does: a batch and the revocation of one of its uids, the same uid on
the other chain, a look-alike contract, a transaction with both kinds of log, a
failed one, and a revocation of several uids one of which is unknown; two
timestamps suffice to tell a re-dated revocation. The pool needs two nested
calls for a borrow inside a borrow, and two units to pass the cap in one step;
one credential suffices, because no property relates two of them, and two
requirements, of its issuer and of another: one that leaves both fields open is
left to the proofs, one that leaves a single field open to the violation run. The limiter's
properties are about one client and no step of another touches its bucket, so
there is one; the clock runs for three intervals and a part of the fourth. Two
lanes and three requests give the relayer a lane that starts over while the
other is anywhere; the nonce violation needs the four requests of its cfg. The
worker's run has blocks 0 to 3 in chunks of two, hence scans of one and two
chunks, and one crash; MARGIN is 0 because it only shifts the safe head (the
violation run has 1).

The mainnet run has slices of five blocks that shrink to three and two trusted
logs, so that an answer can be truncated, shrunk or whole; a budget of one
group, so that a slice takes several cycles; two stalls before a slice is
abandoned. The block budget does not bind: the walk ends first. The head moves
once, which shifts a shrunk slice under the stuck counter; in the stall run it moves
twice, above slices of two blocks, each time before the counter is full. The history run has
slices of three blocks under a head at four, so that there is something below
the first.

Three groups over two lanes give a lane that goes on while the other is
anywhere, a slice that is not full and a batch that is cut; a process is killed
once, with lists of up to two groups: a second death adds nothing to what the
first leaves in the pool.

`Clients`: three blocks are one before, at and after the attested height; two
attempts distinguish a retry from the last one. Three transactions in batches
of two and over a span of zero make both limits cut. A scan has one window of three
blocks, shrunk to two, over four blocks, and two rows: the registry page needs
several scans and a scan is cut; a look-up may take two. That a scan of
several windows leaves no gap rests on the proof (`ScanHasNoGap`). Pages of one row over three, of which two are enough, shift by one or two.
Three instants order two revocations after a beginning. A transaction has two
indexes it can have in its block, and the run about ids two blocks: one to be found
in and one to move to.

Deadlock is checked for `RevokeWorker` and `MainnetRevocations`. The registry stops
when time and queries are used up, the relayer, the lanes and the clients when their
bounds are, or their work is done; the pool shares the run of the relayer.

### Fairness

- `Relayer`, `MirrorLanes`: weak fairness of each lane's steps, of the nonce
  read and of the list, because every await ends: the prover is asked a bounded
  number of times, RPC calls and the wait for a receipt time out, and the HTTP server
  closes a connection whose body does not come. Nothing is assumed of blocks, of
  success, or of the receipts file: a request is answered unless that is jammed.
- `RevokeWorker`, `MainnetRevocations`: weak fairness of the loop; strong
  fairness of the steps that call a node, of each group's handling in the first
  and of the application of some provable group in the second: what is tried in
  cycle after cycle does not fail for ever. Crashes are bounded by `MaxCrashes`,
  or do not go on for ever.
- `Clients`: weak fairness of the steps of the program that runs. The SDK's
  waits are bounded; the browser polls without a bound, so its end rests on
  Creditcoin going on to attest and the prover following (`Attest`,
  `ProverCatchesUp`, `HeightGrows`), and on transactions being executed. A fetch
  of the mirror log ends. A visitor owes nothing, and need not leave.

## Findings

1. `CredentialGatedPool.hasCredential` ignores a required attester if the schema
   is a wildcard, and the other way round; `eligibilityOf` does not.
2. The relayer's ceiling is tested before and recorded after the submission, and
   not recorded at all on a revert or a timeout.
3. `NonceAllocator.resync` hands out a nonce that another request holds.
4. `pollRevokeSepolia` moves its cursor past revocations that it has just
   logged as retryable.
5. `pollRevokeMainnetEtherscan` ends its walk after one slice, because the new
   `high` is below the cursor it has just set, and the cursor only moves up: the
   full history is not walked.

6. The stuck counter of that pass belongs to the low end of a slice, which moves
   with the head: one group without a proof holds the cursor for more than
   `MAINNET_REVOKE_MAX_SKIPPED` cycles in a row. While the head stands still the
   comment's promise is kept (`StallsAreBounded`).
7. The SDK computes `result.queryId` before it waits, and again only if the index
   has changed. A transaction that moves to another block at the same index is
   reported under the id of the old one when the race for it is lost
   (`already-mirrored`); in every other case the id is right (`IdNamesTheQuery`, part
   of `ClaimsAreTrue`). The browser's `computeQueryId` pads its numbers to words and
   hashes 96 bytes, so that no id it shows is one the registry knows, and its
   `isQueryProcessed` is asked of an id that nobody applies: with `Clients = {"web"}`
   the same property fails without any race.

The counterexamples of the seven violation runs show each. Other
places where the code does less than it says are part of the models, and the
properties of the passing runs except or state them:

- The sweep of the limiter never drops a bucket, although its comment has it that the
  map does not grow unbounded (`rateLimit.ts:47`): the theorem `SweepDropsNothing`.
- A receipts file that fails once silences the relayer, though `relayer/README.md` has
  every attempt logged (excepted by `EveryRequestIsAnswered`).
- A batch run that is left counts a whole batch (excepted by `CountedIsMirrored`).
- `planBatches` of the browser closes a batch when a block is more than
  `MAX_BLOCK_SPAN` above its first, so a batch may cover 1001 blocks, where
  `batch.ts:14-15`, `SPEC.md:154` and the SDK's `maxSpan - 1` give the prover 1000.
  `BatchesArePacked` states the code's measure; that the prover takes such a batch it
  does not say.
- The bench passes over a page that fails (excepted by `PagesLeaveNoHole`).
- The SDK never passes a mirrored revocation, since it compares two clocks (excepted
  by `VerdictIsSound`).

## Proofs

Every invariant and every action property of the passing runs is a theorem, for
all values of the constants under the assumptions the modules name. These say
what the code fixes (a chunk is at least one block, a list of lanes is finite)
and nothing of how large anything is; `MaxRequests`, `MaxTime`, `Rows`, `Tip` and
the other bounds of the model-checking runs are any numbers.

The provers cannot use an induction theorem that takes a predicate.
`DataLemmas` therefore states induction for sets: a set of numbers, or of
subsets of a finite set, that has the first element and is closed under the step
has them all (`SetInduction`, `SubsetInduction`). From it come the least element
(`LeastNat`), the first number that a finite set leaves free (`FirstFree`), and
what `SumFunction` is: a sum that exists, is natural, and moves by what one place
moves by (`SumsExist`, `SumType`, `SumUpdate`).

`AttestationRegistry_proofs`, for every set of queries, every content of the
source transactions and all values of the constants under `SourceTxAssumption`:
uids and chain keys are finite sets, chain keys are natural numbers, the zero
address is no contract, the deployer is an account, the log sets of a
transaction agree on a uid.

- `TypeCorrect` is inductive as it stands.
- `RecordsMatch`: `RecordsMatchQueries` is inductive with the type invariant. A
  submission applies one query that was free before; `AppliedToEffect` says how
  `AppliedTo` changes, and the two submission cases compare it with the records
  they write, uid by uid. Other actions leave both sides alone.
- `ValidIffAttested` follows from it.
- `RevocationFinal`, `MirrorWrittenOnce`: by action, from typing.
- `TotalsExact`: the pairs split by chain; a submission adds the uids it wrote,
  which were not in the set (`CountGrows`).
- `RecordsProven`: strengthened with `EasIsRemembered` (a registered address is
  in the history), because the owner may replace the address a record came from.
- `ImplementsLedger`: each submission is a ledger step on the uids it writes,
  everything else stutters.

`CredentialGatedPool_proofs`, for all sets of accounts and contracts and any
depth of nested calls. A revert restores an earlier world, so the invariant is
one about worlds (`WorldInv`): it holds of the present one and of the one every
call in progress would go back to (`FramesInv`). Pushing a frame records a world
of which it holds; `RejectPayment` goes back to one.

- `PoolBooksBalance`: the totals are the sums of the books, and the balance is
  the difference of the totals; each call changes one book and one total by the
  same amount (`SumUpdate`). `PoolTypeCorrect` rests on it: that no total is
  negative follows from its being a sum.
- `PoolDebtWithinCap`: with `borrowCap <= maxCap`.
- `PoolDebtIsWarranted`: `hasCredential` implies a mirrored credential of the
  borrower, and the registry never takes one back (`CredentialGrows`).
- `EligibilityIsExact`: under the hypothesis that each requirement the owner may
  set names both an attester and a schema or neither. Finding 1 is what happens
  without it.

`Relayer_proofs`, for every burst, interval and clock, and for any number of
lanes and requests and any ceiling. Those of the limiter are theorems of `LimiterSpec`; `RelayerLimits`
carries them over to `Relayer`, whose steps are the limiter's or leave it alone.

- `HintIsHonoured`: the bucket of a client under refusal stays, empty, and dated no
  later than the first refusal, and its latest refusal is less than an interval after
  that one (`RefusedInv`): after the interval the refill finds a token.
- `SweepDropsNothing`: the sweep only drops full buckets, and no stored bucket is
  full (`NoBucketIsFull`), because whatever stores one has just taken a token or found
  none.
- `BurstHolds`: what a bucket still grants and what was admitted since any
  earlier instant together stay within the bound (`Covers`): a refill adds as
  much to the bucket as the stretch of time adds to the bound, and the remainder of
  an interval that a refill keeps is never granted twice.
- `RelayerLeavesNoGap`: before the first read has answered nothing has been sent;
  after it, until something fails, the lanes in flight hold exactly the nonces
  from the account's to the allocator's, and the node's pool those of the lanes
  that wait (`QuietInv`). What the node counts as pending is therefore no nonce
  anybody holds (`PendingCountIsFree`).
- `RelayerAnswersAreTrue`: whoever the pool knows to wait for a transaction waits
  for its own query (`PoolInv`), so a successful receipt is about it
  (`AnswerInv`).
- `RelayerOvershootIsBounded`: each lane past the guard may still spend one unit
  (`SpendInv`), and the guard lets a lane pass only while the sum is below the
  ceiling.

`MirrorLanes_proofs`, for bench, worker and SDK, and for lists of any length, any
cut into batches, and any number of lanes and kills. `LanesLoseNoGroup` rests
on where the list is (`ListInv`) and on who has which group: the lanes at work
have one each, below the index, that nobody has reported (`AccountInv`), and
a lane that died has lost its group (`DeadInv`). `LanesReportTheTruth` and `LanesLeaveNoGap`
rest on the same three invariants as their counterparts in the relayer; a kill
disturbs, because what it leaves in the pool belongs to no lane.

`RevokeWorker_proofs`: `WorkerTypeCorrect` and `NothingPassedOver`, for every
margin, window, chunk and number of crashes. The strengthening says that what is
below the cursor of a pass was handed over or found (`PassInv`), and that a file
with a cursor means a cursor in memory (`FileInv`): otherwise the window of a
scan without one could start below what the file claims.

`MainnetRevocations_proofs`, for every margin, slice, budget and number of blocks,
with any failures and crashes. `CursorIsTrue`: the invariant says what a cursor
claims, of the state in memory and of the file alike (`Claim`), and where the walk
stands: above the cursor, with what is left of its slice in `found` (`WalkInv`).
`SliceDone` turns the second into the first. `StallsEnd`: with a key a pass looks
at one slice only, so the counter belongs to one block as long as the head
stays, and the stalls of the present head are those it has counted (`StallInv`).
Stalls are counted from the last crash on, which may lose the counter.

`Clients_proofs`. One program runs at a time, so each of the parts has an
invariant of its own, and a step of another leaves its variables alone.
`ClientsTypeCorrect` collects their types.

- `ClaimsHold`, for any height of the source chain and number of attempts:
  `ClientInv` carries the claim back to where it is decided. A submission that has
  succeeded is in `applied`, of a block that was attested when it was proved,
  and attested blocks do not move. The id that is reported names that query, unless it
  is the one of the first look at a transaction that has moved unseen.
- `StagesGoOn`: what is shown is tied to the await (`StageInv`), and no step
  leads to an await of an earlier stage.
- `BatchesPack`, `CountsAreTrue`, for any number of transactions at any distances:
  the batches so far lie before what is still to be packed (`PlanInv`); of
  the batch in hand, the transactions that are not among the waiting proofs are on
  chain, and the receipt awaited is that of the first one that waits (`TallyInv`).
- `ScanHasNoGap`, for every window, limit, floor and tip: the rows of a scan are
  the events between where it began and where it is (`Sound`), an append begins
  where the list ends (`LoadInv`), and the list with what was cut off is all there is
  above its lower end (`ViewInv`). `LookupInv` says the same for the one event of a
  look-up, which `ScanAssumption` takes to have been mined when the look-up
  begins: its uid comes from a record of the registry. Lists are handled by
  `FallingOn` and `FallingStart`: a falling list goes on with one whose elements are
  all smaller, and its beginning falls.
- `PagesHaveNoHole`, for every page size and growth of the list: rows come in at
  the front only, so that the next page begins no lower than where the last one
  ended (`PagesInv`).
- `VerdictHolds`: `VerifyInv` says that what has been read is what there was: a
  revocation that was there from the start is read, and while nothing has
  changed the two reads are the world.

Model-checked only: liveness (`EveryRequestIsAnswered`,
`EveryRevocationIsExamined`, `FreshRevocationsAreApplied`, `RunEnds`,
`ProgramsEnd`), which rests on fairness and so on ENABLED, out of the prover's
reach; and the seven violations. No module declares a RECURSIVE operator.

## Not modelled

- Presentation: the rendering of all pages and components, and the pages that
  show single reads (pool, sandbox, landing, documentation).
- Parsing and validation of arguments, request bodies and configuration; the
  content of the receipts files, the bench's summary and its gate test; the CLI's
  `status`. They are pure, or read once and print.
- The decoding of calldata in `EASReader`, which feeds an event only.
- Deployment scripts, generated ABIs, the vendored `forge-std`. The prover
  precompile, ASCBase, EAS, easscan and Etherscan are external: they appear as
  the answers the code has to deal with.

## Plan

Done: registry, ledger, pool, limiter, allocator, relayer, both revocation
passes, the programs that submit in bulk, the clients. What is left:

1. An abstract scan cursor that both revocation passes implement.
2. An abstract allocator, a set of nonces handed out once each while nothing
   fails, that relayer and lanes implement.
3. `PayloadRecovery`: the pairing of calldata payloads and logs in `EASReader`.
4. `lastSeenAttestTime` of the mirror pass, if the worker begins to read it.
