------------------------ MODULE AttestationRegistry ------------------------
(***************************************************************************)
(* contracts/src/AttestationRegistry.sol with the log reader it relies on  *)
(* (EASReader.sol) and the query book-keeping it inherits from ASCBase.    *)
(*                                                                         *)
(* Every external call is one EVM transaction, so it is one step here: it  *)
(* takes effect as a whole or reverts and leaves no trace.  A call whose   *)
(* requires fail is a step that is not enabled.  The pending context of    *)
(* submit is non-zero only inside the call frame; its values are the       *)
(* parameters of Submit, and a direct call of execute finds it zero and    *)
(* always reverts, so execute has no action of its own.                    *)
(*                                                                         *)
(* A source transaction is known to the registry by its query id, the hash *)
(* of (chain key, block height, index), so Tx is the set of query ids and  *)
(* SourceTx[q] is what the block prover shows of the transaction behind q. *)
(***************************************************************************)
EXTENDS Integers, FiniteSets

CONSTANTS
  ChainKeys,   \* chain keys a submission may name; 0 is the invalid one
  Uids,        \* EAS attestation uids; two chains may use the same uid
  Contracts,   \* contracts on the source chains that emit logs
  Parties,     \* attesters and recipients
  Schemas,     \* schema uids
  Accounts,    \* accounts that can own the registry
  Deployer,    \* the account that deploys it
  Tx,          \* query ids of the provable source transactions
  SourceTx,    \* SourceTx[q]: the transaction behind query q
  SeededEas,   \* SeededEas[ck]: the address the constructor registers
  TxHashes,    \* values a caller may pass as sourceTxHash, which is not proven
  Null,        \* the zero address, the zero word
  MaxTime      \* bound on the block timestamp

ACTION_MIRROR == 0
ACTION_REVOKE == 1
UNAPPLIED == -1    \* of the history only: the query is still free

\* The topic-0 that each action reads.
Topic(action) == IF action = ACTION_MIRROR THEN "Attested" ELSE "Revoked"

\* A receipt log; shaped: it has 4 topics and 32 bytes of data.
Log ==
  [topic: {"Attested", "Revoked", "Other"}, emitter: Contracts, shaped: BOOLEAN,
   uid: Uids, attester: Parties, recipient: Parties, schemaUid: Schemas]

\* The logs of a receipt form a set: EAS derives a uid from what is attested,
\* so two logs of one transaction that name one uid under one topic agree.
SourceTxAssumption ==
  /\ IsFiniteSet(Uids) /\ IsFiniteSet(ChainKeys)
  /\ ChainKeys \subseteq Nat
  /\ Deployer \in Accounts
  /\ Null \notin Contracts
  /\ SeededEas \in [ChainKeys -> Contracts \cup {Null}]
  /\ MaxTime \in Nat
  /\ SourceTx \in [Tx -> [chainKey: ChainKeys, block: Nat, receiptStatus: {0, 1},
                          logs: SUBSET Log]]
  /\ \A q \in Tx : \A l, m \in SourceTx[q].logs :
       l.topic = m.topic /\ l.uid = m.uid /\ l.emitter = m.emitter => l = m

ASSUME SourceTxAssumption

VARIABLES
  owner,             \* the account allowed to register EAS addresses
  easAddress,        \* easAddress[ck]: canonical EAS deployment, or Null
  processedQueries,  \* queries ASCBase has retired
  attestations,      \* attestations[ck][u]: the MirroredAttestation record
  totalMirrored,
  totalRevoked,
  now,               \* block.timestamp of the destination chain
  appliedAs,         \* history: the action a retired query was applied under
  everRegistered     \* history: all addresses ever registered for a chain key

registryVars == <<owner, easAddress, processedQueries, attestations, totalMirrored, totalRevoked>>
historyVars == <<appliedAs, everRegistered>>
vars == <<registryVars, now, historyVars>>

NoRecord ==
  [attester |-> Null, recipient |-> Null, schemaUid |-> Null, sourceBlock |-> 0,
   sourceTxHash |-> Null, mirroredAt |-> 0, revoked |-> FALSE, revokedAt |-> 0,
   exists |-> FALSE]

\* chainKey and uid of the stored struct repeat the key of the mapping.
Record ==
  [attester: Parties \cup {Null}, recipient: Parties \cup {Null},
   schemaUid: Schemas \cup {Null}, sourceBlock: Nat,
   sourceTxHash: TxHashes \cup {Null}, mirroredAt: Nat, revoked: BOOLEAN,
   revokedAt: Nat, exists: BOOLEAN]

TypeOK ==
  /\ owner \in Accounts
  /\ easAddress \in [ChainKeys -> Contracts \cup {Null}]
  /\ processedQueries \in SUBSET Tx
  /\ attestations \in [ChainKeys -> [Uids -> Record]]
  /\ totalMirrored \in Nat
  /\ totalRevoked \in Nat
  /\ now \in Nat \ {0}
  /\ appliedAs \in [Tx -> {UNAPPLIED, ACTION_MIRROR, ACTION_REVOKE}]
  /\ everRegistered \in [ChainKeys -> SUBSET Contracts]

-----------------------------------------------------------------------------

isValid(ck, u) == attestations[ck][u].exists /\ ~attestations[ck][u].revoked

isValidFrom(ck, u, attester, schemaUid) ==
  /\ isValid(ck, u)
  /\ attestations[ck][u].attester = attester
  /\ attestations[ck][u].schemaUid = schemaUid

Init ==
  /\ owner = Deployer
  /\ easAddress = SeededEas
  /\ processedQueries = {}
  /\ attestations = [ck \in ChainKeys |-> [u \in Uids |-> NoRecord]]
  /\ totalMirrored = 0
  /\ totalRevoked = 0
  /\ now = 1
  /\ appliedAs = [q \in Tx |-> UNAPPLIED]
  /\ everRegistered = [ck \in ChainKeys |-> {SeededEas[ck]} \ {Null}]

\* The logs of q with the topic-0 of the action.
Events(q, action) == {l \in SourceTx[q].logs : l.topic = Topic(action)}

EventUids(q, action) == {l.uid : l \in Events(q, action)}

EventOf(q, action, u) == CHOOSE l \in Events(q, action) : l.uid = u

\* Mistake: logs of look-alike contracts are read too.
ReadableFromAnyEmitter(q, action, eas) == \A l \in Events(q, action) : l.shaped

\* _readEvents fails closed: one look-alike or misshapen log rejects them all.
Readable(q, action, eas) ==
  \A l \in Events(q, action) : l.emitter = eas /\ l.shaped

\* The block prover accepts q only for its own chain and height.
Verifies(q, ck, height) ==
  SourceTx[q].chainKey = ck /\ SourceTx[q].block = height

\* What execute and _processAndEmitEvent require before anything is written.
Accepted(q, action, ck, height) ==
  /\ ck # 0
  /\ easAddress[ck] # Null
  /\ Verifies(q, ck, height)
  /\ q \notin processedQueries
  /\ SourceTx[q].receiptStatus = 1
  /\ Readable(q, action, easAddress[ck])
  /\ Events(q, action) # {}

\* Mistake: a record written afresh.
MirrorRecordAfresh(a, l, height, txHash) ==
  [NoRecord EXCEPT !.attester = l.attester, !.recipient = l.recipient,
                   !.schemaUid = l.schemaUid, !.sourceBlock = height,
                   !.sourceTxHash = txHash, !.mirroredAt = now, !.exists = TRUE]

\* The record _writeMirror leaves; an earlier revocation is preserved.
MirrorRecord(a, l, height, txHash) ==
  [a EXCEPT !.attester = l.attester, !.recipient = l.recipient,
            !.schemaUid = l.schemaUid, !.sourceBlock = height,
            !.sourceTxHash = txHash, !.mirroredAt = now, !.exists = TRUE]

\* Mistake: the identity is taken from the Revoked log even when it is known.
RevokeRecordFromLog(a, l) ==
  [a EXCEPT !.attester = l.attester, !.recipient = l.recipient,
            !.schemaUid = l.schemaUid, !.exists = TRUE,
            !.revoked = TRUE, !.revokedAt = now]

\* The record _revoke leaves; an unknown uid becomes a tombstone.
RevokeRecord(a, l) ==
  LET known == IF a.exists THEN a
               ELSE [a EXCEPT !.attester = l.attester, !.recipient = l.recipient,
                              !.schemaUid = l.schemaUid, !.exists = TRUE]
  IN  [known EXCEPT !.revoked = TRUE, !.revokedAt = now]

\* Mistakes: a tombstone counts as mirrored; a mirrored uid is written again;
\* the revocation of an unknown uid is skipped; a revoked uid is counted again.
ToMirrorIfAbsent(q, ck) ==
  {u \in EventUids(q, ACTION_MIRROR) : ~attestations[ck][u].exists}

ToMirrorAll(q, ck) == EventUids(q, ACTION_MIRROR)

ToRevokeIfKnown(q, ck) ==
  {u \in EventUids(q, ACTION_REVOKE) :
     attestations[ck][u].exists /\ ~attestations[ck][u].revoked}

ToRevokeAll(q, ck) == EventUids(q, ACTION_REVOKE)

ToMirror(q, ck) ==
  {u \in EventUids(q, ACTION_MIRROR) : attestations[ck][u].mirroredAt = 0}

ToRevoke(q, ck) ==
  {u \in EventUids(q, ACTION_REVOKE) : ~attestations[ck][u].revoked}

Retire(q, action) ==
  /\ processedQueries' = processedQueries \cup {q}
  /\ appliedAs' = [appliedAs EXCEPT ![q] = action]

\* submit with action 0: every Attested log of the transaction is mirrored.
SubmitMirror(q, ck, height, txHash) ==
  /\ Accepted(q, ACTION_MIRROR, ck, height)
  /\ Retire(q, ACTION_MIRROR)
  /\ attestations' = [attestations EXCEPT ![ck] =
       [u \in Uids |->
          IF u \in ToMirror(q, ck)
          THEN MirrorRecord(@[u], EventOf(q, ACTION_MIRROR, u), height, txHash)
          ELSE @[u]]]
  /\ totalMirrored' = totalMirrored + Cardinality(ToMirror(q, ck))
  /\ UNCHANGED <<owner, easAddress, totalRevoked, now, everRegistered>>

\* submit with action 1: every Revoked log of the transaction is applied.
SubmitRevoke(q, ck, height) ==
  /\ Accepted(q, ACTION_REVOKE, ck, height)
  /\ Retire(q, ACTION_REVOKE)
  /\ attestations' = [attestations EXCEPT ![ck] =
       [u \in Uids |->
          IF u \in ToRevoke(q, ck)
          THEN RevokeRecord(@[u], EventOf(q, ACTION_REVOKE, u))
          ELSE @[u]]]
  /\ totalRevoked' = totalRevoked + Cardinality(ToRevoke(q, ck))
  /\ UNCHANGED <<owner, easAddress, totalMirrored, now, everRegistered>>

setEasAddress(caller, ck, eas) ==
  /\ caller = owner
  /\ ck # 0
  /\ easAddress' = [easAddress EXCEPT ![ck] = eas]
  /\ everRegistered' = [everRegistered EXCEPT ![ck] = @ \cup {eas}]
  /\ UNCHANGED <<owner, processedQueries, attestations, totalMirrored,
                 totalRevoked, now, appliedAs>>

transferOwnership(caller, newOwner) ==
  /\ caller = owner
  /\ owner' = newOwner
  /\ UNCHANGED <<easAddress, processedQueries, attestations, totalMirrored,
                 totalRevoked, now, historyVars>>

\* The destination chain moves on; several calls may share a timestamp.
Tick ==
  /\ now < MaxTime
  /\ now' = now + 1
  /\ UNCHANGED <<registryVars, historyVars>>

Heights == {SourceTx[q].block : q \in Tx}

Next ==
  \/ \E q \in Tx, ck \in ChainKeys, height \in Heights :
       \/ \E txHash \in TxHashes : SubmitMirror(q, ck, height, txHash)
       \/ SubmitRevoke(q, ck, height)
  \/ \E caller \in Accounts :
       \/ \E ck \in ChainKeys, eas \in Contracts : setEasAddress(caller, ck, eas)
       \/ \E newOwner \in Accounts : transferOwnership(caller, newOwner)
  \/ Tick

Spec == Init /\ [][Next]_vars

-----------------------------------------------------------------------------
(* Properties *)

Mirrored(ck, u) == attestations[ck][u].mirroredAt # 0
Revoked(ck, u) == attestations[ck][u].revoked

\* A retired query of chain ck was applied under the action and names u.
AppliedTo(ck, u, action) ==
  \E q \in Tx : /\ appliedAs[q] = action
               /\ SourceTx[q].chainKey = ck
               /\ u \in EventUids(q, action)

\* What the registry says of a uid is a function of the set of queries applied
\* so far, whatever their order, their batching and the uids they share: a uid
\* is mirrored (revoked) iff some applied mirror (revoke) query of its own
\* chain names it.  No log of a batch is dropped, none leaks to another chain,
\* and a revocation that came first is not lost to a later mirror.
RecordsMatchQueries ==
  /\ \A q \in Tx : q \in processedQueries <=> appliedAs[q] # UNAPPLIED
  /\ \A ck \in ChainKeys, u \in Uids :
       /\ Mirrored(ck, u) <=> AppliedTo(ck, u, ACTION_MIRROR)
       /\ Revoked(ck, u) <=> AppliedTo(ck, u, ACTION_REVOKE)
       /\ attestations[ck][u].exists <=> Mirrored(ck, u) \/ Revoked(ck, u)

\* What a consumer sees (isValid) is true exactly of the uids that applied
\* queries of that chain attest and none revokes: the order in which a mirror
\* and a revocation arrive makes no difference ("True only if mirrored AND not
\* revoked", IAdmissibleRegistry.isValid), and a tombstone is never valid.
ValidIffAttestedNotRevoked ==
  \A ck \in ChainKeys, u \in Uids :
    isValid(ck, u) <=> /\ AppliedTo(ck, u, ACTION_MIRROR)
                       /\ ~AppliedTo(ck, u, ACTION_REVOKE)

MirroredPairs == {p \in ChainKeys \X Uids : Mirrored(p[1], p[2])}
RevokedPairs == {p \in ChainKeys \X Uids : Revoked(p[1], p[2])}

\* The counters count distinct (chain key, uid) pairs (IAdmissibleRegistry,
\* totalMirrored and totalRevoked), however often a uid is submitted again
\* and whether or not its attestation was mirrored before its revocation.
TotalsAreExact ==
  /\ totalMirrored = Cardinality(MirroredPairs)
  /\ totalRevoked = Cardinality(RevokedPairs)

\* q is a successful transaction of chain ck, in the block record a names, with
\* an Attested log that says of u what a says, from a contract that the owner
\* had registered as EAS for that chain.
Proves(q, ck, u, a) ==
  /\ SourceTx[q].chainKey = ck
  /\ SourceTx[q].block = a.sourceBlock
  /\ SourceTx[q].receiptStatus = 1
  /\ \E l \in Events(q, ACTION_MIRROR) :
       /\ l.uid = u
       /\ l.emitter \in everRegistered[ck]
       /\ l.attester = a.attester
       /\ l.recipient = a.recipient
       /\ l.schemaUid = a.schemaUid

\* Neither a submitter nor the owner can write a mirrored record that no
\* applied query proves (the proof of inclusion says nothing of success or of
\* the emitter: both are the registry's own checks).
EveryRecordIsProven ==
  \A ck \in ChainKeys, u \in Uids :
    Mirrored(ck, u) =>
      \E q \in Tx : /\ appliedAs[q] = ACTION_MIRROR
                   /\ Proves(q, ck, u, attestations[ck][u])

\* A revocation and its time stand for good: no later mirror, revocation or
\* owner call clears or re-dates it (_writeMirror preserves revoked, _revoke
\* skips a record that is already revoked).
RevocationIsFinal ==
  [][\A ck \in ChainKeys, u \in Uids :
       Revoked(ck, u) =>
         /\ attestations'[ck][u].revoked
         /\ attestations'[ck][u].revokedAt = attestations[ck][u].revokedAt]_vars

\* What a mirror wrote is never overwritten: not by a second query naming the
\* same uid, not after the owner replaced the chain's EAS address, and not by
\* the revocation, which touches its own two fields only.
MirrorIsWrittenOnce ==
  [][\A ck \in ChainKeys, u \in Uids :
       Mirrored(ck, u) =>
         attestations'[ck][u] = [attestations[ck][u] EXCEPT
           !.revoked = attestations'[ck][u].revoked,
           !.revokedAt = attestations'[ck][u].revokedAt]]_vars

\* The registry implements the ledger that consumer contracts rely on.
CredOf(a) ==
  [mirrored |-> a.mirroredAt # 0, revoked |-> a.revoked,
   id |-> [attester |-> a.attester, recipient |-> a.recipient,
           schemaUid |-> a.schemaUid]]

credBar == [ck \in ChainKeys |-> [u \in Uids |-> CredOf(attestations[ck][u])]]

Ledger == INSTANCE CredentialLedger WITH cred <- credBar

LedgerSpec == Ledger!Spec

=============================================================================
