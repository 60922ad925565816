--------------------- MODULE AttestationRegistry_proofs ---------------------
(***************************************************************************)
(* Proofs about AttestationRegistry, for every set of source transactions, *)
(* every log content and every value of the constants.  Order: typing,     *)
(* then the invariant that ties records to retired queries, then what      *)
(* follows from it.                                                        *)
(***************************************************************************)
EXTENDS AttestationRegistry, FiniteSetTheorems, TLAPS

\* An event looked up by one of the uids of a transaction is one of its events.
LEMMA EventOfIsEvent ==
  ASSUME NEW q \in Tx, NEW action, NEW u \in EventUids(q, action)
  PROVE  /\ EventOf(q, action, u) \in Events(q, action)
         /\ EventOf(q, action, u).uid = u
<1>1. PICK l \in Events(q, action) : l.uid = u
  BY DEF EventUids
<1>2. QED
  BY <1>1 DEF EventOf

\* Events are logs; so their uids are uids.
LEMMA EventTypes ==
  ASSUME NEW q \in Tx, NEW action
  PROVE  /\ Events(q, action) \subseteq Log
         /\ EventUids(q, action) \subseteq Uids
         /\ SourceTx[q].block \in Nat
<1>1. SourceTx[q].logs \subseteq Log /\ SourceTx[q].block \in Nat
  BY SourceTxAssumption DEF SourceTxAssumption
<1>2. Events(q, action) \subseteq Log
  BY <1>1 DEF Events
<1>3. \A l \in Log : l.uid \in Uids
  BY DEF Log
<1>4. QED
  BY <1>1, <1>2, <1>3 DEF EventUids

\* Both ways of writing a record produce a record.
LEMMA MirrorRecordType ==
  ASSUME NEW a \in Record, NEW l \in Log, NEW height \in Nat,
         NEW txHash \in TxHashes, now \in Nat
  PROVE  MirrorRecord(a, l, height, txHash) \in Record
BY DEF MirrorRecord, Record, Log

LEMMA RevokeRecordType ==
  ASSUME NEW a \in Record, NEW l \in Log, now \in Nat
  PROVE  RevokeRecord(a, l) \in Record
<1> DEFINE known == IF a.exists THEN a
                    ELSE [a EXCEPT !.attester = l.attester, !.recipient = l.recipient,
                                   !.schemaUid = l.schemaUid, !.exists = TRUE]
<1>1. known \in Record
  BY DEF Record, Log
<1> HIDE DEF known
<1>2. [known EXCEPT !.revoked = TRUE, !.revokedAt = now] \in Record
  BY <1>1 DEF Record
<1>3. QED
  BY <1>2 DEF RevokeRecord, known

\* A set of uids is finite, so the counters grow by a natural number.
LEMMA UidSubsetFinite ==
  ASSUME NEW S \in SUBSET Uids
  PROVE  IsFiniteSet(S) /\ Cardinality(S) \in Nat
<1>1. IsFiniteSet(S)
  BY FS_Subset, SourceTxAssumption DEF SourceTxAssumption
<1>2. QED
  BY <1>1, FS_CardinalityType

\* Every variable keeps its type.
THEOREM TypeCorrect == Spec => []TypeOK
<1>1. Init => TypeOK
  BY SourceTxAssumption DEF Init, TypeOK, NoRecord, Record, SourceTxAssumption
<1>2. TypeOK /\ [Next]_vars => TypeOK'
  <2> SUFFICES ASSUME TypeOK, [Next]_vars
               PROVE  TypeOK'
    OBVIOUS
  <2> USE DEF TypeOK
  <2>1. ASSUME NEW q \in Tx, NEW ck \in ChainKeys, NEW height \in Heights,
               NEW txHash \in TxHashes, SubmitMirror(q, ck, height, txHash)
        PROVE  TypeOK'
    <3> DEFINE rec(u) == IF u \in ToMirror(q, ck)
                         THEN MirrorRecord(attestations[ck][u],
                                EventOf(q, ACTION_MIRROR, u), height, txHash)
                         ELSE attestations[ck][u]
    <3>1. ToMirror(q, ck) \subseteq EventUids(q, ACTION_MIRROR)
      BY DEF ToMirror
    <3>2. \A u \in Uids : rec(u) \in Record
      <4> SUFFICES ASSUME NEW u \in Uids PROVE rec(u) \in Record
        OBVIOUS
      <4>1. CASE u \in ToMirror(q, ck)
        <5>1. EventOf(q, ACTION_MIRROR, u) \in Log
          BY <4>1, <3>1, EventOfIsEvent, EventTypes
        <5>2. height \in Nat
          BY EventTypes DEF Heights
        <5>3. QED
          BY <4>1, <5>1, <5>2, MirrorRecordType
      <4>2. CASE u \notin ToMirror(q, ck)
        BY <4>2
      <4>3. QED
        BY <4>1, <4>2
    <3>3. attestations' = [attestations EXCEPT ![ck] = [u \in Uids |-> rec(u)]]
      BY <2>1 DEF SubmitMirror
    <3>4. attestations' \in [ChainKeys -> [Uids -> Record]]
      <4> HIDE DEF rec
      <4> QED BY <3>2, <3>3
    <3>5. totalMirrored' \in Nat
      BY <2>1, <3>1, EventTypes, UidSubsetFinite DEF SubmitMirror
    <3>6. processedQueries' \in SUBSET Tx
          /\ appliedAs' \in [Tx -> {UNAPPLIED, ACTION_MIRROR, ACTION_REVOKE}]
      BY <2>1 DEF SubmitMirror, Retire
    <3>7. QED
      BY <2>1, <3>4, <3>5, <3>6 DEF SubmitMirror
  <2>2. ASSUME NEW q \in Tx, NEW ck \in ChainKeys, NEW height \in Heights,
               SubmitRevoke(q, ck, height)
        PROVE  TypeOK'
    <3> DEFINE rec(u) == IF u \in ToRevoke(q, ck)
                         THEN RevokeRecord(attestations[ck][u], EventOf(q, ACTION_REVOKE, u))
                         ELSE attestations[ck][u]
    <3>1. ToRevoke(q, ck) \subseteq EventUids(q, ACTION_REVOKE)
      BY DEF ToRevoke
    <3>2. \A u \in Uids : rec(u) \in Record
      <4> SUFFICES ASSUME NEW u \in Uids PROVE rec(u) \in Record
        OBVIOUS
      <4>1. CASE u \in ToRevoke(q, ck)
        <5>1. EventOf(q, ACTION_REVOKE, u) \in Log
          BY <4>1, <3>1, EventOfIsEvent, EventTypes
        <5>2. QED
          BY <4>1, <5>1, RevokeRecordType
      <4>2. CASE u \notin ToRevoke(q, ck)
        BY <4>2
      <4>3. QED
        BY <4>1, <4>2
    <3>3. attestations' = [attestations EXCEPT ![ck] = [u \in Uids |-> rec(u)]]
      BY <2>2 DEF SubmitRevoke
    <3>4. attestations' \in [ChainKeys -> [Uids -> Record]]
      <4> HIDE DEF rec
      <4> QED BY <3>2, <3>3
    <3>5. totalRevoked' \in Nat
      BY <2>2, <3>1, EventTypes, UidSubsetFinite DEF SubmitRevoke
    <3>6. processedQueries' \in SUBSET Tx
          /\ appliedAs' \in [Tx -> {UNAPPLIED, ACTION_MIRROR, ACTION_REVOKE}]
      BY <2>2 DEF SubmitRevoke, Retire
    <3>7. QED
      BY <2>2, <3>4, <3>5, <3>6 DEF SubmitRevoke
  <2>3. ASSUME NEW caller \in Accounts, NEW ck \in ChainKeys, NEW eas \in Contracts,
               setEasAddress(caller, ck, eas)
        PROVE  TypeOK'
    BY <2>3 DEF setEasAddress
  <2>4. ASSUME NEW caller \in Accounts, NEW newOwner \in Accounts,
               transferOwnership(caller, newOwner)
        PROVE  TypeOK'
    BY <2>4 DEF transferOwnership, historyVars
  <2>5. CASE Tick
    BY <2>5 DEF Tick, registryVars, historyVars
  <2>6. CASE UNCHANGED vars
    BY <2>6 DEF vars, registryVars, historyVars
  <2>7. QED
    BY <2>1, <2>2, <2>3, <2>4, <2>5, <2>6 DEF Next
<1>3. QED
  BY <1>1, <1>2, PTL DEF Spec

-----------------------------------------------------------------------------
(* What the two submissions do to one record. *)

\* A mirror rewrites exactly the named, not yet mirrored records of its chain.
LEMMA SubmitMirrorEffect ==
  ASSUME TypeOK, NEW q \in Tx, NEW ck \in ChainKeys, NEW height \in Heights,
         NEW txHash \in TxHashes, SubmitMirror(q, ck, height, txHash),
         NEW c \in ChainKeys, NEW u \in Uids
  PROVE  attestations'[c][u] =
           IF c = ck /\ u \in ToMirror(q, ck)
           THEN MirrorRecord(attestations[c][u], EventOf(q, ACTION_MIRROR, u), height, txHash)
           ELSE attestations[c][u]
BY DEF TypeOK, SubmitMirror

\* A revocation rewrites exactly the named, not yet revoked records of its chain.
LEMMA SubmitRevokeEffect ==
  ASSUME TypeOK, NEW q \in Tx, NEW ck \in ChainKeys, NEW height \in Heights,
         SubmitRevoke(q, ck, height), NEW c \in ChainKeys, NEW u \in Uids
  PROVE  attestations'[c][u] =
           IF c = ck /\ u \in ToRevoke(q, ck)
           THEN RevokeRecord(attestations[c][u], EventOf(q, ACTION_REVOKE, u))
           ELSE attestations[c][u]
BY DEF TypeOK, SubmitRevoke

\* A mirrored record is existing and dated, its revocation fields are kept.
LEMMA MirrorRecordFields ==
  ASSUME NEW a \in Record, NEW l, NEW height, NEW txHash
  PROVE  LET r == MirrorRecord(a, l, height, txHash)
         IN  /\ r.mirroredAt = now /\ r.exists = TRUE
             /\ r.revoked = a.revoked /\ r.revokedAt = a.revokedAt
             /\ r.attester = l.attester /\ r.recipient = l.recipient
             /\ r.schemaUid = l.schemaUid /\ r.sourceBlock = height
BY DEF MirrorRecord, Record

\* A revoked record exists; if it existed before, only its revocation changed.
LEMMA RevokeRecordFields ==
  ASSUME NEW a \in Record, NEW l
  PROVE  LET r == RevokeRecord(a, l)
         IN  /\ r.revoked = TRUE /\ r.exists = TRUE
             /\ r.mirroredAt = a.mirroredAt
             /\ a.exists => r = [a EXCEPT !.revoked = r.revoked, !.revokedAt = r.revokedAt]
<1>1. CASE a.exists
  BY <1>1 DEF RevokeRecord, Record
<1>2. CASE ~a.exists
  BY <1>2 DEF RevokeRecord, Record
<1>3. QED
  BY <1>1, <1>2

\* Applying a query adds its uids, on its chain, to what its action applied to.
LEMMA AppliedToEffect ==
  ASSUME TypeOK, RecordsMatchQueries, NEW q \in Tx, NEW action \in {ACTION_MIRROR, ACTION_REVOKE},
         q \notin processedQueries, Retire(q, action),
         NEW c \in ChainKeys, NEW u \in Uids, NEW other \in {ACTION_MIRROR, ACTION_REVOKE}
  PROVE  AppliedTo(c, u, other)' <=>
           \/ AppliedTo(c, u, other)
           \/ other = action /\ SourceTx[q].chainKey = c /\ u \in EventUids(q, action)
<1>1. appliedAs[q] = UNAPPLIED
  BY DEF RecordsMatchQueries
<1>2. \A r \in Tx : appliedAs'[r] = IF r = q THEN action ELSE appliedAs[r]
  BY DEF TypeOK, Retire
<1>3. UNAPPLIED # other
  BY DEF UNAPPLIED, ACTION_MIRROR, ACTION_REVOKE
<1>4. QED
  BY <1>1, <1>2, <1>3 DEF AppliedTo

\* A step that leaves the records and the retired queries alone keeps the tie.
LEMMA RecordsMatchUnchanged ==
  ASSUME RecordsMatchQueries, UNCHANGED <<processedQueries, attestations, appliedAs>>
  PROVE  RecordsMatchQueries'
BY DEF RecordsMatchQueries, Mirrored, Revoked, AppliedTo

\* The registry's records are a function of the queries applied to it.
THEOREM RecordsMatch == Spec => []RecordsMatchQueries
<1>1. Init => RecordsMatchQueries
  BY DEF Init, RecordsMatchQueries, Mirrored, Revoked, AppliedTo, NoRecord,
         UNAPPLIED, ACTION_MIRROR, ACTION_REVOKE
<1>2. TypeOK /\ TypeOK' /\ RecordsMatchQueries /\ [Next]_vars => RecordsMatchQueries'
  <2> SUFFICES ASSUME TypeOK, TypeOK', RecordsMatchQueries, [Next]_vars
               PROVE  RecordsMatchQueries'
    OBVIOUS
  <2>1. ASSUME NEW q \in Tx, NEW ck \in ChainKeys, NEW height \in Heights,
               NEW txHash \in TxHashes, SubmitMirror(q, ck, height, txHash)
        PROVE  RecordsMatchQueries'
    <3>1. q \notin processedQueries /\ Retire(q, ACTION_MIRROR) /\ SourceTx[q].chainKey = ck
      BY <2>1 DEF SubmitMirror, Accepted, Verifies
    <3>2. \A r \in Tx : r \in processedQueries' <=> appliedAs'[r] # UNAPPLIED
      BY <3>1 DEF Retire, RecordsMatchQueries, TypeOK, UNAPPLIED, ACTION_MIRROR
    <3>3. ASSUME NEW c \in ChainKeys, NEW u \in Uids
          PROVE  /\ Mirrored(c, u)' <=> AppliedTo(c, u, ACTION_MIRROR)'
                 /\ Revoked(c, u)' <=> AppliedTo(c, u, ACTION_REVOKE)'
                 /\ attestations'[c][u].exists <=> Mirrored(c, u)' \/ Revoked(c, u)'
      <4> DEFINE named == c = ck /\ u \in EventUids(q, ACTION_MIRROR)
      <4>0. attestations[c][u] \in Record /\ now # 0
        BY DEF TypeOK
      <4>1. AppliedTo(c, u, ACTION_MIRROR)' <=> AppliedTo(c, u, ACTION_MIRROR) \/ named
        BY <3>1, AppliedToEffect
      <4>2. AppliedTo(c, u, ACTION_REVOKE)' <=> AppliedTo(c, u, ACTION_REVOKE)
        BY <3>1, AppliedToEffect DEF ACTION_MIRROR, ACTION_REVOKE
      <4>3. CASE c = ck /\ u \in ToMirror(q, ck)
        <5>1. /\ Mirrored(c, u)' /\ attestations'[c][u].exists
              /\ Revoked(c, u)' <=> Revoked(c, u)
          <6> DEFINE a == attestations[c][u]
                     r == MirrorRecord(a, EventOf(q, ACTION_MIRROR, u), height, txHash)
          <6>1. attestations'[c][u] = r
            BY <2>1, <4>3, SubmitMirrorEffect
          <6>2. r.mirroredAt = now /\ r.exists = TRUE /\ r.revoked = a.revoked
            BY <4>0 DEF MirrorRecord, Record
          <6>3. QED
            BY <4>0, <6>1, <6>2, Zenon DEF Mirrored, Revoked
        <5>2. named
          BY <4>3 DEF ToMirror
        <5>3. Revoked(c, u) <=> AppliedTo(c, u, ACTION_REVOKE)
          BY DEF RecordsMatchQueries
        <5>4. QED
          BY <4>1, <4>2, <5>1, <5>2, <5>3
      <4>4. CASE ~(c = ck /\ u \in ToMirror(q, ck))
        <5>1. attestations'[c][u] = attestations[c][u]
          BY <2>1, <4>4, SubmitMirrorEffect
        <5>2. named => Mirrored(c, u)
          BY <4>4 DEF ToMirror, Mirrored
        <5>3. QED
          BY <4>1, <4>2, <5>1, <5>2 DEF RecordsMatchQueries, Mirrored, Revoked
      <4>5. QED
        BY <4>3, <4>4
    <3>4. QED
      BY <3>2, <3>3 DEF RecordsMatchQueries
  <2>2. ASSUME NEW q \in Tx, NEW ck \in ChainKeys, NEW height \in Heights,
               SubmitRevoke(q, ck, height)
        PROVE  RecordsMatchQueries'
    <3>1. q \notin processedQueries /\ Retire(q, ACTION_REVOKE) /\ SourceTx[q].chainKey = ck
      BY <2>2 DEF SubmitRevoke, Accepted, Verifies
    <3>2. \A r \in Tx : r \in processedQueries' <=> appliedAs'[r] # UNAPPLIED
      BY <3>1 DEF Retire, RecordsMatchQueries, TypeOK, UNAPPLIED, ACTION_REVOKE
    <3>3. ASSUME NEW c \in ChainKeys, NEW u \in Uids
          PROVE  /\ Mirrored(c, u)' <=> AppliedTo(c, u, ACTION_MIRROR)'
                 /\ Revoked(c, u)' <=> AppliedTo(c, u, ACTION_REVOKE)'
                 /\ attestations'[c][u].exists <=> Mirrored(c, u)' \/ Revoked(c, u)'
      <4> DEFINE named == c = ck /\ u \in EventUids(q, ACTION_REVOKE)
      <4>0. attestations[c][u] \in Record
        BY DEF TypeOK
      <4>1. AppliedTo(c, u, ACTION_REVOKE)' <=> AppliedTo(c, u, ACTION_REVOKE) \/ named
        BY <3>1, AppliedToEffect
      <4>2. AppliedTo(c, u, ACTION_MIRROR)' <=> AppliedTo(c, u, ACTION_MIRROR)
        BY <3>1, AppliedToEffect DEF ACTION_MIRROR, ACTION_REVOKE
      <4>3. CASE c = ck /\ u \in ToRevoke(q, ck)
        <5>1. /\ Revoked(c, u)' /\ attestations'[c][u].exists
              /\ Mirrored(c, u)' <=> Mirrored(c, u)
          <6> DEFINE a == attestations[c][u]
                     r == RevokeRecord(a, EventOf(q, ACTION_REVOKE, u))
          <6>1. attestations'[c][u] = r
            BY <2>2, <4>3, SubmitRevokeEffect
          <6>2. r.revoked = TRUE /\ r.exists = TRUE /\ r.mirroredAt = a.mirroredAt
            BY <4>0, RevokeRecordFields
          <6>3. QED
            BY <6>1, <6>2, Zenon DEF Mirrored, Revoked
        <5>2. named
          BY <4>3 DEF ToRevoke
        <5>3. Mirrored(c, u) <=> AppliedTo(c, u, ACTION_MIRROR)
          BY DEF RecordsMatchQueries
        <5>4. QED
          BY <4>1, <4>2, <5>1, <5>2, <5>3
      <4>4. CASE ~(c = ck /\ u \in ToRevoke(q, ck))
        <5>1. attestations'[c][u] = attestations[c][u]
          BY <2>2, <4>4, SubmitRevokeEffect
        <5>2. named => Revoked(c, u)
          BY <4>4 DEF ToRevoke, Revoked
        <5>3. QED
          BY <4>1, <4>2, <5>1, <5>2 DEF RecordsMatchQueries, Mirrored, Revoked
      <4>5. QED
        BY <4>3, <4>4
    <3>4. QED
      BY <3>2, <3>3 DEF RecordsMatchQueries
  <2>3. ASSUME NEW caller \in Accounts, NEW ck \in ChainKeys, NEW eas \in Contracts,
               setEasAddress(caller, ck, eas)
        PROVE  RecordsMatchQueries'
    BY <2>3, RecordsMatchUnchanged DEF setEasAddress
  <2>4. ASSUME NEW caller \in Accounts, NEW newOwner \in Accounts,
               transferOwnership(caller, newOwner)
        PROVE  RecordsMatchQueries'
    BY <2>4, RecordsMatchUnchanged DEF transferOwnership, historyVars
  <2>5. CASE Tick
    BY <2>5, RecordsMatchUnchanged DEF Tick, registryVars, historyVars
  <2>6. CASE UNCHANGED vars
    BY <2>6, RecordsMatchUnchanged DEF vars, registryVars, historyVars
  <2>7. QED
    BY <2>1, <2>2, <2>3, <2>4, <2>5, <2>6 DEF Next
<1>3. QED
  BY <1>1, <1>2, TypeCorrect, PTL DEF Spec

\* Consumers see a credential as valid iff it was attested and not revoked.
THEOREM ValidIffAttested == Spec => []ValidIffAttestedNotRevoked
<1>1. RecordsMatchQueries => ValidIffAttestedNotRevoked
  BY DEF RecordsMatchQueries, ValidIffAttestedNotRevoked, isValid, Revoked
<1>2. QED
  BY <1>1, RecordsMatch, PTL

-----------------------------------------------------------------------------
(* Action properties. *)

\* The parts of a step that the records and the counters do not notice.
LEMMA OtherSteps ==
  ASSUME [Next]_vars,
         ~ \E q \in Tx, ck \in ChainKeys, height \in Heights :
              \/ \E txHash \in TxHashes : SubmitMirror(q, ck, height, txHash)
              \/ SubmitRevoke(q, ck, height)
  PROVE  UNCHANGED <<processedQueries, attestations, totalMirrored, totalRevoked, appliedAs>>
BY DEF Next, setEasAddress, transferOwnership, Tick, vars, registryVars, historyVars

\* A revocation is never cleared nor re-dated.
THEOREM RevocationFinal == Spec => RevocationIsFinal
<1>1. TypeOK /\ [Next]_vars =>
        [\A ck \in ChainKeys, u \in Uids :
           Revoked(ck, u) =>
             /\ attestations'[ck][u].revoked
             /\ attestations'[ck][u].revokedAt = attestations[ck][u].revokedAt]_vars
  <2> SUFFICES ASSUME TypeOK, [Next]_vars, NEW c \in ChainKeys, NEW u \in Uids, Revoked(c, u)
               PROVE  /\ attestations'[c][u].revoked
                      /\ attestations'[c][u].revokedAt = attestations[c][u].revokedAt
    OBVIOUS
  <2> DEFINE a == attestations[c][u]
  <2>0. a \in Record
    BY DEF TypeOK
  <2>1. ASSUME NEW q \in Tx, NEW ck \in ChainKeys, NEW height \in Heights,
               NEW txHash \in TxHashes, SubmitMirror(q, ck, height, txHash)
        PROVE  attestations'[c][u].revoked /\ attestations'[c][u].revokedAt = a.revokedAt
    <3> DEFINE r == MirrorRecord(a, EventOf(q, ACTION_MIRROR, u), height, txHash)
    <3>1. r.revoked = a.revoked /\ r.revokedAt = a.revokedAt
      BY <2>0 DEF MirrorRecord, Record
    <3>2. attestations'[c][u] = r \/ attestations'[c][u] = a
      BY <2>1, SubmitMirrorEffect
    <3> HIDE DEF r
    <3>3. QED
      BY <3>1, <3>2 DEF Revoked
  <2>2. ASSUME NEW q \in Tx, NEW ck \in ChainKeys, NEW height \in Heights,
               SubmitRevoke(q, ck, height)
        PROVE  attestations'[c][u].revoked /\ attestations'[c][u].revokedAt = a.revokedAt
    <3>1. c = ck => u \notin ToRevoke(q, ck)
      BY DEF ToRevoke, Revoked
    <3>2. attestations'[c][u] = a
      BY <2>2, <3>1, SubmitRevokeEffect
    <3>3. QED
      BY <3>2 DEF Revoked
  <2>3. QED
    BY <2>1, <2>2, OtherSteps DEF Revoked
<1>2. QED
  BY <1>1, TypeCorrect, PTL DEF Spec, RevocationIsFinal

\* What a mirror wrote is never overwritten.
THEOREM MirrorWrittenOnce == Spec => MirrorIsWrittenOnce
<1>1. TypeOK /\ RecordsMatchQueries /\ [Next]_vars =>
        [\A ck \in ChainKeys, u \in Uids :
           Mirrored(ck, u) =>
             attestations'[ck][u] = [attestations[ck][u] EXCEPT
               !.revoked = attestations'[ck][u].revoked,
               !.revokedAt = attestations'[ck][u].revokedAt]]_vars
  <2> SUFFICES ASSUME TypeOK, RecordsMatchQueries, [Next]_vars,
                      NEW c \in ChainKeys, NEW u \in Uids, Mirrored(c, u)
               PROVE  attestations'[c][u] = [attestations[c][u] EXCEPT
                        !.revoked = attestations'[c][u].revoked,
                        !.revokedAt = attestations'[c][u].revokedAt]
    OBVIOUS
  <2> DEFINE a == attestations[c][u]
             onlyRevoked(r) == r = [a EXCEPT !.revoked = r.revoked, !.revokedAt = r.revokedAt]
  <2>0. a \in Record /\ a.exists
    BY DEF TypeOK, RecordsMatchQueries
  <2>1. onlyRevoked(a)
    BY <2>0 DEF Record
  <2>2. ASSUME NEW q \in Tx, NEW ck \in ChainKeys, NEW height \in Heights,
               NEW txHash \in TxHashes, SubmitMirror(q, ck, height, txHash)
        PROVE  attestations'[c][u] = a
    BY <2>2, SubmitMirrorEffect DEF ToMirror, Mirrored
  <2>3. ASSUME NEW q \in Tx, NEW ck \in ChainKeys, NEW height \in Heights,
               SubmitRevoke(q, ck, height)
        PROVE  onlyRevoked(attestations'[c][u])
    <3>1. onlyRevoked(RevokeRecord(a, EventOf(q, ACTION_REVOKE, u)))
      BY <2>0, RevokeRecordFields
    <3>2. \/ attestations'[c][u] = RevokeRecord(a, EventOf(q, ACTION_REVOKE, u))
          \/ attestations'[c][u] = a
      BY <2>3, SubmitRevokeEffect
    <3> HIDE DEF a, onlyRevoked
    <3>3. QED
      BY <3>1, <3>2, <2>1
  <2>4. QED
    BY <2>1, <2>2, <2>3, OtherSteps
<1>2. QED
  BY <1>1, TypeCorrect, RecordsMatch, PTL DEF Spec, MirrorIsWrittenOnce

-----------------------------------------------------------------------------
(* The counters. *)

\* Pairs of one chain are as many as their uids.
LEMMA PairsOfOneChain ==
  ASSUME NEW ck, NEW S \in SUBSET Uids
  PROVE  IsFiniteSet({ck} \X S) /\ Cardinality({ck} \X S) = Cardinality(S)
<1>1. IsFiniteSet({ck}) /\ Cardinality({ck}) = 1 /\ IsFiniteSet(S) /\ Cardinality(S) \in Nat
  BY FS_Singleton, UidSubsetFinite
<1>2. /\ IsFiniteSet({ck} \X S)
      /\ Cardinality({ck} \X S) = Cardinality({ck}) * Cardinality(S)
  BY <1>1, FS_Product
<1>3. QED
  BY <1>1, <1>2

\* Adding pairs that were absent adds their number.
LEMMA CountGrows ==
  ASSUME NEW P \in SUBSET (ChainKeys \X Uids), NEW ck \in ChainKeys,
         NEW S \in SUBSET Uids, P \cap ({ck} \X S) = {}
  PROVE  Cardinality(P \cup ({ck} \X S)) = Cardinality(P) + Cardinality(S)
<1>1. IsFiniteSet(ChainKeys \X Uids)
  BY FS_Product, SourceTxAssumption DEF SourceTxAssumption
<1>2. IsFiniteSet(P) /\ Cardinality(P) \in Nat
  BY <1>1, FS_Subset, FS_CardinalityType
<1>3. IsFiniteSet({ck} \X S) /\ Cardinality({ck} \X S) = Cardinality(S) /\ Cardinality(S) \in Nat
  BY PairsOfOneChain, UidSubsetFinite
<1>4. Cardinality(P \cup ({ck} \X S)) =
        Cardinality(P) + Cardinality({ck} \X S) - Cardinality(P \cap ({ck} \X S))
  BY <1>2, <1>3, FS_Union
<1>5. Cardinality(P \cap ({ck} \X S)) = 0
  BY FS_EmptySet
<1>6. QED
  BY <1>2, <1>3, <1>4, <1>5

\* The counters are the numbers of distinct mirrored and revoked pairs.
THEOREM TotalsExact == Spec => []TotalsAreExact
<1>1. Init => TotalsAreExact
  <2> SUFFICES ASSUME Init PROVE TotalsAreExact
    OBVIOUS
  <2>1. MirroredPairs = {} /\ RevokedPairs = {}
    BY DEF Init, MirroredPairs, RevokedPairs, Mirrored, Revoked, NoRecord
  <2>2. QED
    BY <2>1, FS_EmptySet DEF Init, TotalsAreExact
<1>2. TypeOK /\ TotalsAreExact /\ [Next]_vars => TotalsAreExact'
  <2> SUFFICES ASSUME TypeOK, TotalsAreExact, [Next]_vars
               PROVE  TotalsAreExact'
    OBVIOUS
  <2>0. \A c \in ChainKeys, u \in Uids : attestations[c][u] \in Record
    BY DEF TypeOK
  <2>1. ASSUME NEW q \in Tx, NEW ck \in ChainKeys, NEW height \in Heights,
               NEW txHash \in TxHashes, SubmitMirror(q, ck, height, txHash)
        PROVE  TotalsAreExact'
    <3> DEFINE new == {ck} \X ToMirror(q, ck)
    <3>1. ToMirror(q, ck) \in SUBSET Uids
      BY EventTypes DEF ToMirror
    <3>2. ASSUME NEW c \in ChainKeys, NEW u \in Uids
          PROVE  /\ Mirrored(c, u)' <=> Mirrored(c, u) \/ <<c, u>> \in new
                 /\ Revoked(c, u)' <=> Revoked(c, u)
      <4> DEFINE a == attestations[c][u]
                 r == MirrorRecord(a, EventOf(q, ACTION_MIRROR, u), height, txHash)
      <4>1. r.mirroredAt # 0 /\ r.revoked = a.revoked
        BY <2>0 DEF MirrorRecord, Record, TypeOK
      <4>2. attestations'[c][u] = IF <<c, u>> \in new THEN r ELSE a
        BY <2>1, SubmitMirrorEffect
      <4> HIDE DEF r, new
      <4>3. CASE <<c, u>> \in new
        <5>1. attestations'[c][u] = r
          BY <4>2, <4>3
        <5>2. Mirrored(c, u)' /\ (Revoked(c, u)' <=> Revoked(c, u))
          BY <4>1, <5>1, Zenon DEF Mirrored, Revoked
        <5>3. QED
          BY <4>3, <5>2, Zenon
      <4>4. CASE <<c, u>> \notin new
        BY <4>2, <4>4, Zenon DEF Mirrored, Revoked
      <4>5. QED
        BY <4>3, <4>4
    <3>3. MirroredPairs' = MirroredPairs \cup new /\ RevokedPairs' = RevokedPairs
      BY <3>1, <3>2 DEF MirroredPairs, RevokedPairs
    <3>4. MirroredPairs \cap new = {}
      BY DEF MirroredPairs, Mirrored, ToMirror
    <3>5. Cardinality(MirroredPairs') = Cardinality(MirroredPairs) + Cardinality(ToMirror(q, ck))
      BY <3>1, <3>3, <3>4, CountGrows DEF MirroredPairs
    <3>6. QED
      BY <2>1, <3>3, <3>5 DEF SubmitMirror, TotalsAreExact
  <2>2. ASSUME NEW q \in Tx, NEW ck \in ChainKeys, NEW height \in Heights,
               SubmitRevoke(q, ck, height)
        PROVE  TotalsAreExact'
    <3> DEFINE new == {ck} \X ToRevoke(q, ck)
    <3>1. ToRevoke(q, ck) \in SUBSET Uids
      BY EventTypes DEF ToRevoke
    <3>2. ASSUME NEW c \in ChainKeys, NEW u \in Uids
          PROVE  /\ Revoked(c, u)' <=> Revoked(c, u) \/ <<c, u>> \in new
                 /\ Mirrored(c, u)' <=> Mirrored(c, u)
      <4> DEFINE a == attestations[c][u]
                 r == RevokeRecord(a, EventOf(q, ACTION_REVOKE, u))
      <4>1. r.revoked = TRUE /\ r.mirroredAt = a.mirroredAt
        BY <2>0, RevokeRecordFields
      <4>2. attestations'[c][u] = IF <<c, u>> \in new THEN r ELSE a
        BY <2>2, SubmitRevokeEffect
      <4> HIDE DEF r, new
      <4>3. CASE <<c, u>> \in new
        BY <4>1, <4>2, <4>3, Zenon DEF Mirrored, Revoked
      <4>4. CASE <<c, u>> \notin new
        BY <4>2, <4>4, Zenon DEF Mirrored, Revoked
      <4>5. QED
        BY <4>3, <4>4
    <3>3. RevokedPairs' = RevokedPairs \cup new /\ MirroredPairs' = MirroredPairs
      BY <3>1, <3>2 DEF MirroredPairs, RevokedPairs
    <3>4. RevokedPairs \cap new = {}
      BY DEF RevokedPairs, Revoked, ToRevoke
    <3>5. Cardinality(RevokedPairs') = Cardinality(RevokedPairs) + Cardinality(ToRevoke(q, ck))
      BY <3>1, <3>3, <3>4, CountGrows DEF RevokedPairs
    <3>6. QED
      BY <2>2, <3>3, <3>5 DEF SubmitRevoke, TotalsAreExact
  <2>3. CASE UNCHANGED <<attestations, totalMirrored, totalRevoked>>
    BY <2>3 DEF TotalsAreExact, MirroredPairs, RevokedPairs, Mirrored, Revoked
  <2>4. QED
    BY <2>1, <2>2, <2>3, OtherSteps
<1>3. QED
  BY <1>1, <1>2, TypeCorrect, PTL DEF Spec

-----------------------------------------------------------------------------
(* Provenance. *)

\* The registered EAS addresses and the applied queries are remembered.
EasIsRemembered ==
  \A ck \in ChainKeys : easAddress[ck] # Null => easAddress[ck] \in everRegistered[ck]

\* Nothing already applied or registered is forgotten by a step.
LEMMA HistoryGrows ==
  ASSUME TypeOK, RecordsMatchQueries, [Next]_vars
  PROVE  /\ \A q \in Tx : appliedAs[q] = ACTION_MIRROR => appliedAs'[q] = ACTION_MIRROR
         /\ \A ck \in ChainKeys : everRegistered[ck] \subseteq everRegistered'[ck]
<1> USE DEF TypeOK
<1>1. ASSUME NEW q \in Tx, NEW action \in {ACTION_MIRROR, ACTION_REVOKE},
             q \notin processedQueries, Retire(q, action)
      PROVE  \A r \in Tx : appliedAs[r] = ACTION_MIRROR => appliedAs'[r] = ACTION_MIRROR
  BY <1>1 DEF Retire, RecordsMatchQueries, UNAPPLIED, ACTION_MIRROR
<1>2. ASSUME NEW q \in Tx, NEW ck \in ChainKeys, NEW height \in Heights,
             NEW txHash \in TxHashes, SubmitMirror(q, ck, height, txHash)
      PROVE  /\ \A r \in Tx : appliedAs[r] = ACTION_MIRROR => appliedAs'[r] = ACTION_MIRROR
             /\ UNCHANGED everRegistered
  BY <1>1, <1>2 DEF SubmitMirror, Accepted
<1>3. ASSUME NEW q \in Tx, NEW ck \in ChainKeys, NEW height \in Heights,
             SubmitRevoke(q, ck, height)
      PROVE  /\ \A r \in Tx : appliedAs[r] = ACTION_MIRROR => appliedAs'[r] = ACTION_MIRROR
             /\ UNCHANGED everRegistered
  BY <1>1, <1>3 DEF SubmitRevoke, Accepted
<1>4. ASSUME NEW caller \in Accounts, NEW ck \in ChainKeys, NEW eas \in Contracts,
             setEasAddress(caller, ck, eas)
      PROVE  /\ UNCHANGED appliedAs
             /\ \A c \in ChainKeys : everRegistered[c] \subseteq everRegistered'[c]
  BY <1>4 DEF setEasAddress
<1>5. CASE UNCHANGED historyVars
  BY <1>5 DEF historyVars
<1>6. QED
  BY <1>2, <1>3, <1>4, <1>5 DEF Next, transferOwnership, Tick, vars

LEMMA EasRemembered == Spec => []EasIsRemembered
<1>1. Init => EasIsRemembered
  BY SourceTxAssumption DEF Init, EasIsRemembered, SourceTxAssumption
<1>2. TypeOK /\ EasIsRemembered /\ [Next]_vars => EasIsRemembered'
  <2> SUFFICES ASSUME TypeOK, EasIsRemembered, [Next]_vars
               PROVE  EasIsRemembered'
    OBVIOUS
  <2>1. ASSUME NEW caller \in Accounts, NEW ck \in ChainKeys, NEW eas \in Contracts,
               setEasAddress(caller, ck, eas)
        PROVE  EasIsRemembered'
    BY <2>1 DEF setEasAddress, EasIsRemembered, TypeOK
  <2>2. CASE UNCHANGED <<easAddress, everRegistered>>
    BY <2>2 DEF EasIsRemembered
  <2>3. QED
    BY <2>1, <2>2 DEF Next, SubmitMirror, SubmitRevoke, transferOwnership, Tick,
                      vars, registryVars, historyVars
<1>3. QED
  BY <1>1, <1>2, TypeCorrect, PTL DEF Spec

\* Every mirrored record is proven by a query that was applied.
THEOREM RecordsProven == Spec => []EveryRecordIsProven
<1>1. Init => EveryRecordIsProven
  BY DEF Init, EveryRecordIsProven, Mirrored, NoRecord
<1>2. TypeOK /\ TypeOK' /\ RecordsMatchQueries /\ EasIsRemembered /\ EveryRecordIsProven
        /\ [Next]_vars => EveryRecordIsProven'
  <2> SUFFICES ASSUME TypeOK, TypeOK', RecordsMatchQueries, EasIsRemembered,
                      EveryRecordIsProven, [Next]_vars,
                      NEW c \in ChainKeys, NEW u \in Uids, Mirrored(c, u)'
               PROVE  \E q \in Tx : /\ appliedAs'[q] = ACTION_MIRROR
                                   /\ Proves(q, c, u, attestations[c][u])'
    BY DEF EveryRecordIsProven
  <2> DEFINE a == attestations[c][u]
  <2>0. a \in Record
    BY DEF TypeOK
  <2>1. ASSUME NEW b, b = attestations'[c][u], a.mirroredAt # 0, b.sourceBlock = a.sourceBlock,
               b.attester = a.attester, b.recipient = a.recipient, b.schemaUid = a.schemaUid
        PROVE  \E q \in Tx : /\ appliedAs'[q] = ACTION_MIRROR
                            /\ Proves(q, c, u, attestations[c][u])'
    <3>1. PICK q \in Tx : appliedAs[q] = ACTION_MIRROR /\ Proves(q, c, u, a)
      BY <2>1 DEF EveryRecordIsProven, Mirrored
    <3>2. appliedAs'[q] = ACTION_MIRROR /\ everRegistered[c] \subseteq everRegistered'[c]
      BY <3>1, HistoryGrows
    <3>3. QED
      BY <2>1, <3>1, <3>2 DEF Proves
  <2>2. CASE attestations'[c][u] = a
    BY <2>1, <2>2 DEF Mirrored
  <2>3. ASSUME NEW q \in Tx, NEW ck \in ChainKeys, NEW height \in Heights,
               NEW txHash \in TxHashes, SubmitMirror(q, ck, height, txHash)
        PROVE  \E p \in Tx : /\ appliedAs'[p] = ACTION_MIRROR
                            /\ Proves(p, c, u, attestations[c][u])'
    <3>1. CASE c = ck /\ u \in ToMirror(q, ck)
      <4> DEFINE l == EventOf(q, ACTION_MIRROR, u)
      <4>1. l \in Events(q, ACTION_MIRROR) /\ l.uid = u
        BY <3>1, EventOfIsEvent DEF ToMirror
      <4>2. /\ SourceTx[q].chainKey = c /\ SourceTx[q].block = height
            /\ SourceTx[q].receiptStatus = 1
            /\ l.emitter = easAddress[c] /\ easAddress[c] # Null
        BY <2>3, <3>1, <4>1 DEF SubmitMirror, Accepted, Verifies, Readable
      <4>3. l.emitter \in everRegistered'[c]
        BY <4>2, HistoryGrows DEF EasIsRemembered
      <4> HIDE DEF l
      <4>4. attestations'[c][u] = MirrorRecord(a, l, height, txHash)
        BY <2>3, <3>1, SubmitMirrorEffect DEF l
      <4>5. /\ attestations'[c][u].sourceBlock = height
            /\ attestations'[c][u].attester = l.attester
            /\ attestations'[c][u].recipient = l.recipient
            /\ attestations'[c][u].schemaUid = l.schemaUid
        BY <2>0, <4>4 DEF MirrorRecord, Record
      <4>6. appliedAs'[q] = ACTION_MIRROR
        BY <2>3 DEF SubmitMirror, Retire, TypeOK
      <4>7. Proves(q, c, u, attestations[c][u])'
        BY <4>1, <4>2, <4>3, <4>5 DEF Proves
      <4>8. QED
        BY <4>6, <4>7
    <3>2. CASE ~(c = ck /\ u \in ToMirror(q, ck))
      BY <2>2, <2>3, <3>2, SubmitMirrorEffect
    <3>3. QED
      BY <3>1, <3>2
  <2>4. ASSUME NEW q \in Tx, NEW ck \in ChainKeys, NEW height \in Heights,
               SubmitRevoke(q, ck, height)
        PROVE  \E p \in Tx : /\ appliedAs'[p] = ACTION_MIRROR
                            /\ Proves(p, c, u, attestations[c][u])'
    <3>1. CASE c = ck /\ u \in ToRevoke(q, ck)
      <4> DEFINE r == RevokeRecord(a, EventOf(q, ACTION_REVOKE, u))
      <4>1. attestations'[c][u] = r
        BY <2>4, <3>1, SubmitRevokeEffect
      <4>2. r.mirroredAt = a.mirroredAt
        BY <2>0, RevokeRecordFields
      <4>3. Mirrored(c, u) /\ a.exists
        BY <4>1, <4>2 DEF Mirrored, RecordsMatchQueries
      <4>4. r = [a EXCEPT !.revoked = r.revoked, !.revokedAt = r.revokedAt]
        BY <2>0, <4>3, RevokeRecordFields
      <4> HIDE DEF r
      <4>5. /\ r.sourceBlock = a.sourceBlock /\ r.attester = a.attester
            /\ r.recipient = a.recipient /\ r.schemaUid = a.schemaUid
        BY <2>0, <4>4 DEF Record
      <4>6. QED
        BY <2>1, <4>1, <4>3, <4>5 DEF Mirrored
    <3>2. CASE ~(c = ck /\ u \in ToRevoke(q, ck))
      BY <2>2, <2>4, <3>2, SubmitRevokeEffect
    <3>3. QED
      BY <3>1, <3>2
  <2>5. QED
    BY <2>2, <2>3, <2>4, OtherSteps
<1>3. QED
  BY <1>1, <1>2, TypeCorrect, RecordsMatch, EasRemembered, PTL DEF Spec

-----------------------------------------------------------------------------
(* The registry implements the ledger. *)

\* What the ledger sees of a record.
LEMMA LedgerView ==
  \A ck \in ChainKeys, u \in Uids : credBar[ck][u] = CredOf(attestations[ck][u])
BY DEF credBar

\* The identity a log or a record states.
IdOf(x) == [attester |-> x.attester, recipient |-> x.recipient, schemaUid |-> x.schemaUid]

\* The ledger's view of a mirrored record and of one that is not.
LEMMA CredOfMirrored ==
  ASSUME NEW a, a.mirroredAt # 0
  PROVE  CredOf(a) = [mirrored |-> TRUE, revoked |-> a.revoked,
                      id |-> IdOf(a)]
<1>1. (a.mirroredAt # 0) = TRUE
  BY Zenon
<1>2. QED
  BY <1>1, Zenon DEF CredOf, IdOf

LEMMA CredOfUnmirrored ==
  ASSUME NEW a, a.mirroredAt = 0
  PROVE  CredOf(a) = [mirrored |-> FALSE, revoked |-> a.revoked,
                      id |-> IdOf(a)]
<1>1. (a.mirroredAt # 0) = FALSE
  BY Zenon
<1>2. QED
  BY <1>1, Zenon DEF CredOf, IdOf

\* Mirroring a record is mirroring the ledger's credential.
LEMMA MirrorIsLedgerMirror ==
  ASSUME NEW a \in Record, NEW l \in Log, NEW height, NEW txHash, now # 0
  PROVE  CredOf(MirrorRecord(a, l, height, txHash)) =
           Ledger!AsMirrored(CredOf(a), IdOf(l))
<1> DEFINE r == MirrorRecord(a, l, height, txHash)
           result == [mirrored |-> TRUE, revoked |-> a.revoked, id |-> IdOf(l)]
<1>1. CredOf(r) = result
  <2>1. /\ r.mirroredAt # 0 /\ r.revoked = a.revoked
        /\ IdOf(r) = IdOf(l)
    BY DEF MirrorRecord, Record, IdOf
  <2> HIDE DEF r
  <2>2. QED
    BY <2>1, CredOfMirrored
<1>2. Ledger!AsMirrored(CredOf(a), IdOf(l)) = result
  <2>1. CASE a.mirroredAt # 0
    <3> DEFINE c == CredOf(a)
    <3>1. c = [mirrored |-> TRUE, revoked |-> a.revoked,
               id |-> IdOf(a)]
      BY <2>1, CredOfMirrored
    <3>2. c.mirrored = TRUE /\ c.revoked = a.revoked
          /\ c.id = IdOf(a)
      BY <3>1
    <3>3. QED
      BY <3>2 DEF Ledger!AsMirrored
  <2>2. CASE a.mirroredAt = 0
    <3> DEFINE c == CredOf(a)
    <3>1. c = [mirrored |-> FALSE, revoked |-> a.revoked,
               id |-> IdOf(a)]
      BY <2>2, CredOfUnmirrored
    <3>2. c.mirrored = FALSE /\ c.revoked = a.revoked
          /\ c.id = IdOf(a)
      BY <3>1
    <3>3. QED
      BY <3>2 DEF Ledger!AsMirrored
  <2>3. QED
    BY <2>1, <2>2
<1>3. QED
  BY <1>1, <1>2

\* Revoking a record that is mirrored or unknown is revoking the credential.
LEMMA RevokeIsLedgerRevoke ==
  ASSUME NEW a \in Record, NEW l \in Log, a.exists <=> a.mirroredAt # 0
  PROVE  CredOf(RevokeRecord(a, l)) =
           Ledger!AsRevoked(CredOf(a), IdOf(l))
<1> DEFINE r == RevokeRecord(a, l)
<1>0. r.revoked = TRUE /\ r.mirroredAt = a.mirroredAt
  BY RevokeRecordFields
<1>1. CASE a.mirroredAt # 0
  <2> DEFINE result == [mirrored |-> TRUE, revoked |-> TRUE, id |-> IdOf(a)]
  <2>1. IdOf(r) = IdOf(a)
    BY <1>1 DEF RevokeRecord, Record, IdOf
  <2>2. CredOf(r) = result
    <3> HIDE DEF r
    <3> QED BY <1>0, <1>1, <2>1, CredOfMirrored
  <2>3. Ledger!AsRevoked(CredOf(a), IdOf(l)) = result
    <3> DEFINE c == CredOf(a)
    <3>1. c = [mirrored |-> TRUE, revoked |-> a.revoked,
               id |-> IdOf(a)]
      BY <1>1, CredOfMirrored
    <3>2. c.mirrored = TRUE /\ c.revoked = a.revoked
          /\ c.id = IdOf(a)
      BY <3>1
    <3>3. QED
      BY <3>2 DEF Ledger!AsRevoked
  <2>4. QED
    BY <2>2, <2>3
<1>2. CASE a.mirroredAt = 0
  <2> DEFINE result == [mirrored |-> FALSE, revoked |-> TRUE, id |-> IdOf(l)]
  <2>1. IdOf(r) = IdOf(l)
    BY <1>2 DEF RevokeRecord, Record, IdOf
  <2>2. CredOf(r) = result
    <3> HIDE DEF r
    <3> QED BY <1>0, <1>2, <2>1, CredOfUnmirrored
  <2>3. Ledger!AsRevoked(CredOf(a), IdOf(l)) = result
    <3> DEFINE c == CredOf(a)
    <3>1. c = [mirrored |-> FALSE, revoked |-> a.revoked,
               id |-> IdOf(a)]
      BY <1>2, CredOfUnmirrored
    <3>2. c.mirrored = FALSE /\ c.revoked = a.revoked
          /\ c.id = IdOf(a)
      BY <3>1
    <3>3. QED
      BY <3>2 DEF Ledger!AsRevoked
  <2>4. QED
    BY <2>2, <2>3
<1>3. QED
  BY <1>1, <1>2

\* The view of a typed record is a credential of the ledger.
LEMMA CredOfType ==
  ASSUME NEW a \in Record
  PROVE  CredOf(a) \in Ledger!Credential
<1>1. IdOf(a) \in Ledger!Identity /\ a.revoked \in BOOLEAN
  BY DEF IdOf, Record, Ledger!Identity
<1>2. CASE a.mirroredAt # 0
  <2>1. CredOf(a) = [mirrored |-> TRUE, revoked |-> a.revoked, id |-> IdOf(a)]
    BY <1>2, CredOfMirrored
  <2>2. QED
    BY <2>1, <1>1 DEF Ledger!Credential
<1>3. CASE a.mirroredAt = 0
  <2>1. CredOf(a) = [mirrored |-> FALSE, revoked |-> a.revoked, id |-> IdOf(a)]
    BY <1>3, CredOfUnmirrored
  <2>2. QED
    BY <2>1, <1>1 DEF Ledger!Credential
<1>4. QED
  BY <1>2, <1>3

\* Every behaviour of the registry is a behaviour of the credential ledger.
THEOREM ImplementsLedger == Spec => LedgerSpec
<1>1. Init => Ledger!Init
  <2> SUFFICES ASSUME Init PROVE credBar = [ck \in ChainKeys |-> [u \in Uids |-> Ledger!Unknown]]
    BY DEF Ledger!Init
  <2>1. \A ck \in ChainKeys, u \in Uids : CredOf(attestations[ck][u]) = Ledger!Unknown
    BY DEF Init, NoRecord, CredOf, Ledger!Unknown
  <2>2. QED
    BY <2>1 DEF credBar
<1>2. TypeOK /\ TypeOK' /\ RecordsMatchQueries /\ [Next]_vars => [Ledger!Next]_credBar
  <2> SUFFICES ASSUME TypeOK, TypeOK', RecordsMatchQueries, [Next]_vars
               PROVE  Ledger!Next \/ UNCHANGED credBar
    OBVIOUS
  <2>00. \A c \in ChainKeys, u \in Uids : attestations[c][u] \in Record
    BY DEF TypeOK
  <2>0. credBar' \in [ChainKeys -> [Uids -> Ledger!Credential]]
    <3>1. \A c \in ChainKeys, u \in Uids : CredOf(attestations'[c][u]) \in Ledger!Credential
      BY CredOfType DEF TypeOK
    <3>2. QED
      BY <3>1 DEF credBar
  <2>1. ASSUME NEW q \in Tx, NEW ck \in ChainKeys, NEW height \in Heights,
               NEW txHash \in TxHashes, SubmitMirror(q, ck, height, txHash)
        PROVE  Ledger!Next
    <3> DEFINE batch == ToMirror(q, ck)
    <3>1. batch \in SUBSET Uids
      BY EventTypes DEF ToMirror
    <3>2. Ledger!Touches(ck, batch)
      <4>1. ASSUME NEW c \in ChainKeys, NEW u \in Uids, ~(c = ck /\ u \in batch)
            PROVE  credBar'[c][u] = credBar[c][u]
        BY <2>1, <4>1, SubmitMirrorEffect DEF credBar
      <4>2. QED
        BY <4>1, <2>0 DEF Ledger!Touches
    <3>3. ASSUME NEW u \in batch
          PROVE  /\ ~credBar[ck][u].mirrored
                 /\ \E id \in Ledger!Identity :
                      credBar'[ck][u] = Ledger!AsMirrored(credBar[ck][u], id)
      <4> DEFINE l == EventOf(q, ACTION_MIRROR, u)
      <4>1. u \in Uids /\ l \in Log
        BY <3>1, <3>3, EventOfIsEvent, EventTypes DEF ToMirror
      <4>2. attestations[ck][u].mirroredAt = 0
        BY DEF ToMirror
      <4>3. ~credBar[ck][u].mirrored
        BY <4>1, <4>2, LedgerView, CredOfUnmirrored
      <4>4. attestations'[ck][u] = MirrorRecord(attestations[ck][u], l, height, txHash)
        BY <2>1, <4>1, SubmitMirrorEffect
      <4>5. CredOf(MirrorRecord(attestations[ck][u], l, height, txHash)) = Ledger!AsMirrored(CredOf(attestations[ck][u]), IdOf(l))
        BY <2>00, <4>1, MirrorIsLedgerMirror DEF TypeOK
      <4>7. IdOf(l) \in Ledger!Identity
        BY <4>1 DEF IdOf, Log, Ledger!Identity
      <4>8. credBar'[ck][u] = Ledger!AsMirrored(credBar[ck][u], IdOf(l))
        BY <4>1, <4>4, <4>5, LedgerView DEF credBar
      <4>9. QED
        BY <4>3, <4>7, <4>8
    <3>4. QED
      BY <3>1, <3>2, <3>3 DEF Ledger!Next, Ledger!Mirror
  <2>2. ASSUME NEW q \in Tx, NEW ck \in ChainKeys, NEW height \in Heights,
               SubmitRevoke(q, ck, height)
        PROVE  Ledger!Next
    <3> DEFINE batch == ToRevoke(q, ck)
    <3>1. batch \in SUBSET Uids
      BY EventTypes DEF ToRevoke
    <3>2. Ledger!Touches(ck, batch)
      <4>1. ASSUME NEW c \in ChainKeys, NEW u \in Uids, ~(c = ck /\ u \in batch)
            PROVE  credBar'[c][u] = credBar[c][u]
        BY <2>2, <4>1, SubmitRevokeEffect DEF credBar
      <4>2. QED
        BY <4>1, <2>0 DEF Ledger!Touches
    <3>3. ASSUME NEW u \in batch
          PROVE  /\ ~credBar[ck][u].revoked
                 /\ \E id \in Ledger!Identity :
                      credBar'[ck][u] = Ledger!AsRevoked(credBar[ck][u], id)
      <4> DEFINE l == EventOf(q, ACTION_REVOKE, u)
      <4>1. u \in Uids /\ l \in Log
        BY <3>1, <3>3, EventOfIsEvent, EventTypes DEF ToRevoke
      <4>2. ~attestations[ck][u].revoked
        BY DEF ToRevoke
      <4>6. attestations[ck][u].exists <=> attestations[ck][u].mirroredAt # 0
        BY <4>1, <4>2 DEF RecordsMatchQueries, Mirrored, Revoked
      <4>3. ~credBar[ck][u].revoked
        <5>1. credBar[ck][u] = CredOf(attestations[ck][u])
          BY <4>1, LedgerView
        <5>2. CredOf(attestations[ck][u]).revoked = attestations[ck][u].revoked
          BY Zenon DEF CredOf
        <5>3. QED
          BY <5>1, <5>2, <4>2, Zenon
      <4>4. attestations'[ck][u] = RevokeRecord(attestations[ck][u], l)
        BY <2>2, <4>1, SubmitRevokeEffect
      <4>5. CredOf(RevokeRecord(attestations[ck][u], l)) = Ledger!AsRevoked(CredOf(attestations[ck][u]), IdOf(l))
        BY <2>00, <4>1, <4>6, RevokeIsLedgerRevoke
      <4>7. IdOf(l) \in Ledger!Identity
        BY <4>1 DEF IdOf, Log, Ledger!Identity
      <4>8. credBar'[ck][u] = Ledger!AsRevoked(credBar[ck][u], IdOf(l))
        BY <4>1, <4>4, <4>5, LedgerView DEF credBar
      <4>9. QED
        BY <4>3, <4>7, <4>8
    <3>4. QED
      BY <3>1, <3>2, <3>3 DEF Ledger!Next, Ledger!Revoke
  <2>3. CASE UNCHANGED attestations
    BY <2>3 DEF credBar
  <2>4. QED
    BY <2>1, <2>2, <2>3, OtherSteps
<1>3. QED
  BY <1>1, <1>2, TypeCorrect, RecordsMatch, PTL DEF Spec, LedgerSpec, Ledger!Spec

=============================================================================
