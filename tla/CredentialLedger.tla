-------------------------- MODULE CredentialLedger --------------------------
(***************************************************************************)
(* What the registry promises a consumer contract (IAdmissibleRegistry): a *)
(* ledger of credentials, one per (chain key, uid), each of which only     *)
(* ever grows.  It can become mirrored once and revoked once, in either    *)
(* order; what it says about attester and schema is fixed when it is       *)
(* mirrored; and revocation is final.  How a credential came to be known   *)
(* (proofs, logs, queries, EAS addresses) is not part of the promise.      *)
(***************************************************************************)
EXTENDS FiniteSets

CONSTANTS
  ChainKeys,   \* source-chain keys
  Uids,        \* attestation identifiers; unique per chain key only
  Parties,     \* addresses that appear as attester or recipient
  Schemas,     \* schema identifiers
  Null         \* the zero address and the zero word of an absent record

VARIABLE cred  \* cred[ck][u]: what the ledger says of u on chain ck

Identity ==
  [attester: Parties \cup {Null}, recipient: Parties \cup {Null},
   schemaUid: Schemas \cup {Null}]

Credential == [mirrored: BOOLEAN, revoked: BOOLEAN, id: Identity]

Unknown ==
  [mirrored |-> FALSE, revoked |-> FALSE,
   id |-> [attester |-> Null, recipient |-> Null, schemaUid |-> Null]]

TypeOK == cred \in [ChainKeys -> [Uids -> Credential]]

\* The two questions a consumer asks (IAdmissibleRegistry.isValid, isValidFrom).
isValid(ck, u) ==
  (cred[ck][u].mirrored \/ cred[ck][u].revoked) /\ ~cred[ck][u].revoked

isValidFrom(ck, u, attester, schemaUid) ==
  /\ isValid(ck, u)
  /\ cred[ck][u].id.attester = attester
  /\ cred[ck][u].id.schemaUid = schemaUid

Init == cred = [ck \in ChainKeys |-> [u \in Uids |-> Unknown]]

AsMirrored(c, id) == [mirrored |-> TRUE, revoked |-> c.revoked, id |-> id]

\* An unknown credential is revoked as a tombstone that takes its identity
\* from the revocation.
AsRevoked(c, id) ==
  [mirrored |-> c.mirrored, revoked |-> TRUE, id |-> IF c.mirrored THEN c.id ELSE id]

\* A submission touches some uids of one chain key and nothing else.
Touches(ck, batch) ==
  /\ cred' \in [ChainKeys -> [Uids -> Credential]]
  /\ \A c \in ChainKeys, u \in Uids : ~(c = ck /\ u \in batch) => cred'[c][u] = cred[c][u]

\* One submission mirrors a batch of credentials that were not mirrored yet.
Mirror(ck, batch) ==
  /\ Touches(ck, batch)
  /\ \A u \in batch :
       /\ ~cred[ck][u].mirrored
       /\ \E id \in Identity : cred'[ck][u] = AsMirrored(cred[ck][u], id)

\* One submission revokes a batch of credentials that were not revoked yet.
Revoke(ck, batch) ==
  /\ Touches(ck, batch)
  /\ \A u \in batch :
       /\ ~cred[ck][u].revoked
       /\ \E id \in Identity : cred'[ck][u] = AsRevoked(cred[ck][u], id)

Next ==
  \E ck \in ChainKeys, batch \in SUBSET Uids : Mirror(ck, batch) \/ Revoke(ck, batch)

Spec == Init /\ [][Next]_cred

=============================================================================
