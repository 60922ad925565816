---------------------- MODULE MC_CredentialGatedPool ----------------------
(***************************************************************************)
(* A lender and a borrower, a contract in the run that passes.  The        *)
(* borrower holds u1 from the required issuer on mainnet (3).  Any other   *)
(* uid or chain it would have attested to itself; the lender is the        *)
(* recipient of nothing.                                                   *)
(***************************************************************************)
EXTENDS CredentialGatedPool

AnIdentity(attester, recipient) ==
  [attester |-> attester, recipient |-> recipient, schemaUid |-> "kyc"]

MCAttestations == [ck \in ChainKeys |-> [u \in Uids |->
  IF ck = 3 /\ u = "u1" THEN AnIdentity("issuer", "alice")
                       ELSE AnIdentity("alice", "alice")]]

MCWealth == [p \in {"lender", "alice"} |-> 1]

ARequirement(attester, schema) == [chainKey |-> 3, attester |-> attester, schemaUid |-> schema]

\* Both the attester and the schema: those of u1, or a look-alike's.
CompleteRequirements == {ARequirement("issuer", "kyc"), ARequirement("alice", "kyc")}

\* The attester is required, the schema is a wildcard.
PartialRequirements == {ARequirement("issuer", "zero")}
=============================================================================
