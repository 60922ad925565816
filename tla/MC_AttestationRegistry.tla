---------------------- MODULE MC_AttestationRegistry ----------------------
(***************************************************************************)
(* Seven provable transactions: a multiAttest, the revocation of one of    *)
(* its uids, the same uid on the other chain, a look-alike contract        *)
(* attesting a uid with another attester, a transaction carrying both      *)
(* kinds of log, a failed one and a multiRevoke that names an unknown uid. *)
(***************************************************************************)
EXTENDS AttestationRegistry

MCChainKeys == {0, 1, 3}
MCSeededEas == [ck \in MCChainKeys |-> IF ck = 0 THEN Null ELSE "eas"]

AnEvent(topic, u, attester, emitter) ==
  [topic |-> topic, emitter |-> emitter, shaped |-> TRUE, uid |-> u,
   attester |-> attester, recipient |-> "bob", schemaUid |-> "schema"]

AttestedLog(u) == AnEvent("Attested", u, "alice", "eas")
RevokedLog(u) == AnEvent("Revoked", u, "alice", "eas")

ATransaction(ck, block, status, logs) ==
  [chainKey |-> ck, block |-> block, receiptStatus |-> status, logs |-> logs]

MCTx == {"multi", "revoke", "sepolia", "clone", "mixed", "failed", "multiRevoke"}

MCSourceTx == [q \in MCTx |->
  CASE q = "multi"       -> ATransaction(3, 10, 1, {AttestedLog("u1"), AttestedLog("u2")})
    [] q = "revoke"      -> ATransaction(3, 11, 1, {RevokedLog("u1")})
    [] q = "sepolia"     -> ATransaction(1, 10, 1, {AttestedLog("u1")})
    [] q = "clone"       -> ATransaction(3, 11, 1, {AnEvent("Attested", "u1", "mallory", "clone")})
    [] q = "mixed"       -> ATransaction(3, 11, 1, {AttestedLog("u3"), RevokedLog("u2")})
    [] q = "failed"      -> ATransaction(3, 11, 0, {AttestedLog("u3")})
    [] q = "multiRevoke" -> ATransaction(3, 11, 1, {RevokedLog("u1"), RevokedLog("u3")})]
=============================================================================
