------------------------------- MODULE Verify -------------------------------
(***************************************************************************)
(* One verification of a uid, easscan against the registry:                *)
(*   sdk  packages/sdk/src/verify.ts, verify, of the command verify;       *)
(*   web  web/src/lib/verify.ts, verifyUid, of the page that verifies.     *)
(* The SDK reads easscan and then the registry, the browser both at once.  *)
(* Meanwhile the attestation may be revoked on its chain, mirrored, and    *)
(* its revocation mirrored.  Nothing but the source transaction's hash is  *)
(* up to whoever submits, so the other fields of a mirrored record agree.  *)
(***************************************************************************)
EXTENDS Naturals

CONSTANT Times   \* the clock of both chains runs over 1..Times

ASSUME TimesAssumption == Times \in Nat \ {0}

VARIABLES
  verifier,    \* off, sdk, web
  now,
  onSource,    \* easscan knows the attestation
  revokedAt,   \* its revocationTime, or 0
  record,      \* what the registry holds
  easSeen,     \* eas: unread, error, absent, or the revocationTime
  recordSeen,  \* registryRecord: unread, error, or the record
  verdict,     \* none, PASS, FAIL, error
  stale,       \* when it began, the revocation was on easscan
  quiet        \* since it began, neither side has changed

worldVars == <<now, onSource, revokedAt, record>>
verifyVars == <<verifier, worldVars, easSeen, recordSeen, verdict, stale, quiet>>

\* A revocation that comes first makes a record without the fields of the attestation.
NoRecord == [exists |-> FALSE, mirrored |-> FALSE, sameTx |-> FALSE, revokedAt |-> 0]
Records == [exists : BOOLEAN, mirrored : BOOLEAN, sameTx : BOOLEAN, revokedAt : 0..Times]

VerifyTypeOK ==
  /\ verifier \in {"off", "sdk", "web"} /\ now \in 1..Times
  /\ onSource \in BOOLEAN /\ revokedAt \in 0..now /\ record \in Records
  /\ \/ easSeen.is \in {"unread", "error", "absent"}
     \/ easSeen.is = "read" /\ easSeen.revokedAt \in 0..Times
  /\ \/ recordSeen.is \in {"unread", "error"}
     \/ recordSeen.is = "read" /\ recordSeen.record \in Records
  /\ verdict \in {"none", "PASS", "FAIL", "error"}

VerifyStart(who) ==
  /\ verifier = who /\ verdict = "none"
  /\ easSeen = [is |-> "unread"] /\ recordSeen = [is |-> "unread"]
  /\ stale = (revokedAt # 0) /\ quiet = TRUE

\* The registry follows the source chain, later.
Follows(r) ==
  /\ r.exists = (r.mirrored \/ r.revokedAt # 0)
  /\ r.sameTx => r.mirrored
  /\ r.mirrored => onSource
  /\ r.revokedAt # 0 => revokedAt \in 1..(r.revokedAt - 1) /\ r.revokedAt <= now

VerifyInit ==
  /\ now \in 1..Times /\ onSource \in BOOLEAN
  /\ revokedAt \in IF onSource THEN 0..now ELSE {0}
  /\ record \in {r \in Records : Follows(r)}
  /\ \E who \in {"sdk", "web"} : VerifyStart(who)

VerifyOff ==
  /\ now = 1 /\ onSource = FALSE /\ revokedAt = 0 /\ record = NoRecord
  /\ VerifyStart("off")

-----------------------------------------------------------------------------
(* The reads and the verdict *)

Reading == verifier # "off" /\ verdict = "none"

EasRead ==
  /\ Reading /\ easSeen.is = "unread"
  /\ \/ easSeen' = [is |-> "error"]
     \/ ~onSource /\ easSeen' = [is |-> "absent"]
     \/ onSource /\ easSeen' = [is |-> "read", revokedAt |-> revokedAt]
  /\ UNCHANGED <<verifier, worldVars, recordSeen, verdict, stale, quiet>>

\* The address of the registry may not be known, or its node not answer.
RegistryRead ==
  /\ Reading /\ recordSeen.is = "unread"
  /\ verifier = "sdk" => easSeen.is # "unread"
  /\ \/ recordSeen' = [is |-> "error"]
     \/ recordSeen' = [is |-> "read", record |-> record]
  /\ UNCHANGED <<verifier, worldVars, easSeen, verdict, stale, quiet>>

Read == easSeen.is # "unread" /\ recordSeen.is # "unread"

Found ==
  /\ easSeen.is = "read"
  /\ recordSeen.is = "read" /\ recordSeen.record.exists

\* Mistake: the rows of the revocation are informational.
MatchesButRevoked(r, time) == r.mirrored /\ r.sameTx

\* Every row matches.  The SDK also compares the two revocation times, which are of
\* different clocks.
Matches(r, time) ==
  /\ r.mirrored /\ r.sameTx
  /\ (r.revokedAt # 0) = (time # 0)
  /\ verifier = "sdk" => r.revokedAt = time

\* In the browser an error of easscan rejects the whole verification.
Judge ==
  /\ Reading /\ Read
  /\ verdict' = IF verifier = "web" /\ easSeen.is = "error" THEN "error"
                ELSE IF Found /\ Matches(recordSeen.record, easSeen.revokedAt) THEN "PASS"
                ELSE "FAIL"
  /\ UNCHANGED <<verifier, worldVars, easSeen, recordSeen, stale, quiet>>

-----------------------------------------------------------------------------
(* Both chains *)

Passes == now' \in now..Times

AttestedOnSource ==
  /\ Reading /\ ~onSource
  /\ onSource' = TRUE /\ Passes /\ quiet' = FALSE
  /\ UNCHANGED <<verifier, revokedAt, record, easSeen, recordSeen, verdict, stale>>

RevokedOnSource ==
  /\ Reading /\ onSource /\ revokedAt = 0
  /\ Passes /\ revokedAt' = now' /\ quiet' = FALSE
  /\ UNCHANGED <<verifier, onSource, record, easSeen, recordSeen, verdict, stale>>

RegistryChanges ==
  /\ Reading
  /\ Passes /\ quiet' = FALSE
  /\ \/ /\ onSource /\ ~record.mirrored
        /\ \E same \in BOOLEAN :
             record' = [record EXCEPT !.exists = TRUE, !.mirrored = TRUE, !.sameTx = same]
     \/ /\ record.revokedAt = 0 /\ revokedAt \in 1..(now' - 1)
        /\ record' = [record EXCEPT !.exists = TRUE, !.revokedAt = now']
  /\ UNCHANGED <<verifier, onSource, revokedAt, easSeen, recordSeen, verdict, stale>>

VerifyStep == EasRead \/ RegistryRead \/ Judge

VerifyNext == VerifyStep \/ AttestedOnSource \/ RevokedOnSource \/ RegistryChanges

VerifyFairness == WF_verifyVars(VerifyStep)

-----------------------------------------------------------------------------
(* Properties *)

\* isAdmissible, the SDK's last word.
isAdmissible == verdict = "PASS" /\ recordSeen.record.revokedAt = 0

Agree == onSource /\ record.mirrored /\ record.sameTx
           /\ (record.revokedAt # 0) = (revokedAt # 0)

\* A verification never passes a snapshot that was stale before it began, nor calls
\* admissible what was revoked by then, whatever happens between its reads; and when
\* both sides were read while nothing changed, it passes what agrees and nothing else,
\* except that the SDK passes no mirrored revocation.
VerdictIsSound ==
  /\ stale /\ record.revokedAt = 0 => verdict # "PASS"
  /\ stale => ~isAdmissible
  /\ quiet /\ easSeen.is # "error" /\ recordSeen.is # "error" =>
       /\ verdict = "PASS" => Agree
       /\ verdict = "FAIL" => ~Agree \/ (verifier = "sdk" /\ revokedAt # 0)
=============================================================================
