--------------------------- MODULE Clients_proofs ---------------------------
(***************************************************************************)
(* What the programs tell their users is true, for every number of blocks, *)
(* rows, windows, attempts and clock values: the outcome of a mirroring,   *)
(* the batches and the counts of a schema, the rows and the answer of a    *)
(* log scan, the list of what there is to mirror, and the verdict of a     *)
(* verification.  Each concerns one program, and the steps of the others   *)
(* leave its variables alone.                                              *)
(***************************************************************************)
EXTENDS Clients, DataLemmas, TLAPS

(* Sequences and their elements *)

LEMMA ToSetIn ==
  ASSUME NEW S, NEW s \in Seq(S)
  PROVE  ToSet(s) \subseteq S
BY DEF ToSet

LEMMA Retype ==
  ASSUME NEW S, NEW T, NEW s \in Seq(S), ToSet(s) \subseteq T
  PROVE  s \in Seq(T)
<1>1. Len(s) \in Nat /\ s \in [1..Len(s) -> S]
  OBVIOUS
<1>2. \A i \in 1..Len(s) : s[i] \in T
  BY <1>1 DEF ToSet
<1>3. s \in [1..Len(s) -> T]
  BY <1>1, <1>2
<1> QED  BY <1>1, <1>3

LEMMA StartIn ==
  ASSUME NEW S, NEW s \in Seq(S), NEW n \in 0..Len(s)
  PROVE  SubSeq(s, 1, n) \in Seq(S)
OBVIOUS

LEMMA FallingExists ==
  ASSUME NEW S \in SUBSET Nat, IsFiniteSet(S)
  PROVE  \E s \in SetToSeqs(S) : Falling(s)
<1> DEFINE Fine(U) == \E s \in SetToSeqs(U) : Falling(s)
           N == {n \in Nat : \A U \in SUBSET Nat :
                               IsFiniteSet(U) /\ Cardinality(U) = n => Fine(U)}
<1>1. 0 \in N
  <2> SUFFICES ASSUME NEW U \in SUBSET Nat, IsFiniteSet(U), Cardinality(U) = 0
               PROVE  Fine(U)
    OBVIOUS
  <2>1. U = {}
    BY FS_EmptySet
  <2> DEFINE s == [i \in 1..0 |-> 0]
  <2>2. s \in [1..Cardinality(U) -> U] /\ DOMAIN s = {}
    BY <2>1
  <2>3. s \in SetToSeqs(U)
    BY <2>2 DEF SetToSeqs
  <2>4. Falling(s)
    BY <2>2 DEF Falling
  <2> QED  BY <2>3, <2>4
<1>2. ASSUME NEW n \in Nat, n \in N
      PROVE  n + 1 \in N
  <2> SUFFICES ASSUME NEW U \in SUBSET Nat, IsFiniteSet(U), Cardinality(U) = n + 1
               PROVE  Fine(U)
    OBVIOUS
  <2>1. U # {}
    BY FS_EmptySet
  <2>2. PICK m \in U : \A y \in U : m <= y
    BY <2>1, LeastNat
  <2>3. IsFiniteSet(U \ {m}) /\ Cardinality(U \ {m}) = n
    <3>1. /\ IsFiniteSet(U \ {m})
          /\ Cardinality(U \ {m}) = IF m \in U THEN Cardinality(U) - 1 ELSE Cardinality(U)
      BY FS_RemoveElement
    <3> HIDE DEF Fine, N
    <3>2. Cardinality(U \ {m}) = (n + 1) - 1
      BY <3>1
    <3> QED  BY <3>1, <3>2
  <2>4. PICK s \in SetToSeqs(U \ {m}) : Falling(s)
    BY <1>2, <2>3
  <2>5. s \in [1..n -> U \ {m}]
    BY <2>3, <2>4 DEF SetToSeqs
  <2> DEFINE t == [i \in 1..(n + 1) |-> IF i <= n THEN s[i] ELSE m]
  <2>6. t \in [1..(n + 1) -> U] /\ DOMAIN t = 1..(n + 1)
    BY <2>5
  <2>7. \A i \in 1..(n + 1) : t[i] = IF i <= n THEN s[i] ELSE m
    OBVIOUS
  <2>8. ASSUME NEW i \in 1..n
        PROVE  s[i] > m
    <3>1. s[i] \in U /\ s[i] # m
      BY <2>5
    <3>2. s[i] \in Nat /\ m \in Nat /\ m <= s[i]
      BY <2>2, <3>1
    <3> QED  BY <3>1, <3>2
  <2> HIDE DEF t
  <2>9. Falling(t)
    BY <2>4, <2>5, <2>6, <2>7, <2>8 DEF Falling
  <2>10. \A i, j \in 1..(n + 1) : i # j => t[i] # t[j]
    <3>1. \A i, j \in 1..(n + 1) : i < j => t[i] > t[j]
      BY <2>6, <2>9 DEF Falling
    <3>2. \A i \in 1..(n + 1) : t[i] \in Nat
      BY <2>6
    <3> QED  BY <3>1, <3>2
  <2>11. t \in SetToSeqs(U)
    BY <2>6, <2>10 DEF SetToSeqs
  <2> QED  BY <2>9, <2>11
<1>3. Nat \subseteq N
  <2> HIDE DEF N
  <2> QED  BY <1>1, <1>2, SetInduction
<1>4. Cardinality(S) \in N
  BY <1>3, FS_CardinalityType
<1> QED  BY <1>4

\* A list of a set has all of its elements.
LEMMA ListingIsAll ==
  ASSUME NEW S, IsFiniteSet(S), NEW s \in SetToSeqs(S)
  PROVE  /\ s \in Seq(S) /\ Len(s) = Cardinality(S)
         /\ DOMAIN s = 1..Len(s) /\ ToSet(s) = S
         /\ \A i, j \in 1..Len(s) : s[i] = s[j] => i = j
<1> DEFINE n == Cardinality(S)
<1>1. n \in Nat
  BY FS_CardinalityType
<1>2. s \in [1..n -> S] /\ \A i, j \in 1..n : s[i] = s[j] => i = j
  BY DEF SetToSeqs
<1>3. s \in Seq(S) /\ Len(s) = n /\ DOMAIN s = 1..n
  BY <1>1, <1>2
<1>4. IsFiniteSet(1..n) /\ Cardinality(1..n) = n
  BY <1>1, FS_Interval
<1>5. s \in Injection(1..n, S)
  BY <1>2 DEF Injection, IsInjective
<1>6. s \in Surjection(1..n, S)
  BY <1>4, <1>5, FS_Injection
<1>7. \A x \in S : \E i \in 1..n : s[i] = x
  BY <1>6 DEF Surjection
<1>8. ToSet(s) = S
  BY <1>2, <1>3, <1>7 DEF ToSet
<1> QED  BY <1>2, <1>3, <1>8

LEMMA NewestFirst ==
  ASSUME NEW S \in SUBSET Nat, IsFiniteSet(S)
  PROVE  /\ newestFirst(S) \in SetToSeqs(S) /\ Falling(newestFirst(S))
         /\ newestFirst(S) \in Seq(S) /\ ToSet(newestFirst(S)) = S
         /\ DOMAIN newestFirst(S) = 1..Len(newestFirst(S))
         /\ Len(newestFirst(S)) = Cardinality(S)
<1>1. newestFirst(S) \in SetToSeqs(S) /\ Falling(newestFirst(S))
  BY FallingExists DEF newestFirst
<1> QED  BY <1>1, ListingIsAll

\* A list goes on falling with a second one whose elements are all smaller.
LEMMA FallingOn ==
  ASSUME NEW s \in Seq(Int), NEW t \in Seq(Int), Falling(s), Falling(t),
         \A x \in ToSet(s), y \in ToSet(t) : x > y
  PROVE  /\ s \o t \in Seq(Int) /\ Falling(s \o t)
         /\ ToSet(s \o t) = ToSet(s) \cup ToSet(t)
<1> DEFINE m == Len(s)
           n == Len(t)
           u == s \o t
<1>1. m \in Nat /\ n \in Nat /\ u \in Seq(Int) /\ Len(u) = m + n
  OBVIOUS
<1>2. /\ DOMAIN s = 1..m /\ DOMAIN t = 1..n /\ DOMAIN u = 1..(m + n)
  <2>1. \A v \in Seq(Int) : DOMAIN v = 1..Len(v)
    OBVIOUS
  <2> QED  BY <1>1, <2>1
<1>3. \A i \in 1..(m + n) : i \in 1..m \/ (i - m \in 1..n /\ i = m + (i - m))
  BY <1>1
<1>4. /\ \A i \in 1..m : u[i] = s[i] /\ i \in 1..(m + n)
      /\ \A i \in 1..(m + n) : i > m => u[i] = t[i - m]
      /\ \A i \in 1..n : u[m + i] = t[i] /\ m + i \in 1..(m + n)
  BY <1>1
<1>5. /\ \A i \in 1..m : s[i] \in ToSet(s)
      /\ \A i \in 1..n : t[i] \in ToSet(t)
  BY <1>2 DEF ToSet
<1> HIDE DEF u, m, n
<1>6. Falling(u)
  <2> SUFFICES ASSUME NEW i \in 1..(m + n), NEW j \in 1..(m + n), i < j
               PROVE  u[i] > u[j]
    BY <1>2 DEF Falling
  <2>1. CASE j \in 1..m
    <3>1. i \in 1..m
      BY <1>1, <2>1
    <3>2. s[i] > s[j]
      BY <1>2, <2>1, <3>1 DEF Falling
    <3> QED  BY <1>4, <2>1, <3>1, <3>2
  <2>2. CASE i \in 1..m /\ j \notin 1..m
    <3>1. j - m \in 1..n /\ j > m
      BY <1>1, <2>2
    <3> QED  BY <1>4, <1>5, <2>2, <3>1
  <2>3. CASE i \notin 1..m
    <3>1. i - m \in 1..n /\ j - m \in 1..n /\ i - m < j - m /\ i > m /\ j > m
      BY <1>1, <2>3
    <3>2. t[i - m] > t[j - m]
      BY <1>2, <3>1 DEF Falling
    <3> QED  BY <1>4, <3>1, <3>2
  <2> QED  BY <2>1, <2>2, <2>3
<1>7. ASSUME NEW x PROVE x \in ToSet(u) <=> x \in ToSet(s) \cup ToSet(t)
  <2>1. x \in ToSet(u) => x \in ToSet(s) \cup ToSet(t)
    <3> SUFFICES ASSUME NEW i \in 1..(m + n), x = u[i] PROVE x \in ToSet(s) \cup ToSet(t)
      BY <1>2 DEF ToSet
    <3> QED  BY <1>1, <1>3, <1>4, <1>5
  <2>2. x \in ToSet(s) => x \in ToSet(u)
    <3> SUFFICES ASSUME NEW i \in 1..m, x = s[i] PROVE x \in ToSet(u)
      BY <1>2 DEF ToSet
    <3> QED  BY <1>2, <1>4 DEF ToSet
  <2>3. x \in ToSet(t) => x \in ToSet(u)
    <3> SUFFICES ASSUME NEW i \in 1..n, x = t[i] PROVE x \in ToSet(u)
      BY <1>2 DEF ToSet
    <3> QED  BY <1>2, <1>4 DEF ToSet
  <2> QED  BY <2>1, <2>2, <2>3
<1> QED  BY <1>1, <1>6, <1>7 DEF u

\* So does the beginning of a falling list.
LEMMA FallingStart ==
  ASSUME NEW s \in Seq(Int), Falling(s), NEW n \in 0..Len(s)
  PROVE  /\ SubSeq(s, 1, n) \in Seq(Int) /\ Falling(SubSeq(s, 1, n))
         /\ ToSet(SubSeq(s, 1, n)) \subseteq ToSet(s)
<1> DEFINE t == SubSeq(s, 1, n)
<1>1. /\ t \in Seq(Int) /\ DOMAIN t = 1..n /\ \A i \in 1..n : t[i] = s[i] /\ i \in DOMAIN s
  OBVIOUS
<1> HIDE DEF t
<1>2. Falling(t)
  BY <1>1 DEF Falling
<1>3. ToSet(t) \subseteq ToSet(s)
  BY <1>1 DEF ToSet
<1> QED  BY <1>1, <1>2, <1>3 DEF t

-----------------------------------------------------------------------------
(* A mirroring *)

\* What is submitted is the query of the transaction, whose block is attested and
\* will not move; and a receipt that says ok is about an applied query.
ClientInv ==
  /\ Block(home) \in Nat /\ attested \in Nat /\ cached \in Nat /\ cached <= attested
  /\ at \in {"relay", "submit", "receipt", "record"} => query = home /\ Block(home) <= attested
  /\ own # "none" => at \in {"receipt", "record", "done"}
  /\ own = "ok" => query \in applied
  /\ at = "record" => own = "ok"
  /\ client = "sdk" => at \notin {"relay", "record"}
  /\ client = "sdk" /\ at \in {"dedupe", "height", "poll", "hold", "prove"} =>
       queryId = computeQueryId(target)
  /\ client = "sdk" /\ at \in {"submit", "receipt"} =>
       queryId = IF Index(query) # Index(target) THEN computeQueryId(query)
                                                 ELSE computeQueryId(target)
  /\ client = "web" /\ at \in {"relay", "submit", "receipt", "record"} =>
       queryId = webQueryId(query)
  /\ outcome = "mirrored" => Block(home) <= attested
  /\ client = "sdk" => outcome \in {"none", "mirrored", "already-mirrored", "failed"}
  /\ ClaimsAreTrue

-----------------------------------------------------------------------------
LEMMA ClientSets ==
  /\ SourceHead \in Nat /\ MaxAttempts \in Nat /\ 1 \in Blocks /\ 1 \in 1..MaxAttempts
  /\ Clients \subseteq {"sdk", "web"} /\ Blocks \subseteq Nat
  /\ <<1, CHOOSE i \in Indexes : TRUE>> \in Places
  /\ \A p \in Places : p = <<Block(p), Index(p)>> /\ Block(p) \in Blocks
BY ClientAssumption DEF Blocks, Places, Block, Index

LEMMA ClientStarts ==
  ASSUME ClientInit \/ ClientOff
  PROVE  ClientInv
  BY ClientSets DEF ClientInit, ClientOff, ClientStart, ClientInv, ClaimsAreTrue, LastStageAgrees,
         Claims, Blocks, Places, Block, CliExitCode, IdNamesTheQuery

\* A step that changes neither the claim nor what it rests on.
LEMMA SdkReads ==
  ASSUME ClientInv,
         Resolved \/ Unresolved \/ HeightRead \/ WaitedOnce \/ WaitFails
  PROVE  ClientInv'
<1> USE DEF ClientInv, ClaimsAreTrue, LastStageAgrees, Claims, CliExitCode, IdNamesTheQuery,
            MovedUnseen, Reads, Is, Goto, End, Fail, runVars, sourceVars, registryVars
<1>1. CASE Resolved
  BY <1>1 DEF Resolved
<1>2. CASE Unresolved
  BY <1>2 DEF Unresolved
<1>3. CASE HeightRead
  BY <1>3 DEF HeightRead
<1>4. CASE WaitedOnce
  BY <1>4 DEF WaitedOnce
<1>5. CASE WaitFails
  BY <1>5 DEF WaitFails
<1> QED  BY <1>1, <1>2, <1>3, <1>4, <1>5

LEMMA SdkClaims ==
  ASSUME ClientInv,
         Deduped \/ ProofBuilt \/ ProofRefused \/ SubmitThrows \/ SubmitLost \/ Mirrored
  PROVE  ClientInv'
<1> USE DEF ClientInv, ClaimsAreTrue, LastStageAgrees, Claims, CliExitCode, IdNamesTheQuery,
            MovedUnseen, Reads, Is, Goto, End, Fail, runVars, sourceVars, registryVars
<1>1. CASE Deduped
  BY <1>1 DEF Deduped
<1>2. CASE ProofBuilt
  BY <1>2 DEF ProofBuilt
<1>3. CASE ProofRefused
  BY <1>3 DEF ProofRefused
<1>4. CASE SubmitThrows
  <2>1. \/ query \in applied /\ End("mirrored", "already-mirrored")
        \/ End("failed", "failed")
    BY <1>4 DEF SubmitThrows, Caught
  <2>2. /\ client = "sdk" /\ at \in {"submit", "receipt"}
        /\ UNCHANGED <<runVars, own, sourceVars, registryVars, query, target, queryId>>
    BY <1>4 DEF SubmitThrows
  <2> QED  BY <2>1, <2>2
<1>5. CASE SubmitLost
  BY <1>5 DEF SubmitLost
<1>6. CASE Mirrored
  BY <1>6 DEF Mirrored
<1> QED  BY <1>1, <1>2, <1>3, <1>4, <1>5, <1>6

LEMMA WebReads ==
  ASSUME ClientInv,
         WebUnresolved \/ WebHeightRead \/ WebRejects \/ WebProofBuilt \/ WebProofRefused
           \/ WebWaited
  PROVE  ClientInv'
<1> USE DEF ClientInv, ClaimsAreTrue, LastStageAgrees, Claims, CliExitCode, IdNamesTheQuery,
            MovedUnseen, Reads, Is, Goto, End, Fail, runVars, sourceVars, registryVars
<1>1. CASE WebUnresolved
  BY <1>1 DEF WebUnresolved
<1>2. CASE WebHeightRead
  BY <1>2 DEF WebHeightRead
<1>3. CASE WebRejects
  BY <1>3 DEF WebRejects
<1>4. CASE WebProofBuilt
  BY <1>4 DEF WebProofBuilt
<1>5. CASE WebProofRefused
  BY <1>5 DEF WebProofRefused
<1>6. CASE WebWaited
  BY <1>6 DEF WebWaited
<1> QED  BY <1>1, <1>2, <1>3, <1>4, <1>5, <1>6

LEMMA WebClaims ==
  ASSUME ClientInv,
         WebResolved \/ RelayerAccepts \/ RelayerDeclines \/ RelayerUnreachable
           \/ WebMirrored \/ WebSubmitFails \/ RelayerSubmits \/ Submitted
  PROVE  ClientInv'
<1> USE DEF ClientInv, ClaimsAreTrue, LastStageAgrees, Claims, CliExitCode, IdNamesTheQuery,
            MovedUnseen, Reads, Is, Goto, End, Fail, runVars, stepVars, sourceVars, registryVars
<1>1. CASE WebResolved
  BY <1>1 DEF WebResolved, recorded
<1>2. CASE RelayerAccepts
  BY <1>2 DEF RelayerAccepts
<1>3. CASE RelayerDeclines
  BY <1>3 DEF RelayerDeclines
<1>4. CASE RelayerUnreachable
  BY <1>4 DEF RelayerUnreachable
<1>5. CASE WebMirrored
  BY <1>5 DEF WebMirrored
<1>6. CASE WebSubmitFails
  BY <1>6 DEF WebSubmitFails
<1>7. CASE RelayerSubmits
  BY <1>7 DEF RelayerSubmits
<1>8. CASE Submitted
  BY <1>8 DEF Submitted
<1> QED  BY <1>1, <1>2, <1>3, <1>4, <1>5, <1>6, <1>7, <1>8

\* What others do: an applied query stays applied, an attested block does not move.
LEMMA ChainKeepsClaims ==
  ASSUME ClientInv, ChainStep
  PROVE  ClientInv'
<1> USE DEF ClientInv, ClaimsAreTrue, LastStageAgrees, Claims, CliExitCode, IdNamesTheQuery,
            MovedUnseen, runVars, stepVars, sourceVars, registryVars
<1>1. CASE Attest
  BY <1>1 DEF Attest
<1>2. CASE ProverCatchesUp
  BY <1>2 DEF ProverCatchesUp
<1>3. CASE Reorg
  <2>1. Block(home') \in Nat /\ attested < Block(home)
    BY <1>3, ClientSets DEF Reorg, Places, Block
  <2>2. at \notin {"relay", "submit", "receipt", "record"} /\ outcome # "mirrored"
    BY <2>1
  <2> QED  BY <1>3, <2>1, <2>2 DEF Reorg
<1>4. CASE OthersSubmit
  BY <1>4 DEF OthersSubmit
<1>5. CASE ExecuteOwn
  BY <1>5 DEF ExecuteOwn
<1>6. CASE ExecuteStray
  BY <1>6 DEF ExecuteStray
<1> QED  BY <1>1, <1>2, <1>3, <1>4, <1>5, <1>6 DEF ChainStep

LEMMA ClientKeepsClaims ==
  ASSUME ClientInv, [ClientNext]_clientVars
  PROVE  ClientInv'
<1>1. CASE UNCHANGED clientVars
  BY <1>1 DEF ClientInv, ClaimsAreTrue, LastStageAgrees, Claims, CliExitCode, IdNamesTheQuery,
              MovedUnseen, clientVars, runVars, stepVars, sourceVars, registryVars
<1>2. CASE ClientNext
  BY <1>2, SdkReads, SdkClaims, WebReads, WebClaims, ChainKeepsClaims
  DEF ClientNext, ClientStep, SdkStep, WebStep
<1> QED  BY <1>1, <1>2

-----------------------------------------------------------------------------
(* The values of a client *)

Attested == {p \in Places : Block(p) <= attested}

\* A submission that may still be executed is of the transaction's query, whose block is
\* attested; and the stage that is shown is that of the await.
StageInv ==
  /\ ClientTypeOK
  /\ own = "pending" => at = "receipt"
  /\ stray > 0 =>
       /\ query = home /\ Block(home) <= attested
       /\ at \in {"relay", "submit", "receipt", "record", "done"}
  /\ client = "web" => stray <= 1
  /\ client = "sdk" /\ at # "done" => stray = 0
  /\ at \in {"resolve", "dedupe", "height"} => shown = "resolving"
  /\ at \in {"poll", "hold"} => shown \in {"resolving", "awaiting-attestation"}
  /\ at = "prove" => shown = "building-proof"
  /\ at \in {"relay", "submit", "receipt", "record"} => shown = "submitting"

Forward == Rank(shown) <= Rank(shown')

\* Whatever is told last, the stages go on from there.
LEMMA RanksGrow ==
  /\ \A stage \in Stages \cup {"none"} : Rank(stage) \in 0..5
  /\ Rank("none") = 0 /\ Rank("resolving") = 1 /\ Rank("awaiting-attestation") = 2
  /\ Rank("building-proof") = 3 /\ Rank("submitting") = 4
  /\ Rank("mirrored") = 5 /\ Rank("failed") = 5
BY DEF Rank, Stages

LEMMA StageStarts ==
  ASSUME ClientInit \/ ClientOff
  PROVE  StageInv
<1>1. /\ client \in Clients /\ signer \in BOOLEAN /\ home \in Places
      /\ (ClientStart("resolve") /\ shown = "resolving") \/ (ClientStart("off") /\ shown = "none")
  BY ClientSets DEF ClientInit, ClientOff, Places
<1>2. attested = 0 /\ 0 \in 0..SourceHead /\ cached \in 0..attested
  BY <1>1, ClientSets DEF ClientStart
<1>3. /\ at \in {"resolve", "off"} /\ target = NowhereYet /\ query = NowhereYet /\ attempts = 1
      /\ queryId = NoId
      /\ outcome = "none" /\ own = "none" /\ applied = {} /\ tombstone = FALSE /\ stray = 0
      /\ shown \in {"resolving", "none"}
      /\ at = "resolve" => shown = "resolving"
  BY <1>1 DEF ClientStart
<1>4. ClientTypeOK
  <2>1. /\ target \in Places \cup {NowhereYet} /\ query \in Places \cup {NowhereYet}
        /\ tombstone \in BOOLEAN
    BY <1>3, Zenon
  <2>5. queryId \in {0, 72, 96} \X (Places \cup {NowhereYet})
    BY <1>3 DEF NoId
  <2>3. attempts \in 1..MaxAttempts /\ stray \in 0..2 /\ applied \subseteq Attested
    <3>1. applied \subseteq Attested
      BY <1>3, Zenon
    <3>2. attempts \in 1..MaxAttempts
      BY <1>3, ClientSets, Zenon
    <3> QED  BY <1>3, <3>1, <3>2
  <2>4. attested \in 0..SourceHead
    BY <1>2, Zenon
  <2>2. /\ at \in Awaits \cup {"off", "done"} /\ shown \in Stages \cup {"none"}
        /\ outcome \in Outcomes \cup {"none"} /\ own \in {"none", "pending", "ok", "reverted"}
    BY <1>3 DEF Stages, Awaits, Outcomes
  <2> QED  BY <1>1, <1>2, <2>1, <2>2, <2>3, <2>4, <2>5, Zenon DEF ClientTypeOK, Attested
<1> QED  BY <1>3, <1>4 DEF StageInv

LEMMA SdkStages ==
  ASSUME StageInv, ClientInv, SdkStep
  PROVE  StageInv' /\ Forward
<1> USE RanksGrow, ClientSets DEF StageInv, ClientTypeOK, Reads, Is, Goto, End, Fail, runVars,
        sourceVars, registryVars, Stages, Awaits, Outcomes, Forward, computeQueryId, webQueryId
<1>1. CASE Resolved
  BY <1>1 DEF Resolved
<1>2. CASE Unresolved
  BY <1>2 DEF Unresolved
<1>3. CASE HeightRead
  BY <1>3 DEF HeightRead
<1>4. CASE WaitedOnce
  BY <1>4 DEF WaitedOnce
<1>5. CASE WaitFails
  BY <1>5 DEF WaitFails
<1>6. CASE Deduped
  BY <1>6 DEF Deduped
<1>7. CASE ProofBuilt
  BY <1>7 DEF ProofBuilt
<1>8. CASE ProofRefused
  BY <1>8 DEF ProofRefused
<1>9. CASE SubmitThrows
  <2>1. \/ End("mirrored", "already-mirrored")
        \/ End("failed", "failed")
    BY <1>9 DEF SubmitThrows, Caught
  <2>2. /\ client = "sdk" /\ at \in {"submit", "receipt"}
        /\ UNCHANGED <<runVars, own, sourceVars, registryVars, query, target, attempts, stray,
                       queryId>>
        /\ own # "pending"
    BY <1>9 DEF SubmitThrows, ClientInv
  <2> QED  BY <2>1, <2>2
<1>10. CASE SubmitLost
  BY <1>10 DEF SubmitLost, ClientInv
<1>11. CASE Mirrored
  BY <1>11 DEF Mirrored
<1> QED
  BY <1>1, <1>2, <1>3, <1>4, <1>5, <1>6, <1>7, <1>8, <1>9, <1>10, <1>11 DEF SdkStep

LEMMA WebStages ==
  ASSUME StageInv, ClientInv, WebStep \/ RelayerSubmits \/ Submitted
  PROVE  StageInv' /\ Forward
<1> USE RanksGrow, ClientSets DEF StageInv, ClientTypeOK, Reads, Is, Goto, End, Fail, runVars,
        sourceVars, registryVars, Stages, Awaits, Outcomes, Forward, computeQueryId, webQueryId
<1>1. CASE WebResolved
  BY <1>1 DEF WebResolved
<1>2. CASE WebUnresolved
  BY <1>2 DEF WebUnresolved
<1>3. CASE WebHeightRead
  BY <1>3 DEF WebHeightRead
<1>4. CASE WebRejects
  BY <1>4 DEF WebRejects
<1>5. CASE WebProofBuilt
  BY <1>5 DEF WebProofBuilt
<1>6. CASE WebProofRefused
  BY <1>6 DEF WebProofRefused
<1>7. CASE RelayerAccepts
  BY <1>7 DEF RelayerAccepts
<1>8. CASE RelayerDeclines
  BY <1>8 DEF RelayerDeclines
<1>9. CASE RelayerUnreachable
  BY <1>9 DEF RelayerUnreachable
<1>10. CASE WebWaited
  BY <1>10 DEF WebWaited
<1>11. CASE WebMirrored
  BY <1>11 DEF WebMirrored
<1>12. CASE WebSubmitFails
  BY <1>12 DEF WebSubmitFails, ClientInv
<1>13. CASE RelayerSubmits
  BY <1>13 DEF RelayerSubmits, stepVars, ClientInv
<1>14. CASE Submitted
  BY <1>14 DEF Submitted
<1> QED
  BY <1>1, <1>2, <1>3, <1>4, <1>5, <1>6, <1>7, <1>8, <1>9, <1>10, <1>11, <1>12, <1>13, <1>14
  DEF WebStep

LEMMA ChainStages ==
  ASSUME StageInv, ClientInv, ChainStep
  PROVE  StageInv' /\ Forward
<1> USE RanksGrow, ClientSets DEF StageInv, runVars, stepVars,
        sourceVars, registryVars, Forward
<1>1. CASE Attest
  <2>1. /\ attested' \in 0..SourceHead /\ cached' \in 0..attested' /\ attested' = attested + 1
        /\ UNCHANGED <<client, signer, at, target, attempts, shown, outcome, query, queryId,
                       own, home, applied, tombstone, stray>>
    BY <1>1 DEF Attest, ClientTypeOK
  <2>2. applied' \subseteq {p \in Places : Block(p) <= attested}'
    <3>1. ASSUME NEW p \in applied
          PROVE  p \in Places /\ Block(p) <= attested'
      <4>1. p \in Places /\ Block(p) <= attested /\ attested \in Nat
        BY DEF ClientTypeOK
      <4>2. Block(p) \in Nat
        BY <4>1
      <4> QED  BY <2>1, <4>1, <4>2
    <3> QED  BY <2>1, <3>1
  <2>3. ClientTypeOK'
    BY <2>1, <2>2, Zenon DEF ClientTypeOK
  <2>4. Forward
    BY <2>1 DEF ClientTypeOK
  <2>5. Block(home) <= attested => Block(home) <= attested'
    BY <2>1 DEF ClientInv
  <2> QED  BY <2>1, <2>3, <2>4, <2>5
<1>2. CASE ProverCatchesUp
  BY <1>2 DEF ProverCatchesUp, ClientTypeOK, Blocks
<1>3. CASE Reorg
  <2>1. home' \in Places /\ attested < Block(home)
    BY <1>3 DEF Reorg
  <2> QED  BY <1>3, <2>1 DEF Reorg, ClientTypeOK, ClientInv
<1>4. ASSUME applied' \subseteq Attested', tombstone' \in BOOLEAN, stray' \in 0..stray,
             own' \in {"none", "ok", "reverted"} \/ own' = own,
             UNCHANGED <<runVars, stepVars, sourceVars>>
      PROVE  StageInv' /\ Forward
  <2>1. stray' \in 0..2 /\ stray' <= stray /\ stray \in Nat /\ attested' = attested
    BY <1>4 DEF ClientTypeOK, Attested
  <2>2. ClientTypeOK'
    <3>1. applied' \subseteq {p \in Places : Block(p) <= attested}'
      BY <1>4 DEF Attested
    <3>2. own' \in {"none", "pending", "ok", "reverted"}
      BY <1>4 DEF ClientTypeOK
    <3> QED  BY <1>4, <2>1, <3>1, <3>2, Zenon DEF ClientTypeOK
  <2>3. Forward
    BY <1>4 DEF ClientTypeOK, Attested
  <2>4. own' = "pending" => own = "pending"
    BY <1>4
  <2> HIDE DEF Forward
  <2> QED  BY <1>4, <2>1, <2>2, <2>3, <2>4
<1>10. Attested' = Attested \/ attested' # attested
  BY DEF Attested
<1>5. applied \subseteq Attested /\ tombstone \in BOOLEAN /\ stray \in 0..stray /\ stray - 1 \in Int
  BY DEF ClientTypeOK, Attested
<1>6. CASE OthersSubmit
  <2>1. applied' \subseteq Attested' /\ tombstone' \in BOOLEAN
    <3>1. /\ attested' = attested
          /\ applied' = applied \/ \E p \in {home, target} :
               Block(p) \in 1..attested /\ applied' = applied \cup {p}
      BY <1>6 DEF OthersSubmit
    <3>2. \A p \in {home, target} : Block(p) \in 1..attested => p \in Attested
      BY DEF Attested, ClientTypeOK, NowhereYet, Block
    <3>3. tombstone' \in BOOLEAN
      BY <1>5, <1>6 DEF OthersSubmit
    <3> QED  BY <1>5, <1>10, <3>1, <3>2, <3>3
  <2> QED  BY <1>4, <1>5, <1>6, <2>1 DEF OthersSubmit
<1>7. (own = "pending" \/ stray > 0) => query \in Attested
  BY DEF ClientInv, ClientTypeOK, Attested
<1>8. CASE ExecuteOwn
  <2>1. applied' \subseteq Attested'
    BY <1>5, <1>7, <1>8, <1>10 DEF ExecuteOwn
  <2>2. own' \in {"none", "ok", "reverted"}
    BY <1>8 DEF ExecuteOwn
  <2> QED  BY <1>4, <1>5, <1>8, <2>1, <2>2 DEF ExecuteOwn
<1>9. CASE ExecuteStray
  <2>1. applied' \subseteq Attested'
    BY <1>5, <1>7, <1>9, <1>10 DEF ExecuteStray
  <2>2. stray' \in 0..stray
    BY <1>5, <1>9 DEF ExecuteStray, ClientTypeOK
  <2> QED  BY <1>4, <1>5, <1>9, <2>1, <2>2 DEF ExecuteStray
<1> QED  BY <1>1, <1>2, <1>3, <1>6, <1>8, <1>9 DEF ChainStep

LEMMA StageKeeps ==
  ASSUME StageInv, ClientInv, [ClientNext]_clientVars
  PROVE  StageInv' /\ Forward
<1>1. CASE UNCHANGED clientVars
  BY <1>1, RanksGrow DEF StageInv, ClientTypeOK, clientVars, runVars, stepVars, sourceVars,
              registryVars, Forward
<1>2. CASE ClientNext
  BY <1>2, SdkStages, WebStages, ChainStages DEF ClientNext, ClientStep
<1> QED  BY <1>1, <1>2

-----------------------------------------------------------------------------
(* A verification *)

\* What has been read is what there was: a revocation that is read stays, and one that
\* was there from the start is read; and nothing has changed since, while it is quiet.
VerifyInv ==
  /\ now \in 1..Times
  /\ record \in Records /\ record.exists = (record.mirrored \/ record.revokedAt # 0)
  /\ stale => revokedAt # 0
  /\ easSeen.is \in {"unread", "error", "absent", "read"}
  /\ recordSeen.is \in {"unread", "error", "read"}
  /\ easSeen.is = "read" /\ stale => easSeen.revokedAt # 0
  /\ recordSeen.is = "read" /\ recordSeen.record.revokedAt # 0 => record.revokedAt # 0
  /\ quiet => /\ easSeen.is = "absent" => ~onSource
              /\ easSeen.is = "read" => onSource /\ easSeen.revokedAt = revokedAt
              /\ recordSeen.is = "read" => recordSeen.record = record

Judged ==
  /\ verdict # "none" => Read
  /\ verdict = "PASS" => Found /\ Matches(recordSeen.record, easSeen.revokedAt)
  /\ verdict = "FAIL" => ~(Found /\ Matches(recordSeen.record, easSeen.revokedAt))

LEMMA VerifyStarts ==
  ASSUME VerifyInit \/ VerifyOff
  PROVE  VerifyInv /\ Judged
<1>1. \E who \in {"sdk", "web", "off"} : VerifyStart(who)
  BY DEF VerifyInit, VerifyOff
<1>2. record \in Records /\ record.exists = (record.mirrored \/ record.revokedAt # 0)
  <2>1. CASE VerifyInit
    BY <2>1 DEF VerifyInit, Follows
  <2>2. CASE VerifyOff
    <3>1. NoRecord \in Records
      BY TimesAssumption DEF NoRecord, Records
    <3>2. NoRecord.exists = (NoRecord.mirrored \/ NoRecord.revokedAt # 0)
      BY DEF NoRecord
    <3> QED  BY <2>2, <3>1, <3>2 DEF VerifyOff
  <2> QED  BY <2>1, <2>2
<1>3. now \in 1..Times
  <2>1. VerifyInit => now \in 1..Times
    BY DEF VerifyInit
  <2>2. VerifyOff => now = 1
    BY DEF VerifyOff
  <2> QED  BY <2>1, <2>2, TimesAssumption
<1>4. /\ verdict = "none" /\ easSeen = [is |-> "unread"] /\ recordSeen = [is |-> "unread"]
      /\ stale => revokedAt # 0
  BY <1>1 DEF VerifyStart
<1>5. easSeen.is = "unread" /\ recordSeen.is = "unread"
  BY <1>4
<1>6. Judged
  BY <1>4 DEF Judged
<1>7. VerifyInv
  BY <1>2, <1>3, <1>4, <1>5 DEF VerifyInv
<1> QED  BY <1>6, <1>7

LEMMA VerifyKeeps ==
  ASSUME VerifyInv, Judged, [VerifyNext]_verifyVars
  PROVE  (VerifyInv /\ Judged)'
<1>1. CASE EasRead
  BY <1>1 DEF EasRead, Reading, VerifyInv, Judged, worldVars
<1>2. CASE RegistryRead
  BY <1>2 DEF RegistryRead, Reading, VerifyInv, Judged, worldVars
<1>3. CASE Judge
  BY <1>3 DEF Judge, Reading, Read, Found, Matches, VerifyInv, Judged, worldVars
<1>4. CASE AttestedOnSource
  BY <1>4, TimesAssumption DEF AttestedOnSource, Reading, Passes, VerifyInv, Judged
<1>5. CASE RevokedOnSource
  BY <1>5, TimesAssumption DEF RevokedOnSource, Reading, Passes, VerifyInv, Judged
<1>6. CASE RegistryChanges
  <2>1. now' \in 1..Times
    <3>1. now \in 1..Times
      BY DEF VerifyInv
    <3>2. now' \in now..Times
      BY <1>6 DEF RegistryChanges, Passes
    <3> QED  BY <3>1, <3>2, TimesAssumption
  <2>2. \/ \E same \in BOOLEAN :
            record' = [record EXCEPT !.exists = TRUE, !.mirrored = TRUE, !.sameTx = same]
        \/ record' = [record EXCEPT !.exists = TRUE, !.revokedAt = now']
    BY <1>6 DEF RegistryChanges
  <2>3. record \in Records
    BY DEF VerifyInv
  <2>4. record' \in Records
    <3>1. now' \in 0..Times
      BY <2>1, TimesAssumption
    <3>2. ASSUME NEW same \in BOOLEAN
          PROVE  [record EXCEPT !.exists = TRUE, !.mirrored = TRUE, !.sameTx = same] \in Records
      BY <2>3 DEF Records
    <3>3. [record EXCEPT !.exists = TRUE, !.revokedAt = now'] \in Records
      BY <2>3, <3>1 DEF Records
    <3> QED  BY <2>2, <3>2, <3>3
  <2>5. /\ record'.exists = (record'.mirrored \/ record'.revokedAt # 0)
        /\ record.revokedAt # 0 => record'.revokedAt # 0
    <3>1. CASE \E same \in BOOLEAN :
            record' = [record EXCEPT !.exists = TRUE, !.mirrored = TRUE, !.sameTx = same]
      <4>1. record'.exists = TRUE /\ record'.mirrored = TRUE
               /\ record'.revokedAt = record.revokedAt
        BY <2>3, <3>1 DEF Records
      <4> QED  BY <4>1
    <3>2. CASE record' = [record EXCEPT !.exists = TRUE, !.revokedAt = now']
      <4>1. record'.exists = TRUE /\ record'.revokedAt = now' /\ now' # 0
        BY <2>1, <2>3, <3>2 DEF Records
      <4> QED  BY <4>1
    <3> QED  BY <2>2, <3>1, <3>2
  <2>6. /\ quiet' = FALSE /\ verdict = "none"
        /\ UNCHANGED <<verifier, onSource, revokedAt, easSeen, recordSeen, verdict, stale>>
    BY <1>6 DEF RegistryChanges, Reading
  <2> QED  BY <2>1, <2>4, <2>5, <2>6 DEF VerifyInv, Judged
<1>7. CASE UNCHANGED verifyVars
  BY <1>7 DEF verifyVars, worldVars, VerifyInv, Judged, Read, Found, Matches
<1> QED
  BY <1>1, <1>2, <1>3, <1>4, <1>5, <1>6, <1>7 DEF VerifyNext, VerifyStep

LEMMA VerdictFollows ==
  ASSUME VerifyInv, Judged
  PROVE  VerdictIsSound
<1>1. stale /\ record.revokedAt = 0 => verdict # "PASS"
  BY DEF VerifyInv, Judged, Found, Matches
<1>2. stale => ~isAdmissible
  BY DEF VerifyInv, Judged, Found, Matches, isAdmissible
<1>3. ASSUME quiet, easSeen.is # "error", recordSeen.is # "error"
      PROVE  /\ verdict = "PASS" => Agree
             /\ verdict = "FAIL" => ~Agree \/ (verifier = "sdk" /\ revokedAt # 0)
  <2>1. verdict = "PASS" => Agree
    BY <1>3 DEF VerifyInv, Judged, Read, Found, Matches, Agree
  <2>2. verdict = "FAIL" => ~Agree \/ (verifier = "sdk" /\ revokedAt # 0)
    BY <1>3 DEF VerifyInv, Judged, Read, Found, Matches, Agree
  <2> QED  BY <2>1, <2>2
<1> QED  BY <1>1, <1>2, <1>3 DEF VerdictIsSound

-----------------------------------------------------------------------------
(* The values of a verification and of the page of the mirror log *)

LEMMA VerifyTypesStart ==
  ASSUME VerifyInit \/ VerifyOff
  PROVE  VerifyTypeOK
<1>1. VerifyInv /\ Judged
  BY VerifyStarts
<1>2. onSource \in BOOLEAN /\ revokedAt \in 0..now
  <2>1. 0 \in 0..now
    BY <1>1, TimesAssumption DEF VerifyInv
  <2>2. CASE VerifyOff
    BY <2>1, <2>2 DEF VerifyOff
  <2>3. CASE VerifyInit
    <3>1. onSource \in BOOLEAN /\ revokedAt \in IF onSource THEN 0..now ELSE {0}
      BY <2>3 DEF VerifyInit
    <3>2. CASE onSource
      BY <3>1, <3>2
    <3>3. CASE ~onSource
      BY <2>1, <3>1, <3>3
    <3> QED  BY <3>1, <3>2, <3>3
  <2> QED  BY <2>2, <2>3
<1>3. PICK who \in {"sdk", "web", "off"} : VerifyStart(who)
  BY DEF VerifyInit, VerifyOff
<1>4. /\ verifier = who /\ verdict = "none"
      /\ easSeen = [is |-> "unread"] /\ recordSeen = [is |-> "unread"]
  BY <1>3 DEF VerifyStart
<1>5. easSeen.is = "unread" /\ recordSeen.is = "unread"
  BY <1>4
<1> QED  BY <1>1, <1>2, <1>4, <1>5 DEF VerifyTypeOK, VerifyInv

LEMMA VerifyTypesKept ==
  ASSUME VerifyTypeOK, VerifyInv, VerifyInv', [VerifyNext]_verifyVars
  PROVE  VerifyTypeOK'
<1>1. CASE EasRead
  BY <1>1, TimesAssumption DEF EasRead, VerifyTypeOK, worldVars
<1>2. CASE RegistryRead
  BY <1>2 DEF RegistryRead, VerifyTypeOK, worldVars
<1>3. CASE Judge
  BY <1>3 DEF Judge, VerifyTypeOK, worldVars
<1>4. CASE AttestedOnSource
  BY <1>4, TimesAssumption DEF AttestedOnSource, Passes, VerifyTypeOK, VerifyInv
<1>5. CASE RevokedOnSource
  BY <1>5, TimesAssumption DEF RevokedOnSource, Passes, VerifyTypeOK, VerifyInv
<1>6. CASE RegistryChanges
  <2>1. /\ now' \in now..Times
        /\ UNCHANGED <<verifier, onSource, revokedAt, easSeen, recordSeen, verdict, stale>>
    BY <1>6 DEF RegistryChanges, Passes
  <2> QED  BY <2>1, TimesAssumption DEF VerifyTypeOK, VerifyInv
<1>7. CASE UNCHANGED verifyVars
  BY <1>7 DEF verifyVars, worldVars, VerifyTypeOK
<1> QED
  BY <1>1, <1>2, <1>3, <1>4, <1>5, <1>6, <1>7 DEF VerifyNext, VerifyStep

LEMMA ReceiptsTypesStart ==
  ASSUME ReceiptsInit \/ ReceiptsOff
  PROVE  ReceiptsTypeOK
BY NothingAssumption DEF ReceiptsInit, ReceiptsOff, ReceiptsTypeOK

LEMMA ReceiptsTypesKept ==
  ASSUME ReceiptsTypeOK, [ReceiptsNext]_receiptsVars
  PROVE  ReceiptsTypeOK'
BY DEF ReceiptsNext, Want, Fetched, FetchedNothing, Poll, Answer, receiptsVars, ReceiptsTypeOK

-----------------------------------------------------------------------------
(* The batches of a schema *)

\* The plan so far is packed and lies before what is still to be packed.
PlanInv ==
  /\ BatchTypeOK
  /\ step \in {"off", "plan"} => batches = <<>>
  /\ step = "pack" =>
       \A i \in 1..Len(batches) : \A k \in 1..Len(batches[i]), u \in unpacked : batches[i][k] < u
  /\ BatchesArePacked

\* Of the batch in hand, the transactions whose proofs are not waiting any more are on
\* chain, and the receipt that is awaited is that of the first one that waits.
TallyInv ==
  /\ step \in {"wait", "prove", "submit", "receipt"} => left # <<>>
  /\ step \in {"submit", "receipt"} =>
       /\ mode # "none"
       /\ proofs \subseteq bundle /\ bundle \subseteq ToSet(Head(left))
       /\ bundle \ proofs \subseteq onChain
  /\ step = "receipt" => mode = "signer" /\ proofs # {} /\ inFlight # "none"
  /\ inFlight # "none" => step = "receipt"
  /\ inFlight = "ok" => Earliest(proofs) \in onChain
  /\ CountedIsMirrored

LEMMA EarliestIs ==
  ASSUME NEW S, S \subseteq Txs, S # {}
  PROVE  Earliest(S) \in S /\ \A u \in S : Earliest(S) <= u
<1>1. \E t \in S : \A u \in S : t <= u
  BY LeastNat, BatchAssumption
<1> QED  BY <1>1 DEF Earliest

\* A transaction begins a batch of its own or becomes the last of the last one.
LEMMA PackedIs ==
  ASSUME batches \in Seq(Seq(Txs)), NEW t \in Txs
  PROVE  /\ Packed(t) \in Seq(Seq(Txs))
         /\ \/ /\ batches = <<>> \/ Full(Last(batches), t)
               /\ Len(Packed(t)) = Len(batches) + 1
               /\ \A i \in 1..Len(batches) : Packed(t)[i] = batches[i]
               /\ Packed(t)[Len(batches) + 1] = <<t>>
            \/ /\ batches # <<>> /\ ~Full(Last(batches), t)
               /\ Len(Packed(t)) = Len(batches)
               /\ \A i \in 1..(Len(batches) - 1) : Packed(t)[i] = batches[i]
               /\ Packed(t)[Len(batches)] = Append(batches[Len(batches)], t)
<1>1. CASE batches = <<>> \/ Full(Last(batches), t)
  <2>1. Packed(t) = Append(batches, <<t>>)
    BY <1>1 DEF Packed
  <2>2. <<t>> \in Seq(Txs)
    OBVIOUS
  <2> QED  BY <1>1, <2>1, <2>2
<1>2. CASE batches # <<>> /\ ~Full(Last(batches), t)
  <2> DEFINE n == Len(batches)
             longer == Append(batches[n], t)
  <2>1. Packed(t) = [batches EXCEPT ![n] = longer]
    BY <1>2 DEF Packed
  <2>2. n \in Nat /\ n >= 1 /\ batches[n] \in Seq(Txs)
    BY <1>2
  <2>3. longer \in Seq(Txs)
    BY <2>2
  <2> HIDE DEF longer
  <2>4. [batches EXCEPT ![n] = longer] \in Seq(Seq(Txs))
    BY <2>2, <2>3
  <2>5. /\ Len([batches EXCEPT ![n] = longer]) = n
        /\ \A i \in 1..(n - 1) : [batches EXCEPT ![n] = longer][i] = batches[i]
        /\ [batches EXCEPT ![n] = longer][n] = longer
    BY <2>2, <2>3
  <2> QED  BY <1>2, <2>1, <2>4, <2>5 DEF longer
<1> QED  BY <1>1, <1>2


LEMMA PlanKeeps ==
  ASSUME PlanInv, planBatches, unpacked # {}
  PROVE  /\ batches' \in Seq(Seq(Txs)) /\ BatchesArePacked'
         /\ \A i \in 1..Len(batches') : \A k \in 1..Len(batches'[i]), u \in unpacked' :
              batches'[i][k] < u
<1> DEFINE t == Earliest(unpacked)
           n == Len(batches)
<1>1. /\ batches' = Packed(t) /\ unpacked' = unpacked \ {t}
      /\ step = "pack" /\ UNCHANGED blockOf
  BY DEF planBatches
<1>2. unpacked \subseteq Txs /\ batches \in Seq(Seq(Txs)) /\ blockOf \in [Txs -> 1..Span]
  BY DEF PlanInv, BatchTypeOK
<1>3. t \in unpacked /\ t \in Txs /\ t \in Nat /\ \A u \in unpacked' : t < u /\ u \in Nat
  <2>1. t \in unpacked /\ \A u \in unpacked : t <= u
    BY <1>2, EarliestIs
  <2>2. \A u \in unpacked : u \in Nat
    BY <1>2, BatchAssumption
  <2> HIDE DEF t
  <2> QED  BY <1>1, <1>2, <2>1, <2>2
<1> HIDE DEF t
<1>4. \A i \in 1..n : \A k \in 1..Len(batches[i]) :
        /\ batches[i][k] \in Txs /\ batches[i][k] \in Nat /\ batches[i][k] < t
        /\ \A u \in unpacked' : batches[i][k] < u
  <2>1. \A i \in 1..n : \A k \in 1..Len(batches[i]) : batches[i][k] \in Txs
    <3>1. \A i \in 1..n : batches[i] \in Seq(Txs)
      BY <1>2
    <3> QED  BY <3>1
  <2>2. \A i \in 1..n : \A k \in 1..Len(batches[i]), u \in unpacked : batches[i][k] < u
    BY <1>1 DEF PlanInv
  <2>3. Txs \subseteq Nat /\ unpacked' \subseteq unpacked
    BY <1>1, BatchAssumption
  <2> HIDE DEF n
  <2> QED  BY <1>3, <2>1, <2>2, <2>3
<1>5. n \in Nat /\ \A i \in 1..n : batches[i] \in Seq(Txs) /\ Len(batches[i]) \in 1..MAX_TXS_PER_BATCH
  BY <1>2 DEF PlanInv, BatchesArePacked
<1>6. MAX_TXS_PER_BATCH \in Nat \ {0} /\ MAX_BLOCK_SPAN \in Nat /\ Span \in Nat
  BY BatchAssumption
<1>7. batches' \in Seq(Seq(Txs))
  BY <1>1, <1>2, <1>3, PackedIs
<1>8. CASE batches = <<>> \/ Full(Last(batches), t)
  <2>1. /\ Len(batches') = n + 1 /\ batches'[n + 1] = <<t>>
        /\ \A i \in 1..n : batches'[i] = batches[i]
    BY <1>1, <1>2, <1>3, <1>8, PackedIs
  <2>2. \A i \in 1..n + 1 : i \in 1..n \/ i = n + 1
    BY <1>5
  <2>3. Len(<<t>>) = 1 /\ Head(<<t>>) = t /\ Last(<<t>>) = t /\ \A k \in 1..1 : <<t>>[k] = t
    BY DEF Last
  <2>4. \A i \in 1..Len(batches') : \A k \in 1..Len(batches'[i]), u \in unpacked' :
          batches'[i][k] < u
    BY <1>3, <1>4, <2>1, <2>2, <2>3
  <2>5. \A i \in 1..Len(batches') - 1 :
          \/ Len(batches'[i]) = MAX_TXS_PER_BATCH
          \/ blockOf[Head(batches'[i + 1])] - blockOf[Head(batches'[i])] > MAX_BLOCK_SPAN
    <3>1. ASSUME NEW i \in 1..n - 1
          PROVE  \/ Len(batches'[i]) = MAX_TXS_PER_BATCH
                 \/ blockOf[Head(batches'[i + 1])] - blockOf[Head(batches'[i])] > MAX_BLOCK_SPAN
      <4>1. i \in 1..n /\ i + 1 \in 1..n
        BY <1>5
      <4> QED  BY <2>1, <4>1 DEF PlanInv, BatchesArePacked
    <3>2. ASSUME n >= 1
          PROVE  \/ Len(batches'[n]) = MAX_TXS_PER_BATCH
                 \/ blockOf[Head(batches'[n + 1])] - blockOf[Head(batches'[n])] > MAX_BLOCK_SPAN
      <4>1. n \in 1..n /\ batches # <<>> /\ Last(batches) = batches[n]
        BY <1>5, <3>2 DEF Last
      <4>2. \/ Len(batches[n]) >= MAX_TXS_PER_BATCH
            \/ blockOf[t] - blockOf[Head(batches[n])] > MAX_BLOCK_SPAN
        BY <1>8, <4>1 DEF Full
      <4>3. Len(batches[n]) \in 1..MAX_TXS_PER_BATCH
        BY <1>5, <4>1
      <4> QED  BY <1>6, <2>1, <2>3, <4>1, <4>2, <4>3
    <3> QED  BY <1>5, <2>1, <3>1, <3>2
  <2>6. \A i \in 1..Len(batches') :
          /\ Len(batches'[i]) \in 1..MAX_TXS_PER_BATCH
          /\ blockOf[Last(batches'[i])] - blockOf[Head(batches'[i])] <= MAX_BLOCK_SPAN
    <3>1. blockOf[t] - blockOf[t] <= MAX_BLOCK_SPAN
      BY <1>2, <1>3, <1>6
    <3>2. \A i \in 1..n : blockOf[Last(batches[i])] - blockOf[Head(batches[i])] <= MAX_BLOCK_SPAN
      BY DEF PlanInv, BatchesArePacked
    <3>3. \A i \in 1..n : Len(batches'[i]) \in 1..MAX_TXS_PER_BATCH
      BY <1>5, <2>1
    <3>4. Len(batches'[n + 1]) \in 1..MAX_TXS_PER_BATCH
      BY <1>6, <2>1, <2>3
    <3> QED  BY <2>1, <2>2, <2>3, <3>1, <3>2, <3>3, <3>4
  <2>7. \A i, j \in 1..Len(batches') :
          \A k \in 1..Len(batches'[i]), m \in 1..Len(batches'[j]) :
            (i < j \/ (i = j /\ k < m)) => batches'[i][k] < batches'[j][m]
    <3> SUFFICES ASSUME NEW i \in 1..n + 1, NEW j \in 1..n + 1,
                        NEW k \in 1..Len(batches'[i]), NEW m \in 1..Len(batches'[j]),
                        i < j \/ (i = j /\ k < m)
                 PROVE  batches'[i][k] < batches'[j][m]
      BY <2>1
    <3>1. CASE i \in 1..n /\ j \in 1..n
      <4>1. batches[i][k] < batches[j][m]
        BY <2>1, <3>1 DEF PlanInv, BatchesArePacked
      <4> QED  BY <2>1, <3>1, <4>1
    <3>2. CASE i \in 1..n /\ j = n + 1
      <4>1. batches[i][k] < t
        BY <1>4, <2>1, <3>2
      <4> QED  BY <2>1, <2>3, <3>2, <4>1
    <3>3. CASE i = n + 1
      <4>1. j = n + 1 /\ k = 1 /\ m = 1
        BY <1>5, <2>1, <2>3, <3>3
      <4> QED  BY <1>5, <3>3, <4>1
    <3> QED  BY <2>2, <3>1, <3>2, <3>3
  <2> QED  BY <1>1, <1>7, <2>4, <2>5, <2>6, <2>7 DEF BatchesArePacked
<1>9. CASE batches # <<>> /\ ~Full(Last(batches), t)
  <2> DEFINE b == batches[n]
  <2>1. /\ Len(batches') = n /\ batches'[n] = Append(b, t)
        /\ \A i \in 1..(n - 1) : batches'[i] = batches[i]
    BY <1>1, <1>2, <1>3, <1>9, PackedIs
  <2>2. n >= 1 /\ n \in 1..n /\ b \in Seq(Txs) /\ Len(b) \in Nat \ {0} /\ Last(batches) = b
    BY <1>5, <1>9 DEF Last
  <2>3. Len(b) < MAX_TXS_PER_BATCH /\ blockOf[t] - blockOf[Head(b)] <= MAX_BLOCK_SPAN
    <3>1. Head(b) \in Txs
      BY <2>2
    <3> HIDE DEF b
    <3>2. blockOf[Head(b)] \in Int /\ blockOf[t] \in Int
      <4>1. \A x \in Txs : blockOf[x] \in Int
        BY <1>2, <1>6
      <4> QED  BY <1>3, <3>1, <4>1
    <3> QED  BY <1>6, <1>9, <2>2, <3>2 DEF Full
  <2>4. /\ Len(batches'[n]) = Len(b) + 1 /\ Head(batches'[n]) = Head(b)
        /\ Last(batches'[n]) = t /\ batches'[n][Len(b) + 1] = t
        /\ \A k \in 1..Len(b) : batches'[n][k] = b[k]
    <3> HIDE DEF b
    <3>1. Head(Append(b, t)) = b[1] /\ Head(b) = b[1]
      BY <1>3, <2>2
    <3> QED  BY <1>3, <2>1, <2>2, <3>1 DEF Last
  <2>5. \A i \in 1..n : i \in 1..(n - 1) \/ i = n
    BY <1>5
  <2>6. \A k \in 1..Len(batches'[n]) : k \in 1..Len(b) \/ k = Len(b) + 1
    BY <2>2, <2>4
  <2>7. \A i \in 1..(n - 1) : i \in 1..n /\ i + 1 \in 1..n
    BY <1>5
  <2>8. \A k \in 1..Len(b) : b[k] < t /\ \A u \in unpacked' : b[k] < u
    BY <1>4, <2>2
  <2> HIDE DEF b
  <2>9. \A i \in 1..Len(batches') : \A k \in 1..Len(batches'[i]), u \in unpacked' :
          batches'[i][k] < u
    <3>1. ASSUME NEW k \in 1..Len(batches'[n]), NEW u \in unpacked'
          PROVE  batches'[n][k] < u
      BY <1>3, <2>4, <2>6, <2>8
    <3>2. ASSUME NEW i \in 1..(n - 1), NEW k \in 1..Len(batches'[i]), NEW u \in unpacked'
          PROVE  batches'[i][k] < u
      BY <1>4, <2>1, <2>7
    <3> QED  BY <2>1, <2>5, <3>1, <3>2
  <2>10. \A i \in 1..Len(batches') - 1 :
           \/ Len(batches'[i]) = MAX_TXS_PER_BATCH
           \/ blockOf[Head(batches'[i + 1])] - blockOf[Head(batches'[i])] > MAX_BLOCK_SPAN
    <3> SUFFICES ASSUME NEW i \in 1..(n - 1)
                 PROVE  \/ Len(batches'[i]) = MAX_TXS_PER_BATCH
                        \/ blockOf[Head(batches'[i + 1])] - blockOf[Head(batches'[i])] > MAX_BLOCK_SPAN
      BY <2>1
    <3>1. \/ Len(batches[i]) = MAX_TXS_PER_BATCH
          \/ blockOf[Head(batches[i + 1])] - blockOf[Head(batches[i])] > MAX_BLOCK_SPAN
      BY DEF PlanInv, BatchesArePacked
    <3>2. batches'[i] = batches[i]
      BY <2>1
    <3>3. Head(batches'[i + 1]) = Head(batches[i + 1])
      BY <2>1, <2>4, <2>5, <2>7 DEF b
    <3> QED  BY <3>1, <3>2, <3>3
  <2>11. \A i \in 1..Len(batches') :
           /\ Len(batches'[i]) \in 1..MAX_TXS_PER_BATCH
           /\ blockOf[Last(batches'[i])] - blockOf[Head(batches'[i])] <= MAX_BLOCK_SPAN
    <3>1. /\ Len(batches'[n]) \in 1..MAX_TXS_PER_BATCH
          /\ blockOf[Last(batches'[n])] - blockOf[Head(batches'[n])] <= MAX_BLOCK_SPAN
      <4>1. Len(b) + 1 \in 1..MAX_TXS_PER_BATCH
        BY <1>6, <2>2, <2>3
      <4> QED  BY <2>3, <2>4, <4>1
    <3>2. \A i \in 1..(n - 1) :
            /\ Len(batches[i]) \in 1..MAX_TXS_PER_BATCH
            /\ blockOf[Last(batches[i])] - blockOf[Head(batches[i])] <= MAX_BLOCK_SPAN
      BY <2>7 DEF PlanInv, BatchesArePacked
    <3> QED  BY <2>1, <2>5, <3>1, <3>2
  <2>12. \A i, j \in 1..Len(batches') :
           \A k \in 1..Len(batches'[i]), m \in 1..Len(batches'[j]) :
             (i < j \/ (i = j /\ k < m)) => batches'[i][k] < batches'[j][m]
    <3> SUFFICES ASSUME NEW i \in 1..n, NEW j \in 1..n,
                        NEW k \in 1..Len(batches'[i]), NEW m \in 1..Len(batches'[j]),
                        i < j \/ (i = j /\ k < m)
                 PROVE  batches'[i][k] < batches'[j][m]
      BY <2>1
    <3>1. i # n => batches'[i] = batches[i] /\ i \in 1..(n - 1)
      BY <2>1, <2>5
    <3>2. CASE j = n /\ m = Len(b) + 1
      <4>1. k \in 1..Len(batches[i])
        BY <2>4, <2>6, <3>1, <3>2 DEF b
      <4>2. batches'[i][k] = batches[i][k]
        BY <2>4, <3>1, <4>1 DEF b
      <4> QED  BY <1>4, <2>4, <3>2, <4>1, <4>2
    <3>3. CASE ~(j = n /\ m = Len(b) + 1)
      <4>1. m \in 1..Len(batches[j]) /\ batches'[j][m] = batches[j][m]
        <5>1. CASE j = n
          BY <2>4, <2>6, <3>3, <5>1 DEF b
        <5>2. CASE j # n
          BY <2>1, <2>5, <5>2
        <5> QED  BY <5>1, <5>2
      <4>2. k \in 1..Len(batches[i]) /\ batches'[i][k] = batches[i][k]
        <5>1. CASE i = n
          <6>1. j = n /\ k < m
            BY <5>1, <1>5
          <6>2. m \in 1..Len(b) /\ k \in 1..(Len(b) + 1)
            BY <2>4, <3>3, <4>1, <5>1, <6>1 DEF b
          <6>3. k \in 1..Len(b)
            BY <2>2, <6>1, <6>2
          <6> QED  BY <2>4, <5>1, <6>3 DEF b
        <5>2. CASE i # n
          BY <3>1, <5>2
        <5> QED  BY <5>1, <5>2
      <4>3. batches[i][k] < batches[j][m]
        BY <4>1, <4>2 DEF PlanInv, BatchesArePacked
      <4> QED  BY <4>1, <4>2, <4>3
    <3> QED  BY <3>2, <3>3
  <2> QED  BY <1>1, <1>7, <2>9, <2>10, <2>11, <2>12 DEF BatchesArePacked
<1> QED  BY <1>8, <1>9

-----------------------------------------------------------------------------

LEMMA PlanKept ==
  ASSUME PlanInv, TallyInv, [BatchNext]_batchVars
  PROVE  PlanInv'
<1>1. ASSUME BatchTypeOK', UNCHANGED <<blockOf, batches>>,
             step' \in {"off", "plan"} => step \in {"off", "plan"}, step' # "pack"
      PROVE  PlanInv'
  BY <1>1 DEF PlanInv, BatchesArePacked
<1>2. CASE planBatches
  <2>1. CASE unpacked = {}
    BY <1>2, <2>1 DEF planBatches, PlanInv, BatchTypeOK, BatchesArePacked, tallyVars
  <2>2. CASE unpacked # {}
    <3>1. /\ batches' \in Seq(Seq(Txs)) /\ BatchesArePacked'
          /\ \A i \in 1..Len(batches') : \A k \in 1..Len(batches'[i]), u \in unpacked' :
               batches'[i][k] < u
      BY <1>2, <2>2, PlanKeeps
    <3>2. step' = "pack" /\ BatchTypeOK'
      BY <1>2, <2>2, <3>1 DEF planBatches, PlanInv, BatchTypeOK, tallyVars
    <3> QED  BY <3>1, <3>2 DEF PlanInv
  <2> QED  BY <2>1, <2>2
<1>3. CASE Located
  <2>1. batches = <<>> /\ batches' = <<>> /\ UNCHANGED blockOf
    BY <1>3 DEF Located, PlanInv
  <2>2. BatchTypeOK'
    BY <1>3 DEF Located, PlanInv, BatchTypeOK, tallyVars
  <2> QED  BY <1>3, <2>1, <2>2 DEF Located, PlanInv, BatchesArePacked
<1>4. CASE UNCHANGED batchVars
  BY <1>4 DEF batchVars, planVars, tallyVars, PlanInv, BatchTypeOK, BatchesArePacked, Full
<1>5. CASE OthersApply
  <2>1. BatchTypeOK'
    BY <1>5 DEF OthersApply, planVars, tallyVars, PlanInv, BatchTypeOK
  <2>2. UNCHANGED <<step, blockOf, unpacked, batches>>
    BY <1>5 DEF OthersApply, planVars
  <2>3. BatchesArePacked'
    BY <2>2 DEF PlanInv, BatchesArePacked
  <2> QED  BY <2>1, <2>2, <2>3 DEF PlanInv
<1>6. CASE Included
  <2>1. step = "receipt" /\ Earliest(proofs) \in Txs
    BY <1>6, EarliestIs DEF Included, PlanInv, BatchTypeOK, TallyInv
  <2>2. BatchTypeOK'
    BY <1>6, <2>1 DEF Included, planVars, tallyVars, PlanInv, BatchTypeOK
  <2> QED  BY <1>1, <1>6, <2>1, <2>2 DEF Included, planVars
<1>7. CASE Leave
  <2>1. BatchTypeOK'
    BY <1>7 DEF Leave, planVars, tallyVars, PlanInv, BatchTypeOK
  <2> QED  BY <1>1, <1>7, <2>1 DEF Leave, planVars
<1>8. CASE HeightGrows
  <2>1. BatchTypeOK'
    BY <1>8, BatchAssumption DEF HeightGrows, planVars, tallyVars, PlanInv, BatchTypeOK
  <2> QED  BY <1>1, <1>8, <2>1 DEF HeightGrows, planVars
<1>9. CASE PlanFails \/ ModeChosen \/ NextBatch \/ NewestAttested
  <2>1. BatchTypeOK'
    BY <1>9 DEF PlanFails, ModeChosen, NextBatch, NewestAttested, planVars, tallyVars,
                PlanInv, BatchTypeOK
  <2> QED  BY <1>1, <1>9, <2>1 DEF PlanFails, ModeChosen, NextBatch, NewestAttested, planVars
<1>10. ASSUME left # <<>> PROVE Tail(left) \in Seq(Seq(Txs)) /\ ToSet(Head(left)) \subseteq Txs
  <2>1. left \in Seq(Seq(Txs))
    BY DEF PlanInv, BatchTypeOK
  <2>2. Head(left) \in Seq(Txs) /\ Tail(left) \in Seq(Seq(Txs))
    BY <1>10, <2>1
  <2> QED  BY <2>2, ToSetIn
<1>11. CASE WaitBreaks \/ ProofFails
  <2>1. left # <<>>
    BY <1>11 DEF WaitBreaks, ProofFails, TallyInv
  <2>2. BatchTypeOK'
    BY <1>10, <1>11, <2>1 DEF WaitBreaks, ProofFails, Close, planVars, tallyVars, PlanInv, BatchTypeOK
  <2> QED  BY <1>1, <1>11, <2>2 DEF WaitBreaks, ProofFails, Close, planVars
<1>12. CASE BatchProved
  <2>1. left # <<>>
    BY <1>12 DEF BatchProved, TallyInv
  <2>2. BatchTypeOK'
    BY <1>10, <1>12, <2>1 DEF BatchProved, Close, planVars, tallyVars, PlanInv, BatchTypeOK
  <2> QED  BY <1>1, <1>12, <2>2 DEF BatchProved, Close, planVars
<1>13. CASE SubmitProof \/ Waited
  <2>1. BatchTypeOK'
    BY <1>13 DEF SubmitProof, Waited, planVars, tallyVars, PlanInv, BatchTypeOK
  <2> QED  BY <1>1, <1>13, <2>1 DEF SubmitProof, Waited, planVars
<1>14. CASE Relayed
  <2>1. Earliest(proofs) \in Txs
    BY <1>14, EarliestIs DEF Relayed, PlanInv, BatchTypeOK
  <2>2. BatchTypeOK'
    BY <1>14, <2>1 DEF Relayed, planVars, tallyVars, PlanInv, BatchTypeOK
  <2> QED  BY <1>1, <1>14, <2>2 DEF Relayed, planVars
<1>15. CASE Declines
  <2>1. Earliest(proofs) \in Txs /\ left # <<>>
    BY <1>15, EarliestIs DEF Declines, PlanInv, BatchTypeOK, TallyInv
  <2>2. BatchTypeOK'
    BY <1>10, <1>15, <2>1 DEF Declines, Close, planVars, tallyVars, PlanInv, BatchTypeOK
  <2> QED  BY <1>1, <1>15, <2>2 DEF Declines, Close, planVars
<1>16. CASE SignerFails
  <2>1. left # <<>>
    BY <1>16 DEF SignerFails, TallyInv
  <2>2. BatchTypeOK'
    BY <1>10, <1>16, <2>1 DEF SignerFails, Close, planVars, tallyVars, PlanInv, BatchTypeOK
  <2> QED  BY <1>1, <1>16, <2>2 DEF SignerFails, Close, planVars
<1>17. CASE BatchDone
  <2>1. left # <<>>
    BY <1>17 DEF BatchDone, TallyInv
  <2>2. BatchTypeOK'
    BY <1>10, <1>17, <2>1 DEF BatchDone, Close, planVars, PlanInv, BatchTypeOK
  <2> QED  BY <1>1, <1>17, <2>2 DEF BatchDone, Close, planVars
<1> QED
  BY <1>2, <1>3, <1>4, <1>5, <1>6, <1>7, <1>8, <1>9, <1>11, <1>12, <1>13, <1>14, <1>15,
     <1>16, <1>17 DEF BatchNext, BatchStep

LEMMA TallyKeeps ==
  ASSUME PlanInv, TallyInv, [BatchNext]_batchVars
  PROVE  TallyInv'
<1> USE DEF TallyInv, CountedIsMirrored
<1>1. CASE Located \/ planBatches \/ PlanFails \/ ModeChosen \/ NextBatch \/ NewestAttested
  BY <1>1 DEF Located, planBatches, PlanFails, ModeChosen, NextBatch, NewestAttested,
              planVars, tallyVars
<1>2. CASE WaitBreaks \/ ProofFails
  BY <1>2 DEF WaitBreaks, ProofFails, Close, planVars, tallyVars
<1>3. CASE BatchProved
  BY <1>3 DEF BatchProved, Close, planVars, tallyVars
<1>4. CASE SubmitProof \/ Waited
  BY <1>4 DEF SubmitProof, Waited, planVars, tallyVars
<1>5. CASE Relayed
  BY <1>5 DEF Relayed, planVars, tallyVars
<1>6. CASE Declines \/ SignerFails
  BY <1>6 DEF Declines, SignerFails, Close, planVars, tallyVars
<1>7. CASE BatchDone
  BY <1>7 DEF BatchDone, Close, planVars, tallyVars
<1>8. CASE Leave \/ HeightGrows \/ OthersApply
  BY <1>8 DEF Leave, HeightGrows, OthersApply, planVars, tallyVars
<1>9. CASE Included
  BY <1>9 DEF Included, planVars, tallyVars
<1>10. CASE UNCHANGED batchVars
  BY <1>10 DEF batchVars, planVars, tallyVars
<1> QED
  BY <1>1, <1>2, <1>3, <1>4, <1>5, <1>6, <1>7, <1>8, <1>9, <1>10 DEF BatchNext, BatchStep

LEMMA BatchStarts ==
  ASSUME BatchInit \/ BatchOff
  PROVE  PlanInv /\ TallyInv
<1>1. BatchTypeOK
  <2>1. blockOf \in [Txs -> 1..Span] /\ succeeded \subseteq Txs /\ 0 \in 0..Span
    BY BatchAssumption DEF BatchInit, BatchOff
  <2>2. BatchStart("plan") \/ BatchStart("off")
    BY DEF BatchInit, BatchOff
  <2>3. <<>> \in Seq(Seq(Txs)) /\ {} \subseteq Txs
    OBVIOUS
  <2>4. attestedTo \in 0..Span /\ batches \in Seq(Seq(Txs)) /\ left \in Seq(Seq(Txs))
    BY <2>1, <2>2, <2>3 DEF BatchStart
  <2>5. step \in {"plan", "off"}
    BY <2>2 DEF BatchStart
  <2> QED  BY <2>1, <2>2, <2>3, <2>4, <2>5, Zenon DEF BatchStart, BatchTypeOK
<1>2. batches = <<>> /\ left = <<>> /\ step \in {"off", "plan"} /\ inFlight = "none" /\ mirrored = {}
  BY DEF BatchInit, BatchOff, BatchStart
<1>3. BatchesArePacked
  BY <1>2 DEF BatchesArePacked
<1>4. PlanInv
  BY <1>1, <1>2, <1>3 DEF PlanInv
<1>5. TallyInv
  BY <1>2 DEF TallyInv, CountedIsMirrored
<1> QED  BY <1>4, <1>5

-----------------------------------------------------------------------------
(* The scan of the registry's log *)

Matching(a, b) == {e \in a..b : eventAt[e] # "none" /\ filter \in {"all", eventAt[e]}}

Scans ==
  [to : -1..Tip, top : -1..Tip, window : MIN_LOG_WINDOW..LOG_WINDOW, windows : 0..MaxWindows,
   rows : Seq(0..Tip), exhausted : BOOLEAN, append : BOOLEAN]

\* The rows of a scan are the events between where it is and where it began.
Sound(scan) ==
  /\ scan \in Scans /\ scan.to <= scan.top /\ scan.top <= tip
  /\ floor <= scan.to + 1
  /\ scan.exhausted => scan.to = floor - 1
  /\ Falling(scan.rows) /\ ToSet(scan.rows) = Matching(scan.to + 1, scan.top)

LoadInv ==
  load # NoScan =>
    /\ Sound(load)
    /\ load.append => listed # <<>> /\ nextBefore = load.top
    /\ (page = "registry" /\ ~load.append) => load.top >= 0

\* The rows that are listed, and those left out, are the events above nextBefore.
ViewInv ==
  listed # <<>> =>
    /\ Falling(listed) /\ ToSet(listed) \cap cut = {}
    /\ ToSet(listed) \cup cut = Matching(nextBefore + 1, top)
    /\ floor <= nextBefore + 1 /\ nextBefore <= top /\ top <= tip
    /\ exhausted => nextBefore = floor - 1

\* The event that a look-up seeks is not above the scan, unless it was left out.
LookupInv ==
  page = "revocation" =>
    /\ filter = "all" /\ sought <= tip /\ listed = <<>>
    /\ (eventAt[sought] # "none" /\ sought \notin cut /\ load # NoScan /\ found # "yes") =>
         sought <= load.top
    /\ (found = "no" /\ exhausted /\ ~error /\ sought \notin cut) => eventAt[sought] = "none"

ViewTypes ==
  /\ page \in {"off", "registry", "revocation"}
  /\ tip \in 0..Tip /\ floor \in {0, 1} /\ filter \in Filters
  /\ eventAt \in [0..Tip -> Chains \cup {"none"}]
  /\ listed \in Seq(0..Tip) /\ cut \subseteq 0..Tip /\ top \in 0..Tip /\ nextBefore \in -1..Tip
  /\ exhausted \in BOOLEAN /\ error \in BOOLEAN
  /\ late = NoScan \/ (late \in Scans /\ late.to <= late.top)
  /\ rounds \in 0..MaxRounds /\ found \in {"searching", "yes", "no"}
  /\ found = "searching" => rounds < MaxRounds
  /\ page # "revocation" => found = "searching"

ScanInv == ViewTypes /\ LoadInv /\ ViewInv /\ LookupInv

-----------------------------------------------------------------------------

LEMMA ScanIsNotNoScan ==
  ASSUME NEW scan \in Scans
  PROVE  scan # NoScan
<1>1. scan.to # -2
  BY ScanAssumption DEF Scans
<1> QED  BY <1>1 DEF NoScan

LEMMA ScanFields ==
  ASSUME NEW scan \in Scans
  PROVE  /\ scan.to \in -1..Tip /\ scan.top \in -1..Tip /\ scan.to \in Int /\ scan.top \in Int
         /\ scan.window \in MIN_LOG_WINDOW..LOG_WINDOW /\ scan.windows \in 0..MaxWindows
         /\ scan.rows \in Seq(0..Tip) /\ scan.exhausted \in BOOLEAN /\ scan.append \in BOOLEAN
BY ScanAssumption DEF Scans

LEMMA RowsAreInts == Seq(0..Tip) \subseteq Seq(Int)
BY ScanAssumption

LEMMA SoundStays ==
  ASSUME ViewTypes, Sound(load), UNCHANGED <<eventAt, filter, floor, load>>,
         tip' \in Int, tip' >= tip
  PROVE  Sound(load)' /\ load' # NoScan
<1>1. Matching(load.to + 1, load.top)' = Matching(load.to + 1, load.top)
  BY DEF Matching
<1>2. load'.top <= tip'
  BY ScanFields, ScanAssumption DEF Sound, ViewTypes
<1>3. Scans' = Scans
  BY DEF Scans
<1>4. Sound(load)'
  BY <1>1, <1>2, <1>3 DEF Sound
<1> QED  BY <1>4, ScanIsNotNoScan DEF Sound

\* A scan that begins at a block has nothing to report.
LEMMA SoundFirst ==
  ASSUME ViewTypes, UNCHANGED <<tip, floor>>, NEW before \in -1..tip, floor <= before + 1,
         NEW append \in BOOLEAN, load' = NewScan(before, append)
  PROVE  Sound(load)' /\ load' # NoScan /\ load'.append = append /\ load'.top = before
<1>1. tip \in 0..Tip /\ before \in -1..Tip /\ before \in Int
  BY ScanAssumption DEF ViewTypes
<1>2. load' \in Scans
  <2>1. /\ LOG_WINDOW \in MIN_LOG_WINDOW..LOG_WINDOW /\ 0 \in 0..MaxWindows
        /\ <<>> \in Seq(0..Tip)
    BY ScanAssumption
  <2> QED  BY <1>1, <2>1 DEF NewScan, Scans
<1>3. /\ load'.to = before /\ load'.top = before /\ load'.rows = <<>>
      /\ load'.exhausted = FALSE /\ load'.append = append
  BY DEF NewScan
<1>4. Matching(load.to + 1, load.top)' = {}
  <2>1. (before + 1)..before = {}
    BY <1>1
  <2> QED  BY <1>3, <2>1 DEF Matching
<1>5. Falling(<<>>) /\ ToSet(<<>>) = {}
  BY DEF Falling, ToSet
<1>6. load' # NoScan
  BY <1>2, ScanIsNotNoScan
<1>7. load'.to <= load'.top /\ load'.top <= tip' /\ floor' <= load'.to + 1
  BY <1>1, <1>3
<1>8. Scans' = Scans
  BY DEF Scans
<1>9. Sound(load)'
  BY <1>2, <1>3, <1>4, <1>5, <1>7, <1>8 DEF Sound
<1> QED  BY <1>3, <1>6, <1>9

\* What the limit keeps of the rows and what it leaves out are all of them.
LEMMA KeptAndDropped ==
  ASSUME NEW scan \in Scans, Falling(scan.rows)
  PROVE  /\ Kept(scan) \in Seq(0..Tip) /\ Falling(Kept(scan))
         /\ ToSet(Kept(scan)) \cup Dropped(scan) = ToSet(scan.rows)
         /\ ToSet(Kept(scan)) \cap Dropped(scan) = {}
         /\ ToSet(scan.rows) \subseteq 0..Tip
<1>1. scan.rows \in Seq(0..Tip) /\ scan.rows \in Seq(Int)
  BY ScanFields, RowsAreInts
<1> DEFINE n == IF Len(scan.rows) < Limit THEN Len(scan.rows) ELSE Limit
<1>2. n \in 0..Len(scan.rows)
  BY <1>1, ScanAssumption
<1>3. Kept(scan) = SubSeq(scan.rows, 1, n)
  BY DEF Kept
<1> HIDE DEF n
<1>4. Falling(Kept(scan)) /\ ToSet(Kept(scan)) \subseteq ToSet(scan.rows)
  BY <1>1, <1>2, <1>3, FallingStart
<1>5. Kept(scan) \in Seq(0..Tip)
  BY <1>1, <1>2, <1>3, StartIn
<1>6. ToSet(scan.rows) \subseteq 0..Tip
  BY <1>1, ToSetIn
<1> QED  BY <1>4, <1>5, <1>6 DEF Dropped

LEMMA MatchingSplits ==
  ASSUME NEW a \in Int, NEW b \in Int, NEW c \in Int, a <= b + 1, b <= c
  PROVE  /\ Matching(a, c) = Matching(b + 1, c) \cup Matching(a, b)
         /\ \A x \in Matching(b + 1, c), y \in Matching(a, b) : x > y
         /\ Matching(a, b) \subseteq Int
<1>1. a..c = ((b + 1)..c) \cup (a..b)
  OBVIOUS
<1>2. \A x \in (b + 1)..c, y \in a..b : x > y
  OBVIOUS
<1> QED  BY <1>1, <1>2 DEF Matching

LEMMA WindowAdds ==
  ASSUME ScanInv, WindowRead
  PROVE  Sound(load)' /\ load' # NoScan /\ load'.append = load.append /\ load'.top = load.top
<1> DEFINE new == newestFirst(Matching(from(load), load.to))
           f == from(load)
<1>1. /\ load # NoScan /\ Sound(load) /\ load \in Scans
      /\ ~load.exhausted /\ load.windows < MaxWindows /\ load.to >= floor
  BY DEF WindowRead, More, ScanInv, LoadInv, Sound
<1>2. f \in 0..Tip /\ floor <= f /\ f <= load.to
  <2>1. /\ load.to \in -1..Tip /\ load.window \in Nat \ {0} /\ floor \in {0, 1}
        /\ Tip \in Nat /\ load.to >= floor
    BY <1>1, ScanFields, ScanAssumption DEF ScanInv, ViewTypes
  <2>2. (f = load.to - load.window /\ load.to - load.window > floor) \/ f = floor
    BY DEF from
  <2> HIDE DEF f
  <2> QED  BY <2>1, <2>2
<1>3. /\ new \in Seq(0..Tip) /\ Falling(new) /\ ToSet(new) = Matching(f, load.to)
  <2>1. /\ Matching(f, load.to) \subseteq Nat /\ Matching(f, load.to) \subseteq 0..Tip
        /\ f \in Int /\ load.to \in Int
    BY <1>1, <1>2, ScanFields, ScanAssumption DEF Matching
  <2>2. IsFiniteSet(Matching(f, load.to))
    <3>1. IsFiniteSet(f..load.to)
      BY <2>1, FS_Interval
    <3> QED  BY <3>1, FS_Subset DEF Matching
  <2>3. new \in Seq(Nat) /\ Falling(new) /\ ToSet(new) = Matching(f, load.to)
    <3>1. /\ newestFirst(Matching(f, load.to)) \in Seq(Matching(f, load.to))
          /\ Falling(newestFirst(Matching(f, load.to)))
          /\ ToSet(newestFirst(Matching(f, load.to))) = Matching(f, load.to)
      BY <2>1, <2>2, NewestFirst
    <3>2. Seq(Matching(f, load.to)) \subseteq Seq(Nat)
      <4> HIDE DEF f
      <4> QED  BY <2>1
    <3> QED  BY <3>1, <3>2, Zenon
  <2> HIDE DEF new, f
  <2> QED  BY <2>1, <2>3, Retype
<1>4. load' = [load EXCEPT !.rows = @ \o new, !.windows = @ + 1,
                           !.exhausted = f <= floor, !.to = f - 1]
  BY DEF WindowRead, Logs, Matching
<1> HIDE DEF new, f
<1>5. /\ load'.rows = load.rows \o new /\ load'.windows = load.windows + 1
      /\ load'.exhausted = (f <= floor) /\ load'.to = f - 1
      /\ load'.top = load.top /\ load'.window = load.window /\ load'.append = load.append
  BY <1>1, <1>4 DEF Scans
<1>6. load.rows \o new \in Seq(0..Tip)
  BY <1>1, <1>3, ScanFields
<1>7. load' \in Scans
  <2>1. /\ f - 1 \in -1..Tip /\ load.windows + 1 \in 0..MaxWindows /\ (f <= floor) \in BOOLEAN
    BY <1>1, <1>2, ScanFields, ScanAssumption
  <2> QED  BY <1>1, <1>4, <1>6, <2>1 DEF Scans
<1>8. /\ f \in Int /\ load.to \in Int /\ load.top \in Int /\ load.to <= load.top
      /\ load.top <= tip /\ floor \in {0, 1}
  BY <1>1, <1>2, ScanFields DEF Sound, ScanInv, ViewTypes
<1>9. /\ Matching(f, load.top) = Matching(load.to + 1, load.top) \cup Matching(f, load.to)
      /\ \A x \in Matching(load.to + 1, load.top), y \in Matching(f, load.to) : x > y
  <2>1. f \in Int /\ f <= load.to + 1
    BY <1>2, <1>8
  <2> QED  BY <1>8, <2>1, MatchingSplits
<1>10. /\ Falling(load.rows \o new) /\ ToSet(load.rows \o new) = Matching(f, load.top)
  <2>1. load.rows \in Seq(Int) /\ new \in Seq(Int)
    BY <1>1, <1>3, ScanFields, RowsAreInts
  <2>2. ToSet(load.rows) = Matching(load.to + 1, load.top) /\ Falling(load.rows)
    BY <1>1 DEF Sound
  <2> QED  BY <1>3, <1>9, <2>1, <2>2, FallingOn
<1>11. Matching(load.to + 1, load.top)' = Matching(f, load.top)
  <2>1. load'.to + 1 = f
    BY <1>5, <1>8
  <2> QED  BY <1>5, <2>1 DEF WindowRead, Matching
<1>12. tip' = tip /\ floor' = floor
  BY DEF WindowRead
<1>13. Sound(load)'
  <2>1. load'.to <= load'.top /\ load'.top <= tip' /\ floor' <= load'.to + 1
    BY <1>2, <1>5, <1>8, <1>12
  <2>2. load'.exhausted => load'.to = floor' - 1
    <3>1. f <= floor => f = floor
      BY <1>2, <1>8
    <3> QED  BY <1>5, <1>12, <3>1
  <2>3. Scans' = Scans
    BY DEF Scans
  <2> QED  BY <1>5, <1>7, <1>10, <1>11, <2>1, <2>2, <2>3 DEF Sound
<1> QED  BY <1>5, <1>7, <1>13, ScanIsNotNoScan

\* The log, its filter and what is shown of it are as they were.
ViewStands ==
  UNCHANGED <<page, eventAt, tip, floor, filter, late, viewVars, error, lookupVars>>

LEMMA ViewKept ==
  ASSUME ScanInv, UNCHANGED <<eventAt, floor, filter, viewVars>>, tip' \in Int, tip' >= tip
  PROVE  ViewInv'
<1>1. Matching(nextBefore + 1, top)' = Matching(nextBefore + 1, top)
  BY DEF Matching, viewVars
<1>2. top <= tip => top <= tip'
  BY ScanAssumption DEF ScanInv, ViewTypes
<1> QED  BY <1>1, <1>2 DEF ScanInv, ViewInv, viewVars

LEMMA WindowKeeps ==
  ASSUME ScanInv, WindowRead
  PROVE  ScanInv'
<1>1. ViewStands /\ load # NoScan
  BY DEF WindowRead, ViewStands, More
<1>2. ViewTypes'
  BY <1>1 DEF ViewStands, ViewTypes, ScanInv, viewVars, lookupVars, Scans, NoScan, Filters, Chains
<1>3. LoadInv'
  BY <1>1, WindowAdds DEF ViewStands, LoadInv, ScanInv, viewVars
<1>4. ViewInv'
  BY <1>1, ViewKept DEF ViewStands, ScanInv, ViewTypes
<1>5. LookupInv'
  BY <1>1, WindowAdds DEF ViewStands, LookupInv, ScanInv, viewVars, lookupVars
<1> QED  BY <1>2, <1>3, <1>4, <1>5 DEF ScanInv

LEMMA ShrinkKeeps ==
  ASSUME ScanInv, WindowShrinks
  PROVE  ScanInv'
<1>1. /\ ViewStands /\ load # NoScan /\ Sound(load) /\ load \in Scans
      /\ load' = [load EXCEPT !.window = Shrunk(@)]
  BY DEF WindowShrinks, ViewStands, More, ScanInv, LoadInv, Sound
<1>2. Shrunk(load.window) \in MIN_LOG_WINDOW..LOG_WINDOW
  <2>1. /\ load.window \in Nat /\ load.window <= LOG_WINDOW /\ MIN_LOG_WINDOW \in Nat
        /\ MIN_LOG_WINDOW <= LOG_WINDOW /\ LOG_WINDOW \in Nat
    BY <1>1, ScanFields, ScanAssumption
  <2>2. load.window \div 3 \in Nat /\ load.window \div 3 <= load.window
    BY <2>1
  <2> QED  BY <2>1, <2>2 DEF Shrunk
<1>3. /\ load' \in Scans
      /\ load'.to = load.to /\ load'.top = load.top /\ load'.rows = load.rows
      /\ load'.exhausted = load.exhausted /\ load'.append = load.append
  BY <1>1, <1>2 DEF Scans
<1>4. Sound(load)' /\ load' # NoScan
  <2>1. Matching(load.to + 1, load.top)' = Matching(load.to + 1, load.top)
    BY <1>1, <1>3 DEF Matching, ViewStands
  <2>2. Scans' = Scans
    BY DEF Scans
  <2>3. load'.to <= load'.top /\ load'.top <= tip' /\ floor' <= load'.to + 1
    BY <1>1, <1>3 DEF Sound, ViewStands
  <2> QED  BY <1>1, <1>3, <2>1, <2>2, <2>3, ScanIsNotNoScan DEF Sound, ViewStands
<1>5. ViewTypes'
  BY <1>1 DEF ViewStands, ViewTypes, ScanInv, viewVars, lookupVars, Scans, NoScan, Filters, Chains
<1>6. LoadInv'
  BY <1>1, <1>3, <1>4 DEF ViewStands, LoadInv, ScanInv, viewVars
<1>7. ViewInv'
  BY <1>1, ViewKept DEF ViewStands, ScanInv, ViewTypes
<1>8. LookupInv'
  BY <1>1, <1>3 DEF ViewStands, LookupInv, ScanInv, viewVars, lookupVars
<1> QED  BY <1>5, <1>6, <1>7, <1>8 DEF ScanInv

LEMMA LoadKeeps ==
  ASSUME ScanInv, NEW chain \in Filters, Load(chain)
  PROVE  ScanInv'
<1>1. /\ page = "registry" /\ load' = NewScan(tip, FALSE) /\ listed' = <<>> /\ cut' = {}
      /\ filter' = chain /\ error' = FALSE
      /\ UNCHANGED <<page, eventAt, tip, floor, top, nextBefore, exhausted, lookupVars>>
  BY DEF Load
<1>2. Sound(load)' /\ load'.append = FALSE
  <2>1. tip \in -1..tip /\ floor <= tip + 1 /\ FALSE \in BOOLEAN
    BY ScanAssumption DEF ScanInv, ViewTypes
  <2> QED  BY <1>1, <2>1, SoundFirst DEF ScanInv
<1>3. ViewTypes'
  <2>1. late' = NoScan \/ (late' \in Scans /\ late'.to <= late'.top)
    BY DEF Load, ScanInv, ViewTypes, LoadInv, Sound
  <2>2. <<>> \in Seq(0..Tip) /\ {} \subseteq 0..Tip
    OBVIOUS
  <2> QED  BY <1>1, <2>1, <2>2
           DEF ViewTypes, ScanInv, lookupVars, Scans, NoScan, Filters, Chains
<1>4. load'.top >= 0
  BY <1>1 DEF NewScan, ScanInv, ViewTypes
<1> QED  BY <1>1, <1>2, <1>3, <1>4 DEF ScanInv, LoadInv, ViewInv, LookupInv

LEMMA OlderKeeps ==
  ASSUME ScanInv, ScanOlder
  PROVE  ScanInv'
<1>1. /\ ViewStands /\ page = "registry" /\ listed # <<>> /\ load' = NewScan(nextBefore, TRUE)
  BY DEF ScanOlder, ViewStands
<1>2. Sound(load)' /\ load'.top = nextBefore /\ load'.append = TRUE
  <2>1. nextBefore \in -1..tip /\ floor <= nextBefore + 1 /\ TRUE \in BOOLEAN
    BY <1>1, ScanAssumption DEF ScanInv, ViewTypes, ViewInv
  <2> QED  BY <1>1, <2>1, SoundFirst DEF ScanInv, ViewStands
<1>3. ViewTypes'
  BY <1>1 DEF ViewStands, ViewTypes, ScanInv, viewVars, lookupVars, Scans, NoScan, Filters, Chains
<1>4. ViewInv'
  BY <1>1, ViewKept DEF ViewStands, ScanInv, ViewTypes
<1>5. LoadInv'
  BY <1>1, <1>2 DEF LoadInv, ViewStands, viewVars
<1>6. LookupInv'
  BY <1>1 DEF LookupInv, ViewStands
<1> QED  BY <1>3, <1>4, <1>5, <1>6 DEF ScanInv

LEMMA ReturnKeeps ==
  ASSUME ScanInv, LoadReturns
  PROVE  ScanInv'
<1>1. /\ page = "registry" /\ load # NoScan /\ load' = NoScan /\ Show(load)
      /\ UNCHANGED <<page, eventAt, tip, floor, filter, late, error, lookupVars>>
  BY DEF LoadReturns
<1>2. /\ Sound(load) /\ load \in Scans /\ Falling(load.rows)
      /\ ToSet(load.rows) = Matching(load.to + 1, load.top)
      /\ load.to <= load.top /\ load.top <= tip /\ floor <= load.to + 1
      /\ load.exhausted => load.to = floor - 1
  BY <1>1 DEF ScanInv, LoadInv, Sound
<1>3. /\ load.to \in -1..Tip /\ load.top \in -1..Tip /\ load.to \in Int /\ load.top \in Int
      /\ load.exhausted \in BOOLEAN /\ load.append \in BOOLEAN
  BY <1>2, ScanFields
<1>4. /\ Kept(load) \in Seq(0..Tip) /\ Falling(Kept(load))
      /\ ToSet(Kept(load)) \cup Dropped(load) = Matching(load.to + 1, load.top)
      /\ ToSet(Kept(load)) \cap Dropped(load) = {}
      /\ Dropped(load) \subseteq 0..Tip
  BY <1>2, KeptAndDropped DEF Dropped
<1>5. nextBefore' = load.to /\ exhausted' = load.exhausted
  BY <1>1 DEF Show
<1>6. Matching(nextBefore + 1, top)' = Matching(load.to + 1, top')
  BY <1>1, <1>5 DEF Matching
<1>7. CASE ~load.append
  <2>1. listed' = Kept(load) /\ cut' = Dropped(load) /\ top' = load.top
    BY <1>1, <1>7 DEF Show
  <2>2. top' \in 0..Tip
    BY <1>1, <1>3, <1>7, <2>1 DEF ScanInv, LoadInv
  <2>3. ViewTypes'
    BY <1>1, <1>3, <1>4, <1>5, <2>1, <2>2
       DEF ViewTypes, ScanInv, lookupVars, Scans, NoScan, Filters, Chains
  <2>4. ViewInv'
    <3>1. Matching(nextBefore + 1, top)' = Matching(load.to + 1, load.top)
      BY <1>6, <2>1
    <3> QED  BY <1>1, <1>2, <1>4, <1>5, <2>1, <3>1 DEF ViewInv
  <2> QED  BY <1>1, <2>3, <2>4 DEF ScanInv, LoadInv, LookupInv
<1>8. CASE load.append
  <2>1. /\ listed' = listed \o Kept(load) /\ cut' = cut \cup Dropped(load) /\ top' = top
        /\ listed # <<>> /\ nextBefore = load.top
    BY <1>1, <1>8 DEF Show, ScanInv, LoadInv
  <2>2. /\ listed \in Seq(0..Tip) /\ cut \subseteq 0..Tip /\ Falling(listed)
        /\ ToSet(listed) \cap cut = {}
        /\ ToSet(listed) \cup cut = Matching(load.top + 1, top)
        /\ load.top <= top /\ top <= tip /\ top \in Int
    <3>1. /\ listed \in Seq(0..Tip) /\ cut \subseteq 0..Tip /\ top \in Int
      BY ScanAssumption DEF ScanInv, ViewTypes
    <3>2. /\ Falling(listed) /\ ToSet(listed) \cap cut = {}
          /\ ToSet(listed) \cup cut = Matching(nextBefore + 1, top)
          /\ nextBefore <= top /\ top <= tip
      BY <2>1 DEF ScanInv, ViewInv
    <3> QED  BY <2>1, <3>1, <3>2
  <2>3. /\ Matching(load.to + 1, top)
             = Matching(load.top + 1, top) \cup Matching(load.to + 1, load.top)
        /\ \A x \in Matching(load.top + 1, top), y \in Matching(load.to + 1, load.top) : x > y
    <3>1. load.to + 1 \in Int /\ load.to + 1 <= load.top + 1
      BY <1>2, <1>3
    <3> QED  BY <1>3, <2>2, <3>1, MatchingSplits
  <2>4. \A x \in Matching(load.top + 1, top) : x \notin Matching(load.to + 1, load.top)
    <3>1. Matching(load.top + 1, top) \subseteq Int
      BY <1>3 DEF Matching
    <3> QED  BY <2>3, <3>1
  <2>5. listed' \in Seq(0..Tip)
    BY <1>4, <2>1, <2>2
  <2>6. Falling(listed') /\ ToSet(listed') = ToSet(listed) \cup ToSet(Kept(load))
    <3>1. listed \in Seq(Int) /\ Kept(load) \in Seq(Int)
      BY <1>4, <2>2, RowsAreInts
    <3>2. \A x \in ToSet(listed), y \in ToSet(Kept(load)) : x > y
      BY <1>4, <2>2, <2>3
    <3> QED  BY <1>4, <2>1, <2>2, <3>1, <3>2, FallingOn
  <2>7. ToSet(listed') \cap cut' = {}
    BY <1>4, <2>1, <2>2, <2>4, <2>6
  <2>8. ToSet(listed') \cup cut' = Matching(nextBefore + 1, top)'
    <3>1. Matching(nextBefore + 1, top)' = Matching(load.to + 1, top)
      BY <1>6, <2>1
    <3> QED  BY <1>4, <2>1, <2>2, <2>3, <2>6, <3>1
  <2>9. ViewInv'
    BY <1>1, <1>2, <1>3, <1>5, <2>1, <2>2, <2>6, <2>7, <2>8 DEF ViewInv
  <2>10. ViewTypes'
    BY <1>1, <1>3, <1>4, <1>5, <2>1, <2>2, <2>5
       DEF ViewTypes, ScanInv, lookupVars, Scans, NoScan, Filters, Chains
  <2> QED  BY <1>1, <2>9, <2>10 DEF ScanInv, LoadInv, LookupInv
<1> QED  BY <1>3, <1>7, <1>8

LEMMA PageKeeps ==
  ASSUME ScanInv, LoadFails \/ LateReturns \/ LateFails \/ BlockMined \/ UNCHANGED scanVars
  PROVE  ScanInv'
<1>1. /\ UNCHANGED <<page, eventAt, floor, filter, viewVars, lookupVars>>
      /\ tip' \in 0..Tip /\ tip' >= tip
      /\ (late' = late \/ late' = NoScan) /\ (error' = TRUE \/ error' = error)
      /\ load' = load \/ (load' = NoScan /\ page = "registry")
  <2>1. tip \in 0..Tip /\ Tip \in Nat
    BY ScanAssumption DEF ScanInv, ViewTypes
  <2>2. CASE LoadFails
    BY <2>1, <2>2 DEF LoadFails
  <2>3. CASE LateReturns \/ LateFails
    BY <2>1, <2>3 DEF LateReturns, LateFails
  <2>4. CASE BlockMined
    BY <2>1, <2>4 DEF BlockMined
  <2>5. CASE UNCHANGED scanVars
    BY <2>1, <2>5 DEF scanVars
  <2> QED  BY <2>2, <2>3, <2>4, <2>5
<1>2. ViewTypes'
  BY <1>1 DEF ViewTypes, ScanInv, viewVars, lookupVars, Scans, NoScan, Filters, Chains
<1>3. tip' \in Int /\ tip \in Int
  BY <1>1, ScanAssumption DEF ScanInv, ViewTypes
<1>4. ViewInv'
  BY <1>1, <1>3, ViewKept
<1>5. LoadInv'
  <2>1. CASE load' = NoScan
    BY <2>1 DEF LoadInv
  <2>2. CASE load' = load /\ load # NoScan
    <3>1. Sound(load)'
      BY <1>1, <1>3, <2>2, SoundStays DEF ScanInv, LoadInv
    <3> QED  BY <1>1, <2>2, <3>1 DEF ScanInv, LoadInv, viewVars
  <2> QED  BY <1>1, <2>1, <2>2
<1>6. LookupInv'
  <2> SUFFICES ASSUME page' = "revocation" PROVE LookupInv'
    BY DEF LookupInv
  <2>1. /\ page = "revocation" /\ load' = load /\ UNCHANGED <<cut, exhausted, found, listed>>
        /\ sought <= tip'
    BY <1>1, <1>3 DEF LookupInv, ScanInv, viewVars, lookupVars, sought
  <2> QED  BY <1>1, <2>1 DEF LookupInv, ScanInv
<1> QED  BY <1>2, <1>4, <1>5, <1>6 DEF ScanInv

LEMMA SearchKeeps ==
  ASSUME ScanInv, Search \/ SearchFails
  PROVE  ScanInv'
<1>1. CASE Search
  <2>1. /\ ViewStands /\ page = "revocation" /\ load = NoScan /\ load' = NewScan(tip, FALSE)
    BY <1>1 DEF Search, Searching, ViewStands
  <2>2. Sound(load)' /\ load'.append = FALSE /\ load'.top = tip
    <3>1. tip \in -1..tip /\ floor <= tip + 1 /\ FALSE \in BOOLEAN
      BY ScanAssumption DEF ScanInv, ViewTypes
    <3> QED  BY <2>1, <3>1, SoundFirst DEF ScanInv, ViewStands
  <2>3. ViewTypes'
    BY <2>1 DEF ViewStands, ViewTypes, ScanInv, viewVars, lookupVars, Scans, NoScan, Filters, Chains
  <2>4. ViewInv'
    BY <2>1, ViewKept DEF ViewStands, ScanInv, ViewTypes
  <2>5. LoadInv'
    BY <2>1, <2>2 DEF LoadInv, ViewStands
  <2>6. LookupInv'
    BY <2>1, <2>2 DEF LookupInv, ScanInv, ViewStands, viewVars, lookupVars, sought
  <2> QED  BY <2>3, <2>4, <2>5, <2>6 DEF ScanInv
<1>2. CASE SearchFails
  <2>1. /\ page = "revocation" /\ found' = "no" /\ error' = TRUE
        /\ UNCHANGED <<page, eventAt, tip, floor, filter, load, late, viewVars, rounds>>
    BY <1>2 DEF SearchFails, Searching
  <2>2. ViewTypes'
    BY <2>1 DEF ViewTypes, ScanInv, viewVars, Scans, NoScan, Filters, Chains
  <2>3. ViewInv'
    BY <2>1, ViewKept DEF ScanInv, ViewTypes
  <2>4. LoadInv'
    <3>1. load # NoScan => Sound(load)'
      BY <2>1, SoundStays DEF ScanInv, LoadInv, ViewTypes
    <3> QED  BY <2>1, <3>1 DEF LoadInv, ScanInv, viewVars
  <2>5. LookupInv'
    BY <1>2, <2>1 DEF LookupInv, ScanInv, viewVars, SearchFails, Searching
  <2> QED  BY <2>2, <2>3, <2>4, <2>5 DEF ScanInv
<1> QED  BY <1>1, <1>2

\* An event above the block where a scan is, and not above where it began, is kept or left out.
LEMMA SearchedKeeps ==
  ASSUME ScanInv, Searched
  PROVE  ScanInv'
<1>1. /\ page = "revocation" /\ found = "searching" /\ load # NoScan
      /\ rounds' = rounds + 1 /\ cut' = cut \cup Dropped(load) /\ exhausted' = load.exhausted
      /\ UNCHANGED <<page, eventAt, tip, floor, filter, late, listed, top, nextBefore, error>>
  BY DEF Searched, Searching
<1>2. /\ Sound(load) /\ load \in Scans /\ Falling(load.rows)
      /\ ToSet(load.rows) = Matching(load.to + 1, load.top)
      /\ load.to <= load.top /\ load.top <= tip /\ floor <= load.to + 1
      /\ load.exhausted => load.to = floor - 1
  BY <1>1 DEF ScanInv, LoadInv, Sound
<1>3. /\ load.to \in Int /\ load.top \in Int /\ load.exhausted \in BOOLEAN
      /\ load.to \in -1..Tip
  BY <1>2, ScanFields
<1>4. /\ ToSet(Kept(load)) \cup Dropped(load) = Matching(load.to + 1, load.top)
      /\ Dropped(load) \subseteq 0..Tip
  BY <1>2, KeptAndDropped DEF Dropped
<1>5. (sought > load.to /\ sought <= load.top /\ eventAt[sought] # "none" /\ sought \notin cut')
        => sought \in ToSet(Kept(load))
  <2> SUFFICES ASSUME sought > load.to, sought <= load.top, eventAt[sought] # "none",
                      sought \notin cut'
               PROVE  sought \in ToSet(Kept(load))
    OBVIOUS
  <2>1. sought \in (load.to + 1)..load.top /\ filter = "all"
    BY <1>1, <1>3 DEF sought, ScanInv, LookupInv
  <2>2. sought \in Matching(load.to + 1, load.top)
    BY <2>1 DEF Matching
  <2> QED  BY <1>1, <1>4, <2>2
<1>6. /\ filter = "all" /\ sought <= tip /\ listed = <<>> /\ rounds < MaxRounds
      /\ (eventAt[sought] # "none" /\ sought \notin cut') => sought <= load.top
  BY <1>1 DEF ScanInv, LookupInv, ViewTypes
<1>7. rounds' \in 0..MaxRounds
  BY <1>1, <1>6, ScanAssumption DEF ScanInv, ViewTypes
<1>8. cut' \subseteq 0..Tip
  BY <1>1, <1>4 DEF ScanInv, ViewTypes
<1>9. ASSUME found' \in {"searching", "yes", "no"}, found' = "searching" => rounds' < MaxRounds
      PROVE  ViewTypes' /\ ViewInv'
  BY <1>1, <1>3, <1>6, <1>7, <1>8, <1>9
     DEF ViewTypes, ViewInv, ScanInv, Scans, NoScan, Filters, Chains
<1>10. CASE sought \in ToSet(Kept(load))
  <2>1. found' = "yes" /\ UNCHANGED load
    BY <1>10 DEF Searched
  <2>2. LoadInv'
    BY <1>1, <2>1, SoundStays DEF ScanInv, LoadInv, ViewTypes
  <2> QED  BY <1>1, <1>6, <1>9, <2>1, <2>2 DEF ScanInv, LookupInv
<1>11. CASE sought \notin ToSet(Kept(load)) /\ (load.exhausted \/ rounds' = MaxRounds)
  <2>1. found' = "no" /\ UNCHANGED load
    BY <1>11 DEF Searched
  <2>2. LoadInv'
    BY <1>1, <2>1, SoundStays DEF ScanInv, LoadInv, ViewTypes
  <2>3. (load.exhausted /\ sought \notin cut') => eventAt[sought] = "none"
    <3>1. load.exhausted => sought > load.to
      BY <1>2, <1>3 DEF sought, ScanInv, ViewTypes
    <3> QED  BY <1>5, <1>6, <1>11, <3>1
  <2> QED  BY <1>1, <1>6, <1>9, <2>1, <2>2, <2>3 DEF ScanInv, LookupInv
<1>12. CASE sought \notin ToSet(Kept(load)) /\ ~(load.exhausted \/ rounds' = MaxRounds)
  <2>1. load' = NewScan(load.to, FALSE) /\ found' = "searching" /\ rounds' < MaxRounds
    BY <1>1, <1>7, <1>12, ScanAssumption DEF Searched
  <2>2. Sound(load)' /\ load' # NoScan /\ load'.append = FALSE /\ load'.top = load.to
    <3>1. load.to \in -1..tip /\ FALSE \in BOOLEAN
      BY <1>2, <1>3 DEF ScanInv, ViewTypes
    <3> QED  BY <1>1, <1>2, <2>1, <3>1, SoundFirst DEF ScanInv
  <2>3. LoadInv'
    BY <1>1, <2>2 DEF LoadInv
  <2>4. (eventAt[sought] # "none" /\ sought \notin cut') => sought <= load.to
    BY <1>3, <1>5, <1>6, <1>12 DEF sought
  <2> QED  BY <1>1, <1>6, <1>9, <2>1, <2>2, <2>3, <2>4 DEF ScanInv, LookupInv
<1> QED  BY <1>10, <1>11, <1>12

LEMMA ScanKeeps ==
  ASSUME ScanInv, [ScanNext]_scanVars
  PROVE  ScanInv'
BY WindowKeeps, ShrinkKeeps, LoadKeeps, OlderKeeps, ReturnKeeps, PageKeeps, SearchKeeps,
   SearchedKeeps DEF ScanNext, ScanStep

LEMMA ScanStarts ==
  ASSUME ScanInit \/ ScanOff
  PROVE  ScanInv
<1>1. PICK which \in {"off", "registry", "revocation"} : ScanStart(which)
  BY DEF ScanInit, ScanOff
<1>2. tip \in 0..Tip /\ floor \in {0, 1} /\ (which = "revocation" => tip >= 1)
  BY <1>1, ScanAssumption DEF ScanInit, ScanOff, ScanStart
<1>3. eventAt \in [0..Tip -> Chains \cup {"none"}]
  BY DEF ScanInit, ScanOff
<1>4. <<>> \in Seq(0..Tip) /\ 0 \in 0..Tip /\ -1 \in -1..Tip /\ 0 \in 0..MaxRounds /\ 0 < MaxRounds
  BY ScanAssumption
<1>5. ViewTypes
  BY <1>1, <1>2, <1>3, <1>4 DEF ViewTypes, ScanStart, Filters
<1> QED  BY <1>1, <1>2, <1>5 DEF ScanInv, LoadInv, ViewInv, LookupInv, ScanStart, sought

LEMMA ScanFollows ==
  ASSUME ScanInv
  PROVE  ScanTypeOK /\ ScanLeavesNoGap
<1>1. ScanTypeOK
  <2>1. ToSet(listed) \subseteq 0..Tip
    BY ToSetIn DEF ScanInv, ViewTypes
  <2>2. ASSUME NEW scan \in {load, late} \ {NoScan}
        PROVE  /\ scan.window \in MIN_LOG_WINDOW..LOG_WINDOW /\ scan.windows \in 0..MaxWindows
               /\ scan.to \in -1..scan.top
    <3>1. scan \in Scans /\ scan.to <= scan.top
      BY <2>2 DEF ScanInv, LoadInv, Sound, ViewTypes
    <3>2. scan.to \in -1..Tip /\ scan.top \in Int
      BY <3>1, ScanFields
    <3> QED  BY <3>1, <3>2, ScanFields, ScanAssumption
  <2> QED  BY <2>1, <2>2 DEF ScanTypeOK, ScanInv, ViewTypes
<1>2. ASSUME listed # <<>>
      PROVE  /\ \A i, j \in 1..Len(listed) : i < j => listed[i] > listed[j]
             /\ ToSet(listed) \cap cut = {}
             /\ ToSet(listed) \cup cut =
                  {b \in Lowest..top : eventAt[b] # "none" /\ filter \in {"all", eventAt[b]}}
  <2>1. DOMAIN listed = 1..Len(listed)
    BY DEF ScanInv, ViewTypes
  <2>2. Lowest = nextBefore + 1
    BY <1>2, ScanAssumption DEF Lowest, ScanInv, ViewInv, ViewTypes
  <2> QED  BY <1>2, <2>1, <2>2 DEF ScanInv, ViewInv, Falling, Matching
<1>3. (found = "no" /\ exhausted /\ ~error /\ sought \notin cut) => eventAt[sought] = "none"
  BY DEF ScanInv, ViewTypes, LookupInv
<1> QED  BY <1>1, <1>2, <1>3 DEF ScanLeavesNoGap

-----------------------------------------------------------------------------
(* What there is to mirror *)

\* The pages cover what is between the first page and the oldest row read, and the next
\* page begins no lower than where the last one ended.
PagesInv ==
  /\ \A r \in Collected, s \in First : r..s \subseteq Collected
  /\ \A s \in First : \A v \in 1..s : v > newest - skip => v \in Collected

DiscoveryInv ==
  /\ DiscoveryTypeOK /\ pageOf \in Seq(SUBSET (1..Rows))
  /\ skip \in Nat /\ enough \in Nat /\ enough <= Page + skip
  /\ \A r \in 1..Rows : txOf[r] <= r
  /\ groups \in Seq(1..Rows) /\ IsInjective(groups)
  /\ (reader = "bench" /\ anyFailed) \/ PagesInv
  /\ phase = "schemas" => groups = <<>> /\ pageOf = <<>> /\ enough = 0

-----------------------------------------------------------------------------

LEMMA ListingInjective ==
  ASSUME NEW S, IsFiniteSet(S), NEW s \in SetToSeqs(S)
  PROVE  s \in Seq(S) /\ ToSet(s) = S /\ IsInjective(s)
BY ListingIsAll DEF IsInjective

LEMMA NewestInjective ==
  ASSUME NEW S \in SUBSET (1..Rows)
  PROVE  /\ newestFirst(S) \in Seq(1..Rows) /\ ToSet(newestFirst(S)) = S
         /\ IsInjective(newestFirst(S)) /\ IsFiniteSet(S)
<1>1. IsFiniteSet(S) /\ S \subseteq Nat
  <2>1. IsFiniteSet(1..Rows) /\ 1..Rows \subseteq Nat
    <3>1. 1 \in Int /\ Rows \in Int
      BY DiscoveryAssumption
    <3>2. IsFiniteSet(1..Rows)
      BY <3>1, FS_Interval
    <3>3. 1..Rows \subseteq Nat
      BY <3>1
    <3> QED  BY <3>2, <3>3
  <2> QED  BY <2>1, FS_Subset
<1>2. newestFirst(S) \in SetToSeqs(S)
  BY <1>1, NewestFirst
<1>3. newestFirst(S) \in Seq(S) /\ ToSet(newestFirst(S)) = S /\ IsInjective(newestFirst(S))
  BY <1>1, <1>2, ListingInjective
<1>4. newestFirst(S) \in Seq(1..Rows)
  <2>1. ToSet(newestFirst(S)) \subseteq 1..Rows
    BY <1>3
  <2> QED  BY <1>3, <2>1, Retype
<1> QED  BY <1>1, <1>3, <1>4

\* Two lists without repetition that share nothing make one.
LEMMA InjectiveOn ==
  ASSUME NEW S, NEW s \in Seq(S), NEW t \in Seq(S), IsInjective(s), IsInjective(t),
         ToSet(s) \cap ToSet(t) = {}
  PROVE  s \o t \in Seq(S) /\ IsInjective(s \o t) /\ ToSet(s \o t) = ToSet(s) \cup ToSet(t)
<1> DEFINE m == Len(s)
           n == Len(t)
           u == s \o t
<1>1. m \in Nat /\ n \in Nat /\ u \in Seq(S) /\ Len(u) = m + n
  OBVIOUS
<1>2. /\ DOMAIN s = 1..m /\ DOMAIN t = 1..n /\ DOMAIN u = 1..(m + n)
  <2>1. \A v \in Seq(S) : DOMAIN v = 1..Len(v)
    OBVIOUS
  <2> QED  BY <1>1, <2>1
<1>3. /\ \A i \in 1..m : u[i] = s[i] /\ i \in 1..(m + n)
      /\ \A i \in 1..(m + n) : i \notin 1..m => u[i] = t[i - m] /\ i - m \in 1..n
      /\ \A i \in 1..n : u[m + i] = t[i] /\ m + i \in 1..(m + n)
  BY <1>1
<1>4. /\ \A i \in 1..m : s[i] \in ToSet(s)
      /\ \A i \in 1..n : t[i] \in ToSet(t)
  BY <1>2 DEF ToSet
<1> HIDE DEF u, m, n
<1>5. IsInjective(u)
  <2> SUFFICES ASSUME NEW i \in 1..(m + n), NEW j \in 1..(m + n), u[i] = u[j]
               PROVE  i = j
    BY <1>2 DEF IsInjective
  <2>1. CASE i \in 1..m /\ j \in 1..m
    BY <1>2, <1>3, <2>1 DEF IsInjective
  <2>2. CASE i \in 1..m /\ j \notin 1..m
    BY <1>3, <1>4, <2>2
  <2>3. CASE i \notin 1..m /\ j \in 1..m
    BY <1>3, <1>4, <2>3
  <2>4. CASE i \notin 1..m /\ j \notin 1..m
    <3>1. i - m \in 1..n /\ j - m \in 1..n /\ t[i - m] = t[j - m]
      BY <1>3, <2>4
    <3>2. i - m = j - m
      BY <1>2, <3>1 DEF IsInjective
    <3> QED  BY <1>1, <3>2
  <2> QED  BY <2>1, <2>2, <2>3, <2>4
<1>6. ASSUME NEW x PROVE x \in ToSet(u) <=> x \in ToSet(s) \cup ToSet(t)
  <2>1. x \in ToSet(u) => x \in ToSet(s) \cup ToSet(t)
    <3> SUFFICES ASSUME NEW i \in 1..(m + n), x = u[i] PROVE x \in ToSet(s) \cup ToSet(t)
      BY <1>2 DEF ToSet
    <3> QED  BY <1>3, <1>4
  <2>2. x \in ToSet(s) => x \in ToSet(u)
    <3> SUFFICES ASSUME NEW i \in 1..m, x = s[i] PROVE x \in ToSet(u)
      BY <1>2 DEF ToSet
    <3> QED  BY <1>2, <1>3 DEF ToSet
  <2>3. x \in ToSet(t) => x \in ToSet(u)
    <3> SUFFICES ASSUME NEW i \in 1..n, x = t[i] PROVE x \in ToSet(u)
      BY <1>2 DEF ToSet
    <3> QED  BY <1>2, <1>3 DEF ToSet
  <2> QED  BY <2>1, <2>2, <2>3
<1> QED  BY <1>1, <1>5, <1>6 DEF u

LEMMA SliceIs ==
  ASSUME DiscoveryInv, NEW behind \in Nat
  PROVE  /\ Slice(behind) \subseteq 1..newest /\ Slice(behind) \subseteq 1..Rows
         /\ IsFiniteSet(Slice(behind)) /\ Cardinality(Slice(behind)) \in 0..Page
<1> DEFINE a == newest - behind
           I == (a - Page + 1)..a
<1>1. newest \in 0..Rows /\ Rows \in Nat /\ Page \in Nat /\ a \in Int
  BY DiscoveryAssumption DEF DiscoveryInv, DiscoveryTypeOK
<1>2. Slice(behind) \subseteq 1..newest /\ Slice(behind) \subseteq 1..Rows
  BY <1>1 DEF Slice
<1>3. Slice(behind) \subseteq I
  <2> SUFFICES ASSUME NEW r \in Slice(behind) PROVE r \in I
    OBVIOUS
  <2>1. r \in Int /\ a - Page < r /\ r <= a
    BY <1>1 DEF Slice
  <2> HIDE DEF a
  <2> QED  BY <1>1, <2>1
<1>4. IsFiniteSet(I) /\ Cardinality(I) = Page
  <2> HIDE DEF a
  <2>1. a - Page + 1 \in Int /\ (a - Page + 1 <= a \/ Page = 0)
    BY <1>1
  <2>2. /\ IsFiniteSet((a - Page + 1)..a)
        /\ Cardinality((a - Page + 1)..a) = IF a - Page + 1 > a THEN 0 ELSE a - (a - Page + 1) + 1
    BY <1>1, <2>1, FS_Interval
  <2> QED  BY <1>1, <2>1, <2>2
<1>5. IsFiniteSet(Slice(behind)) /\ Cardinality(Slice(behind)) <= Cardinality(I)
  BY <1>3, <1>4, FS_Subset
<1>6. Cardinality(Slice(behind)) \in Nat
  BY <1>5, FS_CardinalityType
<1> QED  BY <1>1, <1>2, <1>4, <1>5, <1>6

LEMMA AdmittedBound ==
  ASSUME NEW rows, IsFiniteSet(rows)
  PROVE  Admitted(rows) \in Nat /\ Admitted(rows) <= Cardinality(rows)
<1>1. {r \in rows : txOf[r] \in ToSet(groups') \ ToSet(groups)} \subseteq rows
  OBVIOUS
<1> QED  BY <1>1, FS_Subset, FS_CardinalityType DEF Admitted

\* The transactions of rows that have come are no newer than the newest row.
LEMMA GroupedIs ==
  ASSUME DiscoveryInv, NEW rows \in SUBSET (1..newest), NEW located
  PROVE  /\ groupByTx(rows, located) \subseteq 1..newest
         /\ admitted(groupByTx(rows, located)) \subseteq 1..newest
         /\ admitted(groupByTx(rows, located)) \cap ToSet(groups) = {}
         /\ 1..newest \subseteq 1..Rows
<1>1. newest \in 0..Rows /\ Rows \in Nat /\ 1..newest \subseteq 1..Rows
  BY DiscoveryAssumption DEF DiscoveryInv, DiscoveryTypeOK
<1>2. ASSUME NEW r \in OnChain(rows) PROVE txOf[r] \in 1..newest
  <2>1. r \in 1..newest /\ r \in 1..Rows /\ txOf[r] # 0
    BY <1>1 DEF OnChain, offchain
  <2>2. txOf[r] \in 0..Rows /\ txOf[r] <= r
    BY <2>1 DEF DiscoveryInv, DiscoveryTypeOK, offchain
  <2> QED  BY <1>1, <2>1, <2>2
<1>3. groupByTx(rows, located) \subseteq 1..newest
  BY <1>2 DEF groupByTx
<1> QED  BY <1>1, <1>3 DEF admitted

LEMMA AppendedPage ==
  ASSUME pageOf \in Seq(SUBSET (1..Rows)), NEW rows \in SUBSET (1..Rows),
         pageOf' = Append(pageOf, rows)
  PROVE  /\ pageOf' \in Seq(SUBSET (1..Rows)) /\ Len(pageOf') = Len(pageOf) + 1
         /\ Collected' = Collected \cup rows
         /\ pageOf = <<>> => First' = rows /\ Collected = {}
         /\ pageOf # <<>> => First' = First /\ First \subseteq Collected
<1>1. /\ pageOf' \in Seq(SUBSET (1..Rows)) /\ Len(pageOf') = Len(pageOf) + 1
      /\ Len(pageOf) \in Nat
  OBVIOUS
<1>2. /\ DOMAIN pageOf = 1..Len(pageOf) /\ DOMAIN pageOf' = 1..(Len(pageOf) + 1)
      /\ \A i \in 1..Len(pageOf) : pageOf'[i] = pageOf[i]
      /\ pageOf'[Len(pageOf) + 1] = rows
  BY <1>1
<1>3. ASSUME NEW p PROVE p \in ToSet(pageOf') <=> p \in ToSet(pageOf) \cup {rows}
  <2>1. \A i \in 1..(Len(pageOf) + 1) : i \in 1..Len(pageOf) \/ i = Len(pageOf) + 1
    BY <1>1
  <2>2. Len(pageOf) + 1 \in 1..(Len(pageOf) + 1) /\ 1..Len(pageOf) \subseteq 1..(Len(pageOf) + 1)
    BY <1>1
  <2>3. p \in ToSet(pageOf') <=> \E i \in 1..(Len(pageOf) + 1) : p = pageOf'[i]
    BY <1>2 DEF ToSet
  <2>4. p \in ToSet(pageOf) <=> \E i \in 1..Len(pageOf) : p = pageOf[i]
    BY <1>2 DEF ToSet
  <2> QED  BY <1>2, <2>1, <2>2, <2>3, <2>4
<1>4. Collected' = Collected \cup rows
  BY <1>3 DEF Collected
<1>5. pageOf = <<>> => First' = rows /\ Collected = {}
  <2> SUFFICES ASSUME pageOf = <<>> PROVE First' = rows /\ Collected = {}
    OBVIOUS
  <2>1. Head(pageOf') = rows /\ pageOf' # <<>>
    BY <1>1
  <2>2. ToSet(pageOf) = {}
    BY <1>2 DEF ToSet
  <2> QED  BY <2>1, <2>2 DEF First, Collected
<1>6. pageOf # <<>> => First' = First /\ First \subseteq Collected
  <2> SUFFICES ASSUME pageOf # <<>> PROVE First' = First /\ First \subseteq Collected
    OBVIOUS
  <2>1. Head(pageOf') = Head(pageOf) /\ pageOf' # <<>>
    BY <1>1
  <2>2. Head(pageOf) = pageOf[1] /\ 1 \in DOMAIN pageOf
    BY <1>1, <1>2
  <2> QED  BY <2>1, <2>2 DEF First, Collected, ToSet
<1> QED  BY <1>1, <1>4, <1>5, <1>6

\* The page that comes ends where the one before it began, or above.
LEMMA PageJoins ==
  ASSUME DiscoveryInv, PagesInv, pageOf' = Append(pageOf, Slice(skip)), skip' = skip + Page,
         newest' = newest
  PROVE  PagesInv'
<1>1. /\ newest \in 0..Rows /\ Rows \in Nat /\ Page \in Nat /\ skip \in Nat
      /\ pageOf \in Seq(SUBSET (1..Rows)) /\ Collected \subseteq 1..newest
      /\ pageOf = <<>> => skip = 0
  <2>1. /\ newest \in 0..Rows /\ skip \in Nat /\ skip = Page * Len(pageOf)
        /\ pageOf \in Seq(SUBSET (1..Rows)) /\ Collected \subseteq 1..newest
    BY DEF DiscoveryInv, DiscoveryTypeOK
  <2>2. Rows \in Nat /\ Page \in Nat
    BY DiscoveryAssumption
  <2> QED  BY <2>1, <2>2
<1>2. /\ Collected' = Collected \cup Slice(skip)
      /\ pageOf = <<>> => First' = Slice(skip) /\ Collected = {}
      /\ pageOf # <<>> => First' = First /\ First \subseteq Collected
      /\ Slice(skip) \subseteq 1..newest
  BY <1>1, SliceIs, AppendedPage
<1>3. \A v : v \in Slice(skip) <=> v \in 1..newest /\ newest - skip - Page < v /\ v <= newest - skip
  BY DEF Slice
<1>4. ASSUME NEW s \in First', NEW v \in 1..s, v > newest - skip'
      PROVE  v \in Collected'
  <2>1. s \in 1..newest /\ v \in 1..newest
    <3>1. s \in 1..newest
      BY <1>1, <1>2, <1>4
    <3> QED  BY <1>1, <1>4, <3>1
  <2>2. CASE pageOf = <<>>
    BY <1>1, <1>2, <1>3, <1>4, <2>1, <2>2
  <2>3. CASE pageOf # <<>> /\ v > newest - skip
    BY <1>2, <1>4, <2>3 DEF PagesInv
  <2>4. CASE pageOf # <<>> /\ ~(v > newest - skip)
    BY <1>1, <1>2, <1>3, <1>4, <2>1, <2>4
  <2> QED  BY <2>2, <2>3, <2>4
<1>5. ASSUME NEW r \in Collected', NEW s \in First', NEW v \in r..s
      PROVE  v \in Collected'
  <2>1. CASE r \in Slice(skip)
    <3>1. r \in 1..newest /\ r > newest - skip - Page /\ s \in 1..newest
      BY <1>1, <1>2, <1>3, <2>1
    <3>2. v \in 1..s /\ v > newest - skip'
      BY <1>1, <3>1
    <3> QED  BY <1>4, <3>2
  <2>2. CASE r \in Collected
    BY <1>2, <2>2 DEF PagesInv
  <2> QED  BY <1>2, <2>1, <2>2
<1> QED  BY <1>4, <1>5 DEF PagesInv

LEMMA SkipAdds ==
  ASSUME DiscoveryInv, ~Enough, skip' = skip + Page, Len(pageOf') = Len(pageOf) + 1
  PROVE  /\ skip' = Page * Len(pageOf') /\ Len(pageOf') <= MaxPages
         /\ Page + skip' <= Page + Page * MaxPages /\ skip' \in Nat
<1>1. /\ Page \in Nat /\ MaxPages \in Nat /\ Len(pageOf) \in Nat /\ skip = Page * Len(pageOf)
      /\ Len(pageOf) <= MaxPages /\ Len(pageOf) # MaxPages
  BY DiscoveryAssumption DEF DiscoveryInv, DiscoveryTypeOK, Enough
<1> DEFINE k == MaxPages - (Len(pageOf) + 1)
<1>2. k \in Nat /\ MaxPages = Len(pageOf) + 1 + k
  BY <1>1
<1> HIDE DEF k
<1>3. Page * MaxPages = Page * Len(pageOf) + Page + Page * k /\ Page * k \in Nat
  BY <1>1, <1>2
<1>4. Page * Len(pageOf') = Page * Len(pageOf) + Page
  BY <1>1
<1>5. Page * Len(pageOf) \in Nat
  BY <1>1
<1> QED  BY <1>1, <1>3, <1>4, <1>5

LEMMA SchemaKeeps ==
  ASSUME DiscoveryInv, SchemaRead
  PROVE  DiscoveryInv'
<1>1. /\ reader = "bench" /\ phase = "schemas" /\ phase' = "pages"
      /\ groups = <<>> /\ pageOf = <<>> /\ enough = 0
      /\ UNCHANGED <<reader, txOf, newest, head, skip, pageOf, anyFailed, known>>
  BY DEF SchemaRead, DiscoveryInv
<1>2. (reader' = "bench" /\ anyFailed') \/ PagesInv'
  BY <1>1 DEF DiscoveryInv, PagesInv, Collected, First
<1>3. /\ groups' \in Seq(1..Rows) /\ IsInjective(groups') /\ ToSet(groups') \subseteq 1..newest
      /\ enough' \in Nat /\ enough' <= Page
  <2>1. CASE UNCHANGED <<groups, enough>>
    BY <1>1, <2>1, DiscoveryAssumption DEF DiscoveryInv, DiscoveryTypeOK
  <2>2. CASE ~UNCHANGED <<groups, enough>>
    <3>1. PICK rows \in SUBSET (1..newest) :
            /\ Cardinality(rows) = Page
            /\ groups' \in SetToSeqs(admitted(groupByTx(rows, 1..Rows)))
            /\ enough' = Admitted(rows)
      BY <2>2 DEF SchemaRead
    <3>2. /\ admitted(groupByTx(rows, 1..Rows)) \subseteq 1..newest
          /\ 1..newest \subseteq 1..Rows
      BY GroupedIs
    <3>3. IsFiniteSet(1..newest)
      BY FS_Interval, DiscoveryAssumption DEF DiscoveryInv, DiscoveryTypeOK
    <3>4. IsFiniteSet(admitted(groupByTx(rows, 1..Rows))) /\ IsFiniteSet(rows)
      BY <3>2, <3>3, FS_Subset
    <3>5. /\ groups' \in Seq(admitted(groupByTx(rows, 1..Rows))) /\ IsInjective(groups')
          /\ ToSet(groups') = admitted(groupByTx(rows, 1..Rows))
      BY <3>1, <3>4, ListingInjective
    <3>6. ToSet(groups') \subseteq 1..newest /\ ToSet(groups') \subseteq 1..Rows
      BY <3>2, <3>5
    <3>7. groups' \in Seq(1..Rows)
      BY <3>5, <3>6, Retype
    <3> QED  BY <3>1, <3>4, <3>5, <3>6, <3>7, AdmittedBound
  <2> QED  BY <2>1, <2>2
<1>4. Page * MaxPages \in Nat /\ skip \in Nat /\ Page \in Nat
  BY DiscoveryAssumption DEF DiscoveryInv
<1>5. enough' <= Page + Page * MaxPages /\ enough' <= Page + skip
  BY <1>3, <1>4
<1>6. DiscoveryTypeOK'
  BY <1>1, <1>3, <1>5 DEF DiscoveryInv, DiscoveryTypeOK, Collected
<1> QED  BY <1>1, <1>2, <1>3, <1>5, <1>6 DEF DiscoveryInv

LEMMA PageKept ==
  ASSUME DiscoveryInv, PageRead
  PROVE  DiscoveryInv'
<1> DEFINE S == Slice(skip)
<1>1. /\ phase = "pages" /\ ~Enough /\ pageOf' = Append(pageOf, S) /\ skip' = skip + Page
      /\ UNCHANGED <<reader, phase, txOf, newest, head, anyFailed, known>>
  BY DEF PageRead
<1>2. /\ S \subseteq 1..newest /\ S \subseteq 1..Rows /\ IsFiniteSet(S)
      /\ Cardinality(S) \in Nat /\ Cardinality(S) <= Page /\ Page \in Nat
  <2>1. skip \in Nat /\ Page \in Nat
    BY DiscoveryAssumption DEF DiscoveryInv
  <2> QED  BY <2>1, SliceIs
<1>3. /\ pageOf' \in Seq(SUBSET (1..Rows)) /\ Len(pageOf') = Len(pageOf) + 1
      /\ Collected' = Collected \cup S
  BY <1>1, <1>2, AppendedPage DEF DiscoveryInv
<1>4. /\ skip' = Page * Len(pageOf') /\ Len(pageOf') <= MaxPages
      /\ Page + skip' <= Page + Page * MaxPages /\ skip' \in Nat
  BY <1>1, <1>3, SkipAdds
<1>5. (reader' = "bench" /\ anyFailed') \/ PagesInv'
  BY <1>1, PageJoins DEF DiscoveryInv
<1>6. /\ groups' \in Seq(1..Rows) /\ IsInjective(groups') /\ ToSet(groups') \subseteq 1..newest
  <2>1. CASE reader = "bench"
    <3>1. PICK located \in SUBSET {txOf[r] : r \in S} :
            groups' = groups \o newestFirst(admitted(groupByTx(S, located)))
      BY <2>1 DEF PageRead
    <3> DEFINE new == admitted(groupByTx(S, located))
    <3>2. new \subseteq 1..newest /\ new \subseteq 1..Rows /\ new \cap ToSet(groups) = {}
      BY <1>2, GroupedIs
    <3> HIDE DEF new
    <3>3. /\ newestFirst(new) \in Seq(1..Rows) /\ ToSet(newestFirst(new)) = new
          /\ IsInjective(newestFirst(new))
      BY <3>2, NewestInjective
    <3>4. groups \in Seq(1..Rows) /\ IsInjective(groups) /\ ToSet(groups) \subseteq 1..newest
      BY DEF DiscoveryInv, DiscoveryTypeOK
    <3>5. /\ groups \o newestFirst(new) \in Seq(1..Rows) /\ IsInjective(groups \o newestFirst(new))
          /\ ToSet(groups \o newestFirst(new)) = ToSet(groups) \cup new
      BY <3>2, <3>3, <3>4, InjectiveOn
    <3> QED  BY <3>1, <3>2, <3>4, <3>5 DEF new
  <2>2. CASE reader # "bench"
    BY <2>2 DEF PageRead, DiscoveryInv, DiscoveryTypeOK
  <2> QED  BY <2>1, <2>2
<1>7. enough' \in Nat /\ enough' <= enough + Page
  <2>1. CASE reader = "bench"
    <3>1. enough' = enough + Admitted(S)
      BY <2>1 DEF PageRead
    <3>2. Admitted(S) \in Nat /\ Admitted(S) <= Cardinality(S)
      BY <1>2, AdmittedBound
    <3> QED  BY <1>2, <3>1, <3>2 DEF DiscoveryInv
  <2>2. CASE reader # "bench"
    <3>1. enough' = enough + Cardinality(OnChain(S))
      BY <2>2 DEF PageRead
    <3>2. Cardinality(OnChain(S)) \in Nat /\ Cardinality(OnChain(S)) <= Cardinality(S)
      <4>1. OnChain(S) \subseteq S
        BY DEF OnChain
      <4> QED  BY <1>2, <4>1, FS_Subset, FS_CardinalityType
    <3> QED  BY <1>2, <3>1, <3>2 DEF DiscoveryInv
  <2> QED  BY <2>1, <2>2
<1> HIDE DEF S
<1>8. enough' <= Page + skip' /\ enough' <= Page + Page * MaxPages
  <2>1. enough' <= Page + skip'
    BY <1>1, <1>2, <1>7 DEF DiscoveryInv
  <2>2. Page * MaxPages \in Nat
    BY DiscoveryAssumption
  <2> QED  BY <1>2, <1>4, <1>7, <2>1, <2>2
<1>9. DiscoveryTypeOK'
  BY <1>1, <1>2, <1>3, <1>4, <1>6, <1>8 DEF DiscoveryInv, DiscoveryTypeOK
<1> QED  BY <1>1, <1>3, <1>4, <1>5, <1>6, <1>7, <1>8, <1>9 DEF DiscoveryInv

LEMMA FailureKeeps ==
  ASSUME DiscoveryInv, PageFails
  PROVE  DiscoveryInv'
<1>1. /\ phase = "pages" /\ ~Enough /\ anyFailed' = TRUE
      /\ UNCHANGED <<reader, txOf, newest, head, enough, groups, known>>
  BY DEF PageFails
<1>2. CASE reader = "bench"
  <2>1. skip' = skip + Page /\ pageOf' = Append(pageOf, {}) /\ phase' = phase
    BY <1>2 DEF PageFails
  <2>2. /\ pageOf' \in Seq(SUBSET (1..Rows)) /\ Len(pageOf') = Len(pageOf) + 1
        /\ Collected' = Collected \cup {}
    BY <2>1, AppendedPage DEF DiscoveryInv
  <2>3. /\ skip' = Page * Len(pageOf') /\ Len(pageOf') <= MaxPages /\ skip' \in Nat
    BY <1>1, <2>1, <2>2, SkipAdds
  <2>4. enough <= Page + skip'
    BY <2>1, DiscoveryAssumption DEF DiscoveryInv
  <2>5. DiscoveryTypeOK'
    BY <1>1, <2>1, <2>2, <2>3 DEF DiscoveryInv, DiscoveryTypeOK
  <2> QED  BY <1>1, <1>2, <2>1, <2>2, <2>3, <2>4, <2>5 DEF DiscoveryInv
<1>3. CASE reader # "bench"
  <2>1. phase' = "hydrate" /\ UNCHANGED <<skip, pageOf>>
    BY <1>3 DEF PageFails
  <2>2. PagesInv'
    BY <1>1, <1>3, <2>1 DEF DiscoveryInv, PagesInv, Collected, First
  <2>3. DiscoveryTypeOK'
    BY <1>1, <2>1 DEF DiscoveryInv, DiscoveryTypeOK, Collected
  <2> QED  BY <1>1, <2>1, <2>2, <2>3 DEF DiscoveryInv
<1> QED  BY <1>2, <1>3

\* The pages stand, and the transactions to mirror are listed anew.
LEMMA ListedKeeps ==
  ASSUME DiscoveryInv, Hydrated \/ Skipped
  PROVE  DiscoveryInv'
<1>1. /\ phase' \in {"dedupe", "end"}
      /\ UNCHANGED <<reader, txOf, newest, head, readVars, anyFailed, known>>
  BY DEF Hydrated, Skipped
<1>2. /\ Collected \subseteq 1..newest /\ ToSet(groups) \subseteq 1..newest
      /\ 1..newest \subseteq 1..Rows
  <2>1. Collected \subseteq 1..newest /\ ToSet(groups) \subseteq 1..newest
    BY DEF DiscoveryInv, DiscoveryTypeOK
  <2> QED  BY <2>1, GroupedIs
<1>3. PICK txs \in SUBSET (1..newest) : groups' = newestFirst(txs)
  <2>1. CASE Hydrated
    <3>1. PICK located \in SUBSET {txOf[r] : r \in Collected} :
            groups' = newestFirst(IF reader = "worker" THEN admitted(groupByTx(Collected, located))
                                                       ELSE groupByTx(Collected, located))
      BY <2>1 DEF Hydrated
    <3>2. /\ groupByTx(Collected, located) \subseteq 1..newest
          /\ admitted(groupByTx(Collected, located)) \subseteq 1..newest
      BY <1>2, GroupedIs
    <3> QED  BY <3>1, <3>2
  <2>2. CASE Skipped
    BY <1>2, <2>2 DEF Skipped
  <2> QED  BY <2>1, <2>2
<1>4. /\ groups' \in Seq(1..Rows) /\ IsInjective(groups') /\ ToSet(groups') \subseteq 1..newest
  <2>1. txs \in SUBSET (1..Rows)
    BY <1>2
  <2> QED  BY <1>3, <2>1, NewestInjective
<1>5. (reader' = "bench" /\ anyFailed') \/ PagesInv'
  BY <1>1 DEF DiscoveryInv, PagesInv, Collected, First, readVars
<1>6. DiscoveryTypeOK'
  BY <1>1, <1>4 DEF DiscoveryInv, DiscoveryTypeOK, Collected, readVars
<1> QED  BY <1>1, <1>4, <1>5, <1>6 DEF DiscoveryInv, readVars

LEMMA OthersKeep ==
  ASSUME DiscoveryInv, PagesEnd \/ RowAdded \/ QueryApplied \/ UNCHANGED discoveryVars
  PROVE  DiscoveryInv'
<1>1. /\ UNCHANGED <<reader, txOf, head, readVars, groups, anyFailed>>
      /\ (phase' = phase \/ phase' \in {"end", "hydrate"})
      /\ newest' \in 0..Rows /\ newest' >= newest /\ newest \in Nat
      /\ known' \subseteq 1..newest
  <2>1. newest \in 0..Rows /\ Rows \in Nat /\ known \subseteq 1..newest
    BY DiscoveryAssumption DEF DiscoveryInv, DiscoveryTypeOK
  <2>2. CASE PagesEnd
    BY <2>1, <2>2 DEF PagesEnd
  <2>5. CASE UNCHANGED discoveryVars
    BY <2>1, <2>5 DEF discoveryVars
  <2>3. CASE RowAdded
    BY <2>1, <2>3 DEF RowAdded
  <2>4. CASE QueryApplied
    <3>1. PICK r \in OnChain(1..newest) : known' = known \cup {txOf[r]}
      BY <2>4 DEF QueryApplied
    <3>2. r \in 1..newest /\ r \in 1..Rows /\ txOf[r] # 0
      BY <2>1 DEF OnChain, offchain
    <3>3. txOf[r] \in 0..Rows /\ txOf[r] <= r
      BY <3>2 DEF DiscoveryInv, DiscoveryTypeOK, offchain
    <3>4. txOf[r] \in 1..newest
      BY <2>1, <3>2, <3>3
    <3>5. known' \subseteq 1..newest
      BY <2>1, <3>1, <3>4
    <3>6. UNCHANGED <<reader, phase, txOf, newest, head, readVars, groups, anyFailed>>
      BY <2>4 DEF QueryApplied
    <3> QED  BY <2>1, <3>5, <3>6
  <2> QED  BY <2>2, <2>3, <2>4, <2>5
<1>2. 1..newest \subseteq 1..newest'
  BY <1>1, DiscoveryAssumption
<1>3. Collected' = Collected /\ First' = First
  BY <1>1 DEF Collected, First, readVars
<1>4. PagesInv => PagesInv'
  <2> SUFFICES ASSUME PagesInv, NEW s \in First, NEW v \in 1..s, v > newest' - skip
               PROVE  v \in Collected
    BY <1>1, <1>3 DEF PagesInv, readVars
  <2>1. First \subseteq 1..newest
    <3>1. First \subseteq Collected
      <4>1. pageOf \in Seq(SUBSET (1..Rows))
        BY DEF DiscoveryInv
      <4>2. pageOf # <<>> => Head(pageOf) = pageOf[1] /\ 1 \in DOMAIN pageOf
        BY <4>1
      <4> QED  BY <4>2 DEF First, Collected, ToSet
    <3> QED  BY <3>1 DEF DiscoveryInv, DiscoveryTypeOK
  <2>2. v > newest - skip
    <3>1. s \in 1..newest /\ newest \in Nat /\ skip \in Nat
      BY <1>1, <2>1 DEF DiscoveryInv
    <3>2. v \in Int /\ newest' \in Int
      BY <1>1, <3>1, DiscoveryAssumption
    <3>3. newest' >= newest /\ v > newest' - skip
      BY <1>1
    <3>4. \A x, y, z, w \in Int : x > y - w /\ y >= z => x > z - w
      OBVIOUS
    <3>5. skip \in Int /\ newest \in Int
      BY <3>1
    <3> QED  BY <3>2, <3>3, <3>4, <3>5, Zenon
  <2> QED  BY <2>2 DEF PagesInv
<1>5. DiscoveryTypeOK'
  BY <1>1, <1>2, <1>3 DEF DiscoveryInv, DiscoveryTypeOK, readVars
<1> QED  BY <1>1, <1>4, <1>5 DEF DiscoveryInv, readVars

LEMMA DiscoveryKeeps ==
  ASSUME DiscoveryInv, [DiscoveryNext]_discoveryVars
  PROVE  DiscoveryInv'
BY SchemaKeeps, PageKept, FailureKeeps, ListedKeeps, OthersKeep DEF DiscoveryNext, DiscoveryStep

LEMMA DiscoveryStarts ==
  ASSUME DiscoveryInit \/ DiscoveryOff
  PROVE  DiscoveryInv
<1>1. /\ skip = 0 /\ pageOf = <<>> /\ enough = 0 /\ groups = <<>> /\ anyFailed = FALSE /\ known = {}
      /\ reader \in {"off", "worker", "bench", "schema"} /\ phase \in {"schemas", "pages", "end"}
  BY DEF DiscoveryInit, DiscoveryOff, DiscoveryStart
<1>2. Rows \in Nat \ {0} /\ Page \in Nat \ {0} /\ MaxPages \in Nat /\ Page * MaxPages \in Nat
  BY DiscoveryAssumption
<1>3. newest \in 0..Rows /\ head \in 1..Rows /\ txOf \in [1..Rows -> offchain..Rows]
  BY <1>2 DEF DiscoveryInit, DiscoveryOff, offchain
<1>4. \A r \in 1..Rows : txOf[r] <= r
  <2>1. CASE DiscoveryInit
    <3>1. \A r \in 1..Rows :
            txOf[r] \in {offchain, r} \cup (IF r = 1 THEN {} ELSE {txOf[r - 1]})
      BY <2>1 DEF DiscoveryInit
    <3> DEFINE N == {n \in Nat : n \in 1..Rows => txOf[n] <= n}
    <3>2. 0 \in N
      OBVIOUS
    <3>3. ASSUME NEW n \in Nat, n \in N PROVE n + 1 \in N
      <4> SUFFICES ASSUME n + 1 \in 1..Rows PROVE txOf[n + 1] <= n + 1
        OBVIOUS
      <4>1. CASE n = 0
        BY <1>2, <3>1, <4>1 DEF offchain
      <4>2. CASE n # 0
        <5>1. n \in 1..Rows /\ (n + 1) - 1 = n
          BY <1>2, <4>2
        <5>2. txOf[n + 1] = 0 \/ txOf[n + 1] = n + 1 \/ txOf[n + 1] = txOf[n]
          BY <3>1, <4>2, <5>1 DEF offchain
        <5>3. txOf[n] <= n /\ txOf[n] \in 0..Rows
          BY <1>3, <3>3, <5>1 DEF offchain
        <5> QED  BY <1>2, <5>2, <5>3
      <4> QED  BY <4>1, <4>2
    <3> HIDE DEF N
    <3>4. Nat \subseteq N
      BY <3>2, <3>3, SetInduction
    <3> QED  BY <1>2, <3>4 DEF N
  <2>2. CASE DiscoveryOff
    BY <1>2, <2>2 DEF DiscoveryOff, offchain
  <2> QED  BY <2>1, <2>2
<1>5. Collected = {} /\ First = {} /\ ToSet(<<>>) = {} /\ IsInjective(<<>>)
  BY <1>1 DEF Collected, First, ToSet, IsInjective
<1>6. /\ Len(pageOf) = 0 /\ Page * Len(pageOf) = 0
      /\ <<>> \in Seq(SUBSET (1..Rows)) /\ <<>> \in Seq(1..Rows)
  BY <1>1, <1>2
<1>7. DiscoveryTypeOK
  BY <1>1, <1>2, <1>3, <1>5, <1>6 DEF DiscoveryTypeOK
<1>8. PagesInv
  BY <1>5 DEF PagesInv
<1> QED  BY <1>1, <1>2, <1>4, <1>5, <1>6, <1>7, <1>8 DEF DiscoveryInv

LEMMA DiscoveryFollows ==
  ASSUME DiscoveryInv
  PROVE  DiscoveryTypeOK /\ PagesLeaveNoHole
BY DEF DiscoveryInv, PagesLeaveNoHole, PagesInv

-----------------------------------------------------------------------------
\* A mirroring that says mirrored or already mirrored names a query the registry has
\* applied, of the transaction it has proved (packages/sdk/src/mirror.ts, mirror, and
\* web/src/lib/mirror.ts): in spite of lost replies, timeouts, reorganisations before
\* the attestation, other submitters and submissions executed late.
THEOREM ClaimsHold == Spec => []ClaimsAreTrue
<1>1. Init => ClientInv
  BY ClientStarts DEF Init
<1>2. ClientInv /\ [Next]_vars => ClientInv'
  <2> SUFFICES ASSUME ClientInv, [Next]_vars PROVE ClientInv'
    OBVIOUS
  <2>1. [ClientNext]_clientVars
    BY DEF Next, vars
  <2> QED  BY <2>1, ClientKeepsClaims
<1>3. ClientInv => ClaimsAreTrue
  BY DEF ClientInv
<1> QED  BY <1>1, <1>2, <1>3, PTL DEF Spec

\* The callback of the SDK and the page of the browser go through the stages in order
\* (packages/sdk/src/mirror.ts, onProgress, and web/src/lib/mirror.ts, emit): none comes back, after
\* whatever wait, retry or failure.
THEOREM StagesGoOn == Spec => StagesAreInOrder
<1>1. Init => StageInv /\ ClientInv
  BY StageStarts, ClientStarts DEF Init
<1>2. StageInv /\ ClientInv /\ [Next]_vars => (StageInv /\ ClientInv)' /\ Forward
  <2> SUFFICES ASSUME StageInv, ClientInv, [Next]_vars
               PROVE  (StageInv /\ ClientInv)' /\ Forward
    OBVIOUS
  <2>1. [ClientNext]_clientVars
    BY DEF Next, vars
  <2> QED  BY <2>1, StageKeeps, ClientKeepsClaims
<1>3. Forward => [Rank(shown) <= Rank(shown')]_shown
  BY DEF Forward
<1> QED  BY <1>1, <1>2, <1>3, PTL DEF Spec, StagesAreInOrder

\* The batches are disjoint, in the order of the blocks, no larger and no longer than
\* planBatches allows, and none could take the first transaction of the next one
\* (web/src/lib/batch.ts, planBatches), however many there are and however far apart.
THEOREM BatchesPack == Spec => []BatchesArePacked
<1>1. Init => PlanInv /\ TallyInv
  BY BatchStarts DEF Init
<1>2. PlanInv /\ TallyInv /\ [Next]_vars => (PlanInv /\ TallyInv)'
  <2> SUFFICES ASSUME PlanInv /\ TallyInv, [Next]_vars PROVE (PlanInv /\ TallyInv)'
    OBVIOUS
  <2>1. [BatchNext]_batchVars
    BY DEF Next, vars
  <2> QED  BY <2>1, PlanKept, TallyKeeps
<1>3. PlanInv /\ TallyInv => BatchesArePacked
  BY DEF PlanInv
<1> QED  BY <1>1, <1>2, <1>3, PTL DEF Spec

\* Unless the visitor has left, what a batch run counts as mirrored is in the registry
\* (web/src/lib/batch.ts, runSchemaMirror), whatever fails on the way and whatever others
\* mirror.
THEOREM CountsAreTrue == Spec => []CountedIsMirrored
<1>1. Init => PlanInv /\ TallyInv
  BY BatchStarts DEF Init
<1>2. PlanInv /\ TallyInv /\ [Next]_vars => (PlanInv /\ TallyInv)'
  <2> SUFFICES ASSUME PlanInv /\ TallyInv, [Next]_vars PROVE (PlanInv /\ TallyInv)'
    OBVIOUS
  <2>1. [BatchNext]_batchVars
    BY DEF Next, vars
  <2> QED  BY <2>1, PlanKept, TallyKeeps
<1>3. PlanInv /\ TallyInv => CountedIsMirrored
  BY DEF TallyInv
<1> QED  BY <1>1, <1>2, <1>3, PTL DEF Spec

\* The rows on the page are all the events of the range it has scanned, newest first, but
\* for those a limit cut off; and a look-up that has come to the floor has not passed over
\* its event (web/src/lib/registry.ts, scanMirrorEvents): for every window, limit and number
\* of blocks, and whatever scan of an earlier filter comes back late.
THEOREM ScanHasNoGap == Spec => []ScanLeavesNoGap
<1>1. Init => ScanInv
  BY ScanStarts DEF Init
<1>2. ScanInv /\ [Next]_vars => ScanInv'
  <2> SUFFICES ASSUME ScanInv, [Next]_vars PROVE ScanInv'
    OBVIOUS
  <2>1. [ScanNext]_scanVars
    BY DEF Next, vars
  <2> QED  BY <2>1, ScanKeeps
<1>3. ScanInv => ScanLeavesNoGap
  BY ScanFollows
<1> QED  BY <1>1, <1>2, <1>3, PTL DEF Spec

\* The offset pages over a list that grows in front of them leave no hole between the first
\* page and the oldest row read, unless the bench passed over a failed page; and no
\* transaction is handed over twice (worker/src/index.ts, bench/src/index.ts,
\* packages/sdk/src/eas.ts): for every page size and number of new rows.
THEOREM PagesHaveNoHole == Spec => []PagesLeaveNoHole
<1>1. Init => DiscoveryInv
  BY DiscoveryStarts DEF Init
<1>2. DiscoveryInv /\ [Next]_vars => DiscoveryInv'
  <2> SUFFICES ASSUME DiscoveryInv, [Next]_vars PROVE DiscoveryInv'
    OBVIOUS
  <2>1. [DiscoveryNext]_discoveryVars
    BY DEF Next, vars
  <2> QED  BY <2>1, DiscoveryKeeps
<1>3. DiscoveryInv => PagesLeaveNoHole
  BY DiscoveryFollows
<1> QED  BY <1>1, <1>2, <1>3, PTL DEF Spec

\* A verification passes no snapshot that was stale before it began and calls nothing
\* admissible that was revoked by then; undisturbed, it passes what agrees and, but for
\* the SDK's revoked ones, all that agrees (packages/sdk/src/verify.ts, web/src/lib/verify.ts).
THEOREM VerdictHolds == Spec => []VerdictIsSound
<1>1. Init => VerifyInv /\ Judged
  BY VerifyStarts DEF Init
<1>2. VerifyInv /\ Judged /\ [Next]_vars => (VerifyInv /\ Judged)'
  <2> SUFFICES ASSUME VerifyInv /\ Judged, [Next]_vars PROVE (VerifyInv /\ Judged)'
    OBVIOUS
  <2>1. [VerifyNext]_verifyVars
    BY DEF Next, vars
  <2> QED  BY <2>1, VerifyKeeps
<1>3. VerifyInv /\ Judged => VerdictIsSound
  BY VerdictFollows
<1> QED  BY <1>1, <1>2, <1>3, PTL DEF Spec

\* Every variable of the programs holds a value of its kind.
THEOREM ClientsTypeCorrect == Spec => []TypeOK
<1> DEFINE Checked == VerifyInv /\ Judged /\ VerifyTypeOK
           Others == PlanInv /\ TallyInv /\ ScanInv /\ DiscoveryInv /\ ReceiptsTypeOK
           Inv == StageInv /\ ClientInv /\ Checked /\ Others
<1>1. Init => Inv
  BY StageStarts, ClientStarts, VerifyStarts, VerifyTypesStart, BatchStarts, ScanStarts,
     DiscoveryStarts, ReceiptsTypesStart DEF Init
<1>2. Inv /\ [Next]_vars => Inv'
  <2> SUFFICES ASSUME Inv, [Next]_vars PROVE Inv'
    OBVIOUS
  <2>1. /\ [ClientNext]_clientVars /\ [BatchNext]_batchVars /\ [ScanNext]_scanVars
        /\ [DiscoveryNext]_discoveryVars /\ [VerifyNext]_verifyVars
        /\ [ReceiptsNext]_receiptsVars
    BY DEF Next, vars
  <2>2. (StageInv /\ ClientInv)'
    BY <2>1, StageKeeps, ClientKeepsClaims
  <2>3. Checked'
    BY <2>1, VerifyKeeps, VerifyTypesKept
  <2>4. Others'
    BY <2>1, PlanKept, TallyKeeps, ScanKeeps, DiscoveryKeeps, ReceiptsTypesKept
  <2> QED  BY <2>2, <2>3, <2>4
<1>3. Inv => TypeOK
  BY ScanFollows, DiscoveryFollows DEF TypeOK, StageInv, PlanInv
<1> QED  BY <1>1, <1>2, <1>3, PTL DEF Spec
=============================================================================
