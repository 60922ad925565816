------------------------- MODULE MirrorLanes_proofs -------------------------
(***************************************************************************)
(* Proofs about the programs that mirror many transactions from one        *)
(* wallet, for any list, any number of lanes and any number of kills: the  *)
(* reports are true, every group is accounted for, and until something is  *)
(* disturbed the nonces in flight leave no gap.                            *)
(***************************************************************************)
EXTENDS MirrorLanes, DataLemmas

-----------------------------------------------------------------------------
(* The invariant *)

RunTypes ==
  /\ program \in Programs /\ N \in 1..MaxGroups
  /\ cuts \subseteq 1..(N - 1) /\ (program # "batch" => cuts = {})
  /\ disturbed \in BOOLEAN /\ kills \in 0..MaxKills

LaneTypes ==
  /\ pc \in [1..Width -> Stages]
  /\ item \in [1..Width -> 0..N] /\ nonce \in [1..Width -> Nat \cup {NO_NONCE}]

ListTypes ==
  /\ stage \in {"attest", "shared", "lanes", "over"}
  /\ from \in 1..(N + 1) /\ idx \in 1..(N + 1) /\ limit \in 0..N
  /\ result \in [Groups -> Results \cup {"none"}] /\ lost \subseteq Groups

ChainTypes ==
  /\ mined \in Nat
  /\ DOMAIN pool \subseteq Nat /\ IsFiniteSet(DOMAIN pool)
  /\ \A n \in DOMAIN pool : pool[n] \in [query: Groups, waiting: SUBSET Lanes]
  /\ processed \in SUBSET Groups

\* Where the list is: only a batch that has begun has groups in lanes, and the groups
\* before idx are those that have been given to one.
ListInv ==
  /\ from <= idx /\ idx <= batchEnd + 1 /\ limit <= batchEnd
  /\ stage \in {"attest", "shared"} => program = "batch" /\ idx = from
  /\ stage # "over" => from <= N
  /\ stage = "over" /\ lost = {} => idx = N + 1
  /\ stage # "lanes" => AllIdle

\* A lane that died has lost its group.
DeadInv == \A l \in Lanes : pc[l] = "dead" => program # "batch" /\ item[l] \in lost

\* The lanes at work have each a group of its own, that nobody else answers for.
AtWork == Stages \ {"free", "dead"}
Busy == Awaiting(AtWork)

AccountInv ==
  /\ \A l \in Busy : item[l] \in 1..(idx - 1) /\ result[item[l]] = "none" /\ item[l] \notin lost
  /\ \A l, m \in Busy : item[l] = item[m] => l = m
  /\ \A g \in 1..(idx - 1) : result[g] = "none" /\ g \notin lost => \E l \in Busy : item[l] = g
  /\ \A g \in idx..N : result[g] = "none" /\ g \notin lost

\* A lane about to report success holds a group that is retired.
AnswerInv ==
  /\ ResultsAreTrue
  /\ \A l \in Lanes : pc[l] \in {"receipt", "refused"} => item[l] \in processed

\* Whoever the node's pool knows to wait for a transaction is at its await, with the
\* group and the nonce of that transaction.
PoolInv ==
  \A n \in DOMAIN pool : \A l \in pool[n].waiting :
    pc[l] = "wait" /\ item[l] = pool[n].query /\ nonce[l] = n

\* Before the first read has answered nothing has been sent; after it the lanes in
\* flight hold exactly the nonces from the account's to the allocator's, and the
\* pool holds the transactions of those that wait.
Untouched == mined = 0 /\ DOMAIN pool = {} /\ InFlight = {} /\ read \in {NO_READ, ASKED, 0}

Filled ==
  /\ read = NO_READ /\ mined <= next
  /\ \A l \in InFlight : nonce[l] \in mined..(next - 1)
  /\ \A l, m \in InFlight : nonce[l] = nonce[m] => l = m
  /\ mined..(next - 1) \subseteq {nonce[l] : l \in InFlight}
  /\ \A l \in Lanes : pc[l] = "wait" => nonce[l] \in DOMAIN pool /\ l \in pool[nonce[l]].waiting
  /\ \A n \in DOMAIN pool : \E l \in Lanes : pc[l] = "wait" /\ nonce[l] = n

QuietInv == ~disturbed => IF next = UNKNOWN THEN Untouched ELSE Filled

TypeInv == AllocatorTypeOK /\ RunTypes /\ LaneTypes /\ ListTypes /\ ChainTypes
IInv == TypeInv /\ ListInv /\ DeadInv /\ AccountInv /\ AnswerInv /\ PoolInv /\ QuietInv

-----------------------------------------------------------------------------
(* What the steps have in common *)

\* The smallest number that closes a batch from f on.
LEMMA LeastCut ==
  ASSUME NEW n \in Nat \ {0}, NEW C, C \subseteq 1..(n - 1), NEW f \in Nat \ {0}
  PROVE  /\ Min({n} \cup {c \in C : c >= f}) \in 1..n
         /\ f <= n => f <= Min({n} \cup {c \in C : c >= f})
         /\ n < f => Min({n} \cup {c \in C : c >= f}) = n
<1> DEFINE S == {n} \cup {c \in C : c >= f}
           e == Min(S)
<1>1. S \subseteq Nat /\ S # {}
  <2>1. n \in Nat /\ C \subseteq Nat
    OBVIOUS
  <2> QED  BY <2>1, Zenon
<1>2. \E x \in S : \A y \in S : x <= y
  <2> HIDE DEF S
  <2> QED  BY <1>1, LeastNat
<1>3. e \in S
  <2> HIDE DEF S
  <2> QED  BY <1>2 DEF Min
<1>4. e \in 1..n /\ (f <= n => f <= e) /\ (n < f => e = n)
  <2> HIDE DEF e
  <2> QED  BY <1>3
<1> QED  BY <1>4, Zenon

LEMMA BatchEndFrom ==
  ASSUME N \in Nat \ {0}, cuts \subseteq 1..(N - 1)
  PROVE  \A f \in Nat \ {0} :
           LET e == Min({N} \cup {c \in cuts : c >= f})
           IN  e \in 1..N /\ (f <= N => f <= e) /\ (N < f => e = N)
<1> SUFFICES ASSUME NEW f \in Nat \ {0}
             PROVE  /\ Min({N} \cup {c \in cuts : c >= f}) \in 1..N
                    /\ f <= N => f <= Min({N} \cup {c \in cuts : c >= f})
                    /\ N < f => Min({N} \cup {c \in cuts : c >= f}) = N
  BY Zenon
<1> QED  BY LeastCut

LEMMA BatchEndIs ==
  ASSUME RunTypes, ListTypes
  PROVE  /\ batchEnd \in 1..N /\ (from <= N => from <= batchEnd)
<1>1. N \in Nat \ {0} /\ cuts \subseteq 1..(N - 1) /\ from \in Nat \ {0}
  BY LanesAssumption DEF RunTypes, ListTypes
<1> QED  BY <1>1, LeastCut, Zenon DEF batchEnd

\* The list of a program that knows no batches is one.
LEMMA OneBatch ==
  ASSUME cuts = {}
  PROVE  batchEnd = N
<1>1. {N} \cup {c \in cuts : c >= from} = {N}
  OBVIOUS
<1>2. batchEnd = CHOOSE x \in {N} : \A y \in {N} : x =< y
  BY <1>1, Zenon DEF batchEnd, Min
<1> QED  BY <1>2

LEMMA SomeLanes == Lanes \subseteq 1..Width /\ Lanes # {} /\ 1 \in Lanes /\ IsFiniteSet(Lanes)
<1>1. Lanes \subseteq 1..Width /\ 1 \in Lanes
  BY LanesAssumption DEF Lanes
<1>2. IsFiniteSet(1..Width)
  BY LanesAssumption, FS_Interval
<1> QED  BY <1>1, <1>2, FS_Subset

LEMMA SameRun ==
  ASSUME UNCHANGED <<program, N, cuts>>
  PROVE  Lanes' = Lanes /\ Groups' = Groups /\ (from' = from => batchEnd' = batchEnd)
BY DEF Lanes, Groups, batchEnd

\* Lanes go on with their groups, or end with them: reported or lost.
LEMMA LanesKeepBooks ==
  ASSUME ListInv, DeadInv, AccountInv, NEW ls \in SUBSET Busy,
         UNCHANGED <<program, N, cuts, from, idx, limit>>,
         \A l \in ls : /\ pc'[l] \in {"free", "dead"}
                       /\ pc'[l] = "dead" => program # "batch" /\ item'[l] \in lost',
         \A l \in Lanes \ ls :
           /\ item'[l] = item[l]
           /\ pc'[l] = pc[l] \/ (l \in Busy /\ pc'[l] \in AtWork),
         lost \subseteq lost',
         \A g \in Groups : result'[g] = "none" /\ g \notin lost' <=>
           result[g] = "none" /\ g \notin lost /\ \A l \in ls : item[l] # g,
         \A l \in Busy : item[l] \in Groups,
         idx \in 1..(N + 1), N \in Nat,
         stage' = stage \/ (stage' = "over" /\ AllIdle' /\ lost' # {})
  PROVE  ListInv' /\ DeadInv' /\ AccountInv'
<1>1. Lanes' = Lanes /\ Groups' = Groups /\ batchEnd' = batchEnd
  BY SameRun
<1>2. ls \subseteq Lanes /\ Busy \subseteq Lanes
  BY DEF Busy, Awaiting
<1>3. Busy' = Busy \ ls
  BY <1>1, <1>2 DEF Busy, Awaiting, AtWork
<1>4. AllIdle => ls = {} /\ AllIdle'
  BY <1>1, <1>2 DEF AllIdle, Busy, Awaiting, AtWork
<1>5. ListInv'
  <2>1. CASE stage' = stage
    BY <1>1, <1>4, <2>1 DEF ListInv
  <2>2. CASE stage' = "over" /\ AllIdle' /\ lost' # {}
    BY <1>1, <2>2 DEF ListInv
  <2> QED  BY <2>1, <2>2
<1>6. DeadInv'
  BY <1>1, <1>2 DEF DeadInv, AtWork
<1>7. AccountInv'
  <2>1. \A l \in Busy' : item'[l] = item[l] /\ l \in Busy /\ item[l] \in Groups
    BY <1>2, <1>3
  <2>2. \A l \in Busy' : item'[l] \in 1..(idx' - 1) /\ result'[item'[l]] = "none" /\ item'[l] \notin lost'
    BY <1>3, <2>1 DEF AccountInv
  <2>3. \A l, m \in Busy' : item'[l] = item'[m] => l = m
    BY <1>3, <2>1 DEF AccountInv
  <2>4. \A g \in 1..(idx' - 1) : result'[g] = "none" /\ g \notin lost' => \E l \in Busy' : item'[l] = g
    <3> SUFFICES ASSUME NEW g \in 1..(idx - 1), result'[g] = "none" /\ g \notin lost'
                 PROVE  \E l \in Busy' : item'[l] = g
      OBVIOUS
    <3>1. g \in Groups
      BY DEF Groups
    <3>2. PICK l \in Busy : item[l] = g
      BY <3>1 DEF AccountInv
    <3> QED  BY <1>3, <2>1, <3>1, <3>2
  <2>5. \A g \in idx'..N' : result'[g] = "none" /\ g \notin lost'
    <3> SUFFICES ASSUME NEW g \in idx..N PROVE result'[g] = "none" /\ g \notin lost'
      OBVIOUS
    <3>1. g \in Groups /\ result[g] = "none" /\ g \notin lost
      BY DEF Groups, AccountInv
    <3>2. \A l \in ls : item[l] \in 1..(idx - 1)
      BY DEF AccountInv
    <3> QED  BY <3>1, <3>2
  <2> QED  BY <2>2, <2>3, <2>4, <2>5 DEF AccountInv
<1> QED  BY <1>5, <1>6, <1>7

\* The groups of busy lanes are groups.
LEMMA BusyItems ==
  ASSUME ListTypes, AccountInv, RunTypes
  PROVE  \A l \in Busy : l \in Lanes /\ item[l] \in Groups
<1>1. ASSUME NEW l \in Busy PROVE l \in Lanes /\ item[l] \in Groups
  <2>1. item[l] \in 1..(idx - 1) /\ idx \in 1..(N + 1) /\ N \in Nat
    BY DEF AccountInv, ListTypes, RunTypes
  <2> QED  BY <2>1 DEF Busy, Awaiting, Groups
<1> QED  BY <1>1

\* Nobody claims more than before without it being retired.
LEMMA SameAnswers ==
  ASSUME AnswerInv, Lanes' = Lanes, Groups' = Groups, processed \subseteq processed',
         \A g \in Groups : result'[g] \in {result[g], "failed", "none"} \/ g \in processed',
         \A l \in Lanes : pc'[l] \in {"receipt", "refused"} =>
           item'[l] \in processed' \/ (pc'[l] = pc[l] /\ item'[l] = item[l])
  PROVE  AnswerInv'
<1>1. ResultsAreTrue'
  BY DEF AnswerInv, ResultsAreTrue
<1>2. \A l \in Lanes' : pc'[l] \in {"receipt", "refused"} => item'[l] \in processed'
  BY DEF AnswerInv
<1> QED  BY <1>1, <1>2 DEF AnswerInv

\* The lanes that wait are left alone, and so is the pool.
LEMMA SamePool ==
  ASSUME ChainTypes, PoolInv, UNCHANGED pool,
         \A l \in Lanes : pc[l] = "wait" =>
           pc'[l] = "wait" /\ item'[l] = item[l] /\ nonce'[l] = nonce[l]
  PROVE  PoolInv'
<1>1. ASSUME NEW n \in DOMAIN pool, NEW l \in pool[n].waiting
      PROVE  l \in Lanes
  BY <1>1 DEF ChainTypes
<1> QED  BY <1>1 DEF PoolInv

\* The lanes in flight, the allocator and the chain are left alone.
LEMMA SameFlight ==
  ASSUME QuietInv, UNCHANGED <<next, read, mined, pool>>, Lanes' = Lanes,
         disturbed' \/ disturbed' = disturbed,
         \A l \in Lanes : pc[l] \in {"submit", "wait"} \/ pc'[l] \in {"submit", "wait"} =>
           pc'[l] = pc[l] /\ nonce'[l] = nonce[l]
  PROVE  QuietInv'
<1> SUFFICES ASSUME ~disturbed' PROVE IF next = UNKNOWN THEN Untouched' ELSE Filled'
  BY DEF QuietInv
<1>1. IF next = UNKNOWN THEN Untouched ELSE Filled
  BY DEF QuietInv
<1>2. InFlight' = InFlight /\ \A l \in InFlight : nonce'[l] = nonce[l]
  BY DEF InFlight, Awaiting
<1>3. \A l \in Lanes : pc[l] = "wait" <=> pc'[l] = "wait"
  OBVIOUS
<1>4. \A l \in Lanes : pc[l] = "wait" => l \in InFlight
  BY DEF InFlight, Awaiting
<1>5. CASE next = UNKNOWN
  BY <1>1, <1>2, <1>5 DEF Untouched
<1>6. CASE next # UNKNOWN
  <2>1. Filled
    BY <1>1, <1>6
  <2>2. {nonce'[l] : l \in InFlight'} = {nonce[l] : l \in InFlight}
    BY <1>2
  <2> QED  BY <1>2, <1>3, <1>4, <1>6, <2>1, <2>2 DEF Filled
<1> QED  BY <1>5, <1>6

\* Nothing is said of the nonces once something is disturbed.
LEMMA DisturbedQuiet == disturbed' => QuietInv'
  BY DEF QuietInv

\* The node's count is defined, and is the account's when nothing is in the pool.
LEMMA PendingCountIsFree ==
  ASSUME ChainTypes
  PROVE  /\ PendingCount \in Nat
         /\ DOMAIN pool = {} => PendingCount = mined
<1> DEFINE P(n) == n \notin DOMAIN pool /\ \A k \in mined..(n - 1) : k \in DOMAIN pool
<1>1. \E n \in mined..(mined + Cardinality(DOMAIN pool)) : P(n)
  BY FirstFree DEF ChainTypes
<1>2. PendingCount \in mined..(mined + Cardinality(DOMAIN pool)) /\ P(PendingCount)
  BY <1>1 DEF PendingCount
<1>3. PendingCount \in Nat
  BY <1>2, FS_CardinalityType DEF ChainTypes
<1>4. ASSUME DOMAIN pool = {} PROVE PendingCount = mined
  <2>1. Cardinality(DOMAIN pool) = 0
    BY <1>4, FS_EmptySet
  <2> QED  BY <1>2, <2>1 DEF ChainTypes
<1> QED  BY <1>3, <1>4

-----------------------------------------------------------------------------
(* Steps of the list *)

LEMMA InitIInv == LanesInit => IInv
<1> SUFFICES ASSUME LanesInit PROVE IInv
  OBVIOUS
<1>0. 0 \in 0..MaxKills
  BY LanesAssumption
<1> USE DEF LanesInit, Start, WalletInit, AllocatorInit
<1>1. RunTypes
  <2>1. cuts \subseteq 1..(N - 1) /\ (program # "batch" => cuts = {})
    <3>1. CASE program = "batch"
      BY <3>1
    <3>2. CASE program # "batch"
      BY <3>2
    <3> QED  BY <3>1, <3>2
  <2>2. kills \in 0..MaxKills /\ disturbed \in BOOLEAN
    BY <1>0
  <2> QED  BY <2>1, <2>2 DEF RunTypes
<1>2. N \in Nat \ {0}
  BY LanesAssumption
<1>3. LaneTypes /\ ListTypes
  BY <1>2 DEF LaneTypes, ListTypes, Stages, Groups
<1>4. ChainTypes
  BY FS_EmptySet DEF ChainTypes
<1>5. batchEnd \in 1..N /\ from <= batchEnd
  BY <1>1, <1>2, <1>3, BatchEndIs
<1>6. program # "batch" => batchEnd = N
  BY <1>1, <1>2, <1>5, OneBatch, Zenon DEF RunTypes
<1>7. \A l \in Lanes : pc[l] = "free"
  BY SomeLanes
<1>8. ListInv /\ DeadInv
  <2>1. from = 1 /\ idx = 1 /\ limit <= batchEnd
    BY <1>2, <1>5, <1>6
  <2>2. stage # "over" /\ (stage = "attest" => program = "batch") /\ stage # "shared"
    OBVIOUS
  <2>3. AllIdle /\ DeadInv
    BY <1>7 DEF AllIdle, DeadInv
  <2> QED  BY <1>2, <1>5, <2>1, <2>2, <2>3 DEF ListInv
<1>9. Busy = {} /\ InFlight = {}
  BY <1>7 DEF Busy, AtWork, InFlight, Awaiting
<1>10. AccountInv
  BY <1>2, <1>9 DEF AccountInv, Groups
<1>11. AnswerInv /\ PoolInv
  BY <1>7 DEF AnswerInv, ResultsAreTrue, PoolInv, Groups
<1>12. QuietInv
  BY <1>9 DEF QuietInv, Untouched, UNKNOWN, NO_READ
<1> QED  BY <1>1, <1>3, <1>4, <1>8, <1>10, <1>11, <1>12 DEF IInv, TypeInv, AllocatorTypeOK

\* The lanes and the chain are left alone.
LEMMA ListStepKeeps ==
  ASSUME IInv, UNCHANGED <<runVars, laneVars, lost, disturbed, allocatorVars, chainVars>>,
         result' \in [Groups -> Results \cup {"none"}],
         \A g \in Groups : result'[g] \in {result[g], "failed"}
  PROVE  /\ Lanes' = Lanes /\ Groups' = Groups /\ AllIdle' = AllIdle /\ Busy' = Busy
         /\ RunTypes' /\ LaneTypes' /\ ChainTypes' /\ AllocatorTypeOK'
         /\ DeadInv' /\ AnswerInv' /\ PoolInv' /\ QuietInv'
<1> USE DEF IInv, TypeInv, runVars, laneVars, allocatorVars, chainVars
<1>1. Lanes' = Lanes /\ Groups' = Groups
  BY SameRun
<1>2. AllIdle' = AllIdle /\ Busy' = Busy /\ DeadInv'
  BY <1>1 DEF AllIdle, Busy, Awaiting, AtWork, DeadInv
<1>3. RunTypes' /\ LaneTypes' /\ AllocatorTypeOK' /\ ChainTypes'
  BY <1>1 DEF RunTypes, LaneTypes, AllocatorTypeOK, ChainTypes
<1>4. PoolInv' /\ QuietInv'
  BY <1>1, SamePool, SameFlight
<1>5. AnswerInv'
  BY <1>1, SameAnswers
<1> QED  BY <1>1, <1>2, <1>3, <1>4, <1>5

\* The list moves on to the next batch.
LEMMA NextBatchKeeps ==
  ASSUME RunTypes, ListTypes, ListInv, UNCHANGED <<program, N, cuts>>, NextBatch,
         program = "batch", from <= N, AllIdle'
  PROVE  /\ ListInv'
         /\ stage' \in {"attest", "over"} /\ limit' \in 0..N
         /\ from' \in 1..(N + 1) /\ idx' = batchEnd + 1 /\ idx' \in 1..(N + 1)
<1>1. /\ from' = batchEnd + 1 /\ idx' = batchEnd + 1 /\ limit' = limit
      /\ stage' = IF batchEnd = N THEN "over" ELSE "attest"
  BY DEF NextBatch
<1>2. /\ batchEnd \in 1..N /\ from <= batchEnd /\ N \in Nat \ {0}
      /\ limit \in 0..N /\ limit <= batchEnd
  BY BatchEndIs, LanesAssumption DEF RunTypes, ListTypes, ListInv
<1>3. /\ batchEnd' \in 1..N /\ (from' <= N => from' <= batchEnd')
      /\ (N < from' => batchEnd' = N)
  <2>1. from' \in Nat \ {0} /\ cuts \subseteq 1..(N - 1)
    BY <1>1, <1>2 DEF RunTypes
  <2>2. batchEnd' = Min({N} \cup {c \in cuts : c >= from'})
    BY Zenon DEF batchEnd
  <2>3. N \in Nat \ {0} /\ cuts \subseteq 1..(N - 1)
    BY <1>2, <2>1
  <2> QED  BY <2>1, <2>2, <2>3, BatchEndFrom, Zenon
<1>4. batchEnd <= batchEnd'
  BY <1>1, <1>2, <1>3
<1>5. ListInv'
  <2>1. from' <= idx' /\ idx' <= batchEnd' + 1 /\ limit' <= batchEnd'
    <3>1. batchEnd \in Nat /\ batchEnd' \in Nat /\ limit \in Nat /\ limit <= batchEnd
      BY <1>2, <1>3
    <3>2. from' = batchEnd + 1 /\ idx' = batchEnd + 1 /\ limit' = limit
      BY <1>1
    <3> DEFINE e == batchEnd
           f == batchEnd'
    <3>3. e \in Nat /\ f \in Nat /\ e <= f /\ limit <= e
      BY <1>4, <3>1
    <3>4. from' = e + 1 /\ idx' = e + 1 /\ limit' = limit
      BY <3>2
    <3> HIDE DEF e, f
    <3>5. from' <= idx' /\ idx' <= f + 1 /\ limit' <= f
      BY <3>1, <3>3, <3>4
    <3> QED  BY <3>5 DEF f
  <2>2. /\ stage' \in {"attest", "shared"} => program' = "batch" /\ idx' = from'
        /\ stage' # "over" => from' <= N'
        /\ stage' = "over" => idx' = N' + 1
    BY <1>1, <1>2
  <2> QED  BY <2>1, <2>2 DEF ListInv
<1> QED  BY <1>1, <1>2, <1>5

\* Every group of the batch gets a result without a lane.
LEMMA BatchReportedIInv ==
  ASSUME IInv, stage \in {"attest", "shared"}, NextBatch,
         NEW r \in {"mirrored", "failed"},
         result' = [g \in Groups |-> IF g \in batch THEN r ELSE result[g]],
         UNCHANGED <<runVars, laneVars, lost>>,
         RunTypes', ChainTypes', AllocatorTypeOK', AnswerInv', PoolInv', QuietInv'
  PROVE  IInv'
<1> USE DEF IInv, TypeInv
<1>1. Lanes' = Lanes /\ Groups' = Groups /\ UNCHANGED <<program, N, cuts>>
  BY SameRun DEF runVars
<1>2. /\ program = "batch" /\ idx = from /\ AllIdle /\ from <= N
      /\ N \in Nat /\ from \in 1..(N + 1)
  BY DEF ListInv, RunTypes, ListTypes
<1>3. AllIdle' /\ Busy = {} /\ Busy' = {} /\ DeadInv' /\ LaneTypes'
  BY <1>1, <1>2 DEF AllIdle, Busy, Awaiting, AtWork, DeadInv, LaneTypes, laneVars
<1>4. /\ ListInv'
      /\ stage' \in {"attest", "over"} /\ limit' \in 0..N
      /\ from' \in 1..(N + 1) /\ idx' = batchEnd + 1 /\ idx' \in 1..(N + 1)
  BY <1>1, <1>2, <1>3, NextBatchKeeps
<1>5. ListTypes'
  BY <1>1, <1>4 DEF ListTypes, Results
<1>6. AccountInv'
  <2>1. batchEnd \in 1..N /\ from <= batchEnd
    BY <1>2, BatchEndIs
  <2>2. \A g \in 1..(idx' - 1) : ~(result'[g] = "none" /\ g \notin lost')
    <3> SUFFICES ASSUME NEW g \in 1..batchEnd PROVE result'[g] # "none" \/ g \in lost
      BY <1>4, <2>1
    <3>1. g \in Groups
      BY <1>2, <2>1 DEF Groups
    <3>2. CASE g \in batch
      BY <3>1, <3>2
    <3>3. CASE g \notin batch
      <4>1. g \in 1..(idx - 1)
        BY <1>2, <2>1, <3>3 DEF batch
      <4> QED  BY <1>3, <3>1, <3>3, <4>1 DEF AccountInv
    <3> QED  BY <3>2, <3>3
  <2>3. \A g \in idx'..N' : result'[g] = "none" /\ g \notin lost'
    <3> SUFFICES ASSUME NEW g \in (batchEnd + 1)..N PROVE result'[g] = "none" /\ g \notin lost
      BY <1>1, <1>4
    <3>1. g \in Groups /\ g \notin batch /\ g \in idx..N
      BY <1>2, <2>1 DEF Groups, batch
    <3> QED  BY <3>1 DEF AccountInv
  <2> QED  BY <1>3, <2>2, <2>3 DEF AccountInv
<1> QED  BY <1>3, <1>4, <1>5, <1>6

LEMMA AttestedIInv ==
  ASSUME IInv, Attested
  PROVE  IInv'
<1> USE DEF IInv, TypeInv
<1>1. /\ stage = "attest" /\ stage' \in {"lanes", "shared"}
      /\ UNCHANGED <<from, idx, limit, result, lost>>
      /\ UNCHANGED <<runVars, laneVars, disturbed, allocatorVars, chainVars>>
  BY DEF Attested, reportVars
<1>2. /\ Lanes' = Lanes /\ Groups' = Groups /\ AllIdle' = AllIdle /\ Busy' = Busy
      /\ RunTypes' /\ LaneTypes' /\ ChainTypes' /\ AllocatorTypeOK'
      /\ DeadInv' /\ AnswerInv' /\ PoolInv' /\ QuietInv'
  BY <1>1, ListStepKeeps DEF ListTypes
<1>3. batchEnd' = batchEnd /\ UNCHANGED <<program, N, item>>
  BY <1>1, SameRun DEF runVars, laneVars
<1>4. ListTypes' /\ ListInv'
  BY <1>1, <1>2, <1>3 DEF ListTypes, ListInv
<1>5. AccountInv'
  BY <1>1, <1>2, <1>3 DEF AccountInv
<1> QED  BY <1>2, <1>4, <1>5

LEMMA AttestFailsIInv ==
  ASSUME IInv, AttestFails
  PROVE  IInv'
<1>1. /\ stage = "attest" /\ NextBatch
      /\ result' = [g \in Groups |-> IF g \in batch THEN "failed" ELSE result[g]]
      /\ UNCHANGED <<runVars, laneVars, lost, disturbed, allocatorVars, chainVars>>
  BY DEF AttestFails
<1>2. /\ result' \in [Groups -> Results \cup {"none"}]
      /\ \A g \in Groups : result'[g] \in {result[g], "failed"}
  BY <1>1 DEF IInv, TypeInv, ListTypes, Results
<1>3. RunTypes' /\ ChainTypes' /\ AllocatorTypeOK' /\ AnswerInv' /\ PoolInv' /\ QuietInv'
  BY <1>1, <1>2, ListStepKeeps
<1> QED  BY <1>1, <1>3, BatchReportedIInv

\* The shared transaction changes the chain and disturbs the nonces; no lane is busy.
LEMMA SharedKeeps ==
  ASSUME IInv, stage = "shared", NEW ok \in BOOLEAN, SharedExecutes(ok),
         UNCHANGED <<runVars, laneVars, lost, allocatorVars>>,
         \A g \in Groups : result'[g] \in {result[g], "failed"} \/ g \in processed'
  PROVE  /\ Lanes' = Lanes /\ Groups' = Groups /\ AllIdle' = AllIdle /\ Busy' = Busy
         /\ RunTypes' /\ LaneTypes' /\ ChainTypes' /\ AllocatorTypeOK'
         /\ DeadInv' /\ AnswerInv' /\ PoolInv' /\ QuietInv'
         /\ ok => batch \subseteq processed'
<1> USE DEF IInv, TypeInv, runVars, laneVars, allocatorVars
<1>1. /\ DOMAIN pool = {} /\ mined' = mined + 1 /\ disturbed' = TRUE /\ pool' = pool
      /\ processed' = IF ok THEN processed \cup batch ELSE processed
  BY DEF SharedExecutes
<1>2. Lanes' = Lanes /\ Groups' = Groups
  BY SameRun
<1>3. AllIdle' = AllIdle /\ Busy' = Busy /\ DeadInv'
  BY <1>2 DEF AllIdle, Busy, Awaiting, AtWork, DeadInv
<1>4. RunTypes' /\ LaneTypes' /\ AllocatorTypeOK'
  BY <1>1, <1>2 DEF RunTypes, LaneTypes, AllocatorTypeOK
<1>5. ChainTypes'
  <2>1. /\ batchEnd \in 1..N /\ from \in 1..(N + 1) /\ N \in Nat
    BY BatchEndIs DEF ListTypes, RunTypes
  <2>2. batch \subseteq Groups
    BY <2>1 DEF batch, Groups
  <2> QED  BY <1>1, <1>2, <2>2 DEF ChainTypes
<1>6. PoolInv' /\ QuietInv'
  BY <1>1, DisturbedQuiet DEF PoolInv
<1>7. AnswerInv'
  BY <1>1, <1>2, SameAnswers
<1> QED  BY <1>1, <1>2, <1>3, <1>4, <1>5, <1>6, <1>7

LEMMA SharedSubmittedIInv ==
  ASSUME IInv, SharedSubmitted
  PROVE  IInv'
<1>1. PICK ok \in BOOLEAN :
        /\ SharedExecutes(ok)
        /\ result' = [g \in Groups |->
             IF g \notin batch THEN result[g] ELSE IF ok THEN "mirrored" ELSE "failed"]
  BY DEF SharedSubmitted
<1>2. stage = "shared" /\ NextBatch /\ UNCHANGED <<runVars, laneVars, lost, allocatorVars>>
  BY DEF SharedSubmitted
<1> DEFINE r == IF ok THEN "mirrored" ELSE "failed"
<1>3. \A g \in Groups : result'[g] \in {result[g], "failed"} \/ g \in processed'
  BY <1>1 DEF SharedExecutes
<1>4. RunTypes' /\ ChainTypes' /\ AllocatorTypeOK' /\ AnswerInv' /\ PoolInv' /\ QuietInv'
  BY <1>1, <1>2, <1>3, SharedKeeps
<1>5. result' = [g \in Groups |-> IF g \in batch THEN r ELSE result[g]]
  BY <1>1
<1>6. r \in {"mirrored", "failed"}
  OBVIOUS
<1> HIDE DEF r
<1> QED  BY <1>2, <1>4, <1>5, <1>6, BatchReportedIInv

LEMMA SharedFailsIInv ==
  ASSUME IInv, SharedFails
  PROVE  IInv'
<1> USE DEF IInv, TypeInv
<1>1. /\ stage = "shared" /\ stage' = "lanes"
      /\ UNCHANGED <<runVars, laneVars, from, idx, limit, result, lost, allocatorVars>>
      /\ (\E ok \in BOOLEAN : SharedExecutes(ok)) \/ UNCHANGED <<chainVars, disturbed>>
  BY DEF SharedFails, reportVars
<1>2. /\ Lanes' = Lanes /\ Groups' = Groups /\ AllIdle' = AllIdle /\ Busy' = Busy
      /\ RunTypes' /\ LaneTypes' /\ ChainTypes' /\ AllocatorTypeOK'
      /\ DeadInv' /\ AnswerInv' /\ PoolInv' /\ QuietInv'
  <2>1. CASE \E ok \in BOOLEAN : SharedExecutes(ok)
    BY <1>1, <2>1, SharedKeeps
  <2>2. CASE UNCHANGED <<chainVars, disturbed>>
    BY <1>1, <2>2, ListStepKeeps DEF ListTypes
  <2> QED  BY <1>1, <2>1, <2>2
<1>3. batchEnd' = batchEnd /\ UNCHANGED <<program, N, item>>
  BY <1>1, SameRun DEF runVars, laneVars
<1>4. ListTypes' /\ ListInv'
  BY <1>1, <1>2, <1>3 DEF ListTypes, ListInv
<1>5. AccountInv'
  BY <1>1, <1>2, <1>3 DEF AccountInv
<1> QED  BY <1>2, <1>4, <1>5

LEMMA NextSliceIInv ==
  ASSUME IInv, NextSlice
  PROVE  IInv'
<1> USE DEF IInv, TypeInv
<1>1. /\ stage = "lanes" /\ idx <= batchEnd /\ limit' = SliceEnd
      /\ UNCHANGED <<stage, from, idx, result, lost>>
      /\ UNCHANGED <<runVars, laneVars, disturbed, allocatorVars, chainVars>>
  BY DEF NextSlice, reportVars
<1>2. /\ Lanes' = Lanes /\ Groups' = Groups /\ AllIdle' = AllIdle /\ Busy' = Busy
      /\ RunTypes' /\ LaneTypes' /\ ChainTypes' /\ AllocatorTypeOK'
      /\ DeadInv' /\ AnswerInv' /\ PoolInv' /\ QuietInv'
  BY <1>1, ListStepKeeps DEF ListTypes
<1>3. batchEnd' = batchEnd /\ UNCHANGED <<program, N, item>>
  BY <1>1, SameRun DEF runVars, laneVars
<1>4. SliceEnd \in 0..N /\ SliceEnd <= batchEnd
  <2>1. batchEnd \in 1..N /\ N \in Nat /\ idx \in 1..(N + 1) /\ Width \in Nat \ {0}
    BY BatchEndIs, LanesAssumption DEF RunTypes, ListTypes
  <2>2. /\ idx + Width - 1 \in Nat
        /\ \E x \in {idx + Width - 1, batchEnd} : \A y \in {idx + Width - 1, batchEnd} : x <= y
    BY <2>1
  <2>3. /\ SliceEnd \in {idx + Width - 1, batchEnd}
        /\ \A y \in {idx + Width - 1, batchEnd} : SliceEnd <= y
    BY <2>2 DEF SliceEnd, Min
  <2> QED  BY <2>1, <2>2, <2>3
<1>5. ListTypes' /\ ListInv'
  BY <1>1, <1>2, <1>3, <1>4 DEF ListTypes, ListInv
<1>6. AccountInv'
  BY <1>1, <1>2, <1>3 DEF AccountInv
<1> QED  BY <1>2, <1>5, <1>6

LEMMA ListDoneIInv ==
  ASSUME IInv, ListDone
  PROVE  IInv'
<1> USE DEF IInv, TypeInv
<1>1. /\ stage = "lanes" /\ AllIdle /\ (idx > batchEnd \/ \A l \in Lanes : pc[l] = "dead")
      /\ IF program = "batch" THEN NextBatch ELSE stage' = "over" /\ UNCHANGED <<from, idx, limit>>
      /\ UNCHANGED <<result, lost>>
      /\ UNCHANGED <<runVars, laneVars, disturbed, allocatorVars, chainVars>>
  BY DEF ListDone, reportVars
<1>2. /\ Lanes' = Lanes /\ Groups' = Groups /\ AllIdle' = AllIdle /\ Busy' = Busy
      /\ RunTypes' /\ LaneTypes' /\ ChainTypes' /\ AllocatorTypeOK'
      /\ DeadInv' /\ AnswerInv' /\ PoolInv' /\ QuietInv'
  BY <1>1, ListStepKeeps DEF ListTypes
<1>3. UNCHANGED <<program, N, cuts, item>>
  BY <1>1 DEF runVars, laneVars
<1>4. batchEnd \in 1..N /\ idx \in 1..(N + 1) /\ N \in Nat /\ idx <= batchEnd + 1
  BY BatchEndIs DEF ListTypes, ListInv, RunTypes
<1>5. CASE program = "batch"
  <2>1. idx = batchEnd + 1
    <3>1. idx > batchEnd
      BY <1>1, <1>5, SomeLanes DEF DeadInv
    <3> QED  BY <1>4, <3>1
  <2>2. from <= N
    BY <1>1 DEF ListInv
  <2>3. NextBatch
    BY <1>1, <1>5
  <2>4. /\ ListInv'
        /\ stage' \in {"attest", "over"} /\ limit' \in 0..N
        /\ from' \in 1..(N + 1) /\ idx' = batchEnd + 1 /\ idx' \in 1..(N + 1)
    BY <1>1, <1>2, <1>3, <1>5, <2>2, <2>3, NextBatchKeeps
  <2>5. ListTypes' /\ AccountInv'
    BY <1>1, <1>2, <1>3, <2>1, <2>4 DEF ListTypes, AccountInv
  <2> QED  BY <1>2, <2>4, <2>5
<1>6. CASE program # "batch"
  <2>1. stage' = "over" /\ UNCHANGED <<from, idx, limit>>
    BY <1>1, <1>6
  <2>2. batchEnd = N /\ batchEnd' = batchEnd
    BY <1>3, <1>6, <2>1, OneBatch, SameRun DEF RunTypes
  <2>3. lost = {} => idx = N + 1
    <3>1. CASE idx > batchEnd
      BY <1>4, <2>2, <3>1
    <3>2. CASE \A l \in Lanes : pc[l] = "dead"
      BY <3>2, SomeLanes DEF DeadInv
    <3> QED  BY <1>1, <3>1, <3>2
  <2>4. ListTypes' /\ ListInv'
    BY <1>1, <1>2, <1>3, <2>1, <2>2, <2>3 DEF ListTypes, ListInv
  <2>5. AccountInv'
    BY <1>1, <1>2, <1>3, <2>1 DEF AccountInv
  <2> QED  BY <1>2, <2>4, <2>5
<1> QED  BY <1>5, <1>6

-----------------------------------------------------------------------------
(* Steps of a lane *)

\* Lanes at work go on with their groups.
LEMMA WorkBooks ==
  ASSUME IInv, pc' \in [1..Width -> Stages], disturbed' \in BOOLEAN,
         UNCHANGED <<runVars, item, listVars, reportVars>>,
         \A m \in Lanes : pc'[m] = pc[m] \/ (pc[m] \in AtWork /\ pc'[m] \in AtWork)
  PROVE  /\ Lanes' = Lanes /\ Groups' = Groups
         /\ item' \in [1..Width -> 0..N']
         /\ RunTypes' /\ ListTypes' /\ ListInv' /\ DeadInv' /\ AccountInv'
<1> USE DEF IInv, TypeInv, runVars, listVars, reportVars
<1>1. Lanes' = Lanes /\ Groups' = Groups
  BY SameRun
<1>2. item' \in [1..Width -> 0..N']
  BY DEF LaneTypes
<1>3. RunTypes' /\ ListTypes'
  BY <1>1 DEF RunTypes, ListTypes
<1>4. ListInv' /\ DeadInv' /\ AccountInv'
  <2>1. /\ ListInv /\ DeadInv /\ AccountInv /\ stage' = stage
        /\ UNCHANGED <<program, N, cuts, from, idx, limit, result, lost>>
    OBVIOUS
  <2>2. \A m \in Lanes : /\ item'[m] = item[m]
                         /\ pc'[m] = pc[m] \/ (m \in Busy /\ pc'[m] \in AtWork)
    BY DEF Busy, Awaiting
  <2>3. \A m \in Busy : item[m] \in Groups
    BY BusyItems
  <2>4. idx \in 1..(N + 1) /\ N \in Nat
    BY DEF ListTypes, RunTypes
  <2> DEFINE ls == {}
  <2>5. /\ ls \in SUBSET Busy
        /\ \A m \in ls : pc'[m] \in {"free", "dead"} /\ (pc'[m] = "dead" => program # "batch" /\ item'[m] \in lost')
        /\ \A m \in Lanes \ ls : /\ item'[m] = item[m]
                                 /\ pc'[m] = pc[m] \/ (m \in Busy /\ pc'[m] \in AtWork)
        /\ lost \subseteq lost'
        /\ \A g \in Groups : result'[g] = "none" /\ g \notin lost' <=>
             result[g] = "none" /\ g \notin lost /\ \A m \in ls : item[m] # g
    BY <2>1, <2>2
  <2> HIDE DEF ls
  <2> QED  BY <2>1, <2>3, <2>4, <2>5, LanesKeepBooks
<1> QED  BY <1>1, <1>2, <1>3, <1>4

LEMMA MoveBooks ==
  ASSUME IInv, NEW l \in Lanes, NEW s \in AtWork, pc[l] \in AtWork,
         pc' = [pc EXCEPT ![l] = s], disturbed' \in BOOLEAN,
         UNCHANGED <<runVars, item, listVars, reportVars>>
  PROVE  /\ Lanes' = Lanes /\ Groups' = Groups
         /\ \A m \in Lanes : pc'[m] = IF m = l THEN s ELSE pc[m]
         /\ pc' \in [1..Width -> Stages] /\ item' \in [1..Width -> 0..N']
         /\ RunTypes' /\ ListTypes' /\ ListInv' /\ DeadInv' /\ AccountInv'
<1>1. \A m \in Lanes : pc'[m] = IF m = l THEN s ELSE pc[m]
  BY SomeLanes DEF IInv, TypeInv, LaneTypes
<1>2. pc' \in [1..Width -> Stages]
  BY DEF IInv, TypeInv, LaneTypes, AtWork
<1>3. \A m \in Lanes : pc'[m] = pc[m] \/ (pc[m] \in AtWork /\ pc'[m] \in AtWork)
  BY <1>1
<1> QED  BY <1>1, <1>2, <1>3, WorkBooks

LEMMA MoveIInv ==
  ASSUME IInv, NEW l \in Lanes, NEW s \in AtWork, pc[l] \in AtWork \ {"wait"},
         pc' = [pc EXCEPT ![l] = s], disturbed' \in BOOLEAN,
         s = "receipt" => FALSE, s = "refused" => item[l] \in processed,
         UNCHANGED <<runVars, item, nonce, listVars, reportVars, chainVars>>,
         AllocatorTypeOK', QuietInv'
  PROVE  IInv'
<1> USE DEF IInv, TypeInv, chainVars
<1>1. /\ Lanes' = Lanes /\ Groups' = Groups
      /\ \A m \in Lanes : pc'[m] = IF m = l THEN s ELSE pc[m]
      /\ pc' \in [1..Width -> Stages] /\ item' \in [1..Width -> 0..N']
      /\ RunTypes' /\ ListTypes' /\ ListInv' /\ DeadInv' /\ AccountInv'
  BY MoveBooks
<1>2. LaneTypes' /\ ChainTypes'
  BY <1>1 DEF LaneTypes, ChainTypes
<1>3. PoolInv'
  BY <1>1, SamePool
<1>4. AnswerInv'
  <2>1. \A m \in Lanes : pc'[m] \in {"receipt", "refused"} =>
          item'[m] \in processed' \/ (pc'[m] = pc[m] /\ item'[m] = item[m])
    BY <1>1
  <2>2. UNCHANGED result
    BY DEF reportVars
  <2> QED  BY <1>1, <2>1, <2>2, SameAnswers
<1> QED  BY <1>1, <1>2, <1>3, <1>4

\* A lane that nobody waits with ends with a result that is true.
LEMMA ReportIInv ==
  ASSUME IInv, NEW l \in Lanes, NEW r \in Results, pc[l] \in AtWork \ {"wait"},
         Report(l, r), r # "failed" => item[l] \in processed,
         UNCHANGED <<runVars, listVars, chainVars, allocatorVars>>,
         disturbed' = TRUE \/ (pc[l] # "submit" /\ disturbed' = disturbed)
  PROVE  IInv'
<1> USE DEF IInv, TypeInv, runVars, listVars, chainVars, allocatorVars
<1>1. /\ pc' = [pc EXCEPT ![l] = "free"] /\ item' = [item EXCEPT ![l] = 0]
      /\ nonce' = [nonce EXCEPT ![l] = NO_NONCE]
      /\ result' = [result EXCEPT ![item[l]] = r] /\ lost' = lost
  BY DEF Report, Free
<1>2. Lanes' = Lanes /\ Groups' = Groups
  BY SameRun
<1>3. \A m \in Lanes : /\ pc'[m] = IF m = l THEN "free" ELSE pc[m]
                       /\ m # l => item'[m] = item[m] /\ nonce'[m] = nonce[m]
  BY <1>1, SomeLanes DEF LaneTypes
<1>4. l \in Busy /\ item[l] \in Groups /\ result[item[l]] = "none"
  <2>1. l \in Busy
    BY DEF Busy, Awaiting, AtWork
  <2> QED  BY <2>1, BusyItems DEF AccountInv
<1>5. \A g \in Groups : result'[g] = IF g = item[l] THEN r ELSE result[g]
  BY <1>1, <1>4 DEF ListTypes
<1>6. N \in Nat /\ 0 \in 0..N
  BY DEF RunTypes
<1>7. LaneTypes'
  BY <1>1, <1>6 DEF LaneTypes, Stages
<1>8. RunTypes' /\ ChainTypes' /\ AllocatorTypeOK'
  BY <1>2 DEF RunTypes, ChainTypes, AllocatorTypeOK
<1>9. ListTypes'
  BY <1>1, <1>2, <1>4 DEF ListTypes
<1>10. ListInv' /\ DeadInv' /\ AccountInv'
  <2> DEFINE ls == {l}
  <2>0. /\ ListInv /\ DeadInv /\ AccountInv /\ stage' = stage /\ lost' = lost
        /\ UNCHANGED <<program, N, cuts, from, idx, limit>>
    BY <1>1
  <2>1. \A g \in Groups : result'[g] = "none" /\ g \notin lost' <=>
          result[g] = "none" /\ g \notin lost /\ \A m \in ls : item[m] # g
    <3>1. r # "none"
      BY DEF Results
    <3> QED  BY <1>4, <1>5, <2>0, <3>1
  <2>2. /\ ls \in SUBSET Busy
        /\ \A m \in ls : pc'[m] \in {"free", "dead"} /\ (pc'[m] = "dead" => program # "batch" /\ item'[m] \in lost')
        /\ \A m \in Lanes \ ls : /\ item'[m] = item[m]
                                 /\ pc'[m] = pc[m] \/ (m \in Busy /\ pc'[m] \in AtWork)
        /\ lost \subseteq lost'
    <3>1. pc'[l] = "free"
      BY <1>3
    <3> QED  BY <1>3, <1>4, <2>0, <3>1
  <2>3. \A m \in Busy : item[m] \in Groups
    BY BusyItems
  <2>4. idx \in 1..(N + 1)
    BY DEF ListTypes
  <2> HIDE DEF ls
  <2> QED  BY <1>6, <2>0, <2>1, <2>2, <2>3, <2>4, LanesKeepBooks
<1>11. PoolInv'
  BY <1>3, SamePool
<1>12. QuietInv'
  <2>1. CASE disturbed' = TRUE
    BY <2>1, DisturbedQuiet
  <2>2. CASE pc[l] # "submit" /\ disturbed' = disturbed
    <3>1. UNCHANGED <<next, read, mined, pool>>
      OBVIOUS
    <3>2. \A m \in Lanes : pc[m] \in {"submit", "wait"} \/ pc'[m] \in {"submit", "wait"} =>
            pc'[m] = pc[m] /\ nonce'[m] = nonce[m]
      BY <1>3, <2>2
    <3> QED  BY <1>2, <2>2, <3>1, <3>2, SameFlight
  <2> QED  BY <2>1, <2>2
<1>13. AnswerInv'
  <2>1. \A g \in Groups : result'[g] \in {result[g], "failed", "none"} \/ g \in processed'
    BY <1>5
  <2> QED  BY <1>2, <1>3, <2>1, SameAnswers
<1> QED  BY <1>7, <1>8, <1>9, <1>10, <1>11, <1>12, <1>13

LEMMA ClaimIInv ==
  ASSUME IInv, NEW l \in Lanes, Claim(l)
  PROVE  IInv'
<1> USE DEF IInv, TypeInv, runVars, reportVars, chainVars, allocatorVars
<1>1. /\ pc[l] = "free" /\ stage = "lanes" /\ idx <= limit /\ idx' = idx + 1
      /\ pc' = [pc EXCEPT ![l] = "dedupe"] /\ item' = [item EXCEPT ![l] = idx]
      /\ UNCHANGED <<program, N, cuts, kills, nonce, stage, from, limit, result, lost, disturbed,
                     next, read, mined, pool, processed>>
  BY DEF Claim
<1>2. Lanes' = Lanes /\ Groups' = Groups /\ batchEnd' = batchEnd
  BY <1>1, SameRun
<1>3. \A m \in Lanes : /\ pc'[m] = IF m = l THEN "dedupe" ELSE pc[m]
                       /\ item'[m] = IF m = l THEN idx ELSE item[m]
  BY <1>1, SomeLanes DEF LaneTypes
<1>4. /\ N \in Nat /\ limit \in 0..N /\ limit <= batchEnd /\ batchEnd \in 1..N
      /\ idx \in 1..N /\ from <= idx /\ from \in 1..(N + 1)
  BY <1>1, BatchEndIs DEF RunTypes, ListTypes, ListInv
<1>5. RunTypes' /\ LaneTypes' /\ ListTypes' /\ ChainTypes' /\ AllocatorTypeOK'
  <2>1. LaneTypes'
    <3>1. /\ pc \in [1..Width -> Stages] /\ item \in [1..Width -> 0..N]
          /\ nonce \in [1..Width -> Nat \cup {NO_NONCE}]
          /\ idx \in 0..N /\ "dedupe" \in Stages
      BY <1>4 DEF LaneTypes, Stages
    <3>2. pc' \in [1..Width -> Stages] /\ item' \in [1..Width -> 0..N]
      BY <1>1, <3>1
    <3> QED  BY <1>1, <3>1, <3>2 DEF LaneTypes
  <2>2. ListTypes'
    BY <1>1, <1>2, <1>4 DEF ListTypes
  <2> QED  BY <1>1, <1>2, <2>1, <2>2 DEF RunTypes, ChainTypes, AllocatorTypeOK
<1>6. ListInv'
  <2>1. from' <= idx' /\ idx' <= batchEnd' + 1 /\ limit' <= batchEnd'
    BY <1>1, <1>2, <1>4
  <2> QED  BY <1>1, <2>1 DEF ListInv
<1>7. DeadInv'
  BY <1>1, <1>2, <1>3 DEF DeadInv
<1>8. Busy' = Busy \cup {l} /\ l \notin Busy /\ \A m \in Busy : m # l /\ item'[m] = item[m]
  BY <1>1, <1>2, <1>3 DEF Busy, Awaiting, AtWork, Stages
<1>9. AccountInv'
  <2>1. result[idx] = "none" /\ idx \notin lost
    BY <1>4 DEF AccountInv
  <2>2. \A m \in Busy : item[m] \in 1..(idx - 1) /\ item[m] # idx
    BY <1>4 DEF AccountInv
  <2>3. item'[l] = idx
    BY <1>3
  <2>4. \A m \in Busy' : item'[m] \in 1..(idx' - 1) /\ result'[item'[m]] = "none" /\ item'[m] \notin lost'
    <3> SUFFICES ASSUME NEW m \in Busy'
                 PROVE  item'[m] \in 1..idx /\ result[item'[m]] = "none" /\ item'[m] \notin lost
      BY <1>1, <1>4
    <3>1. CASE m = l
      BY <1>4, <2>1, <2>3, <3>1
    <3>2. CASE m # l
      BY <1>4, <1>8, <2>2, <3>2 DEF AccountInv
    <3> QED  BY <3>1, <3>2
  <2>5. \A k, m \in Busy' : item'[k] = item'[m] => k = m
    BY <1>8, <2>2, <2>3 DEF AccountInv
  <2>6. \A g \in 1..(idx' - 1) : result'[g] = "none" /\ g \notin lost' => \E m \in Busy' : item'[m] = g
    <3> SUFFICES ASSUME NEW g \in 1..idx, result[g] = "none" /\ g \notin lost
                 PROVE  \E m \in Busy' : item'[m] = g
      BY <1>1, <1>4
    <3>1. CASE g = idx
      BY <1>8, <2>3, <3>1
    <3>2. CASE g # idx
      <4>1. g \in 1..(idx - 1)
        BY <1>4, <3>2
      <4> QED  BY <1>8, <4>1 DEF AccountInv
    <3> QED  BY <3>1, <3>2
  <2>7. \A g \in idx'..N' : result'[g] = "none" /\ g \notin lost'
    <3>1. \A g \in (idx + 1)..N : g \in idx..N
      BY <1>4
    <3> QED  BY <1>1, <3>1 DEF AccountInv
  <2> QED  BY <2>4, <2>5, <2>6, <2>7 DEF AccountInv
<1>10. PoolInv'
  BY <1>1, <1>3, SamePool
<1>11. QuietInv'
  BY <1>1, <1>2, <1>3, SameFlight
<1>12. AnswerInv'
  BY <1>1, <1>2, <1>3, SameAnswers
<1> QED  BY <1>5, <1>6, <1>7, <1>9, <1>10, <1>11, <1>12

LEMMA DedupedIInv ==
  ASSUME IInv, NEW l \in Lanes, Deduped(l)
  PROVE  IInv'
<1>1. /\ pc[l] = "dedupe"
      /\ UNCHANGED <<runVars, listVars, disturbed, allocatorVars, chainVars>>
  BY DEF Deduped
<1>2. pc[l] \in AtWork \ {"wait"}
  BY <1>1 DEF AtWork, Stages
<1>3. CASE item[l] \in processed
  <2>1. Report(l, "already-mirrored") /\ "already-mirrored" \in Results
    BY <1>3 DEF Deduped, Results
  <2> QED  BY <1>1, <1>2, <1>3, <2>1, ReportIInv
<1>4. CASE item[l] \notin processed
  <2>1. /\ pc' = [pc EXCEPT ![l] = "proof"] /\ UNCHANGED <<item, nonce>>
        /\ UNCHANGED reportVars /\ "proof" \in AtWork
    BY <1>4 DEF Deduped, Goto, AtWork, Stages
  <2>2. disturbed' \in BOOLEAN /\ AllocatorTypeOK'
    BY <1>1 DEF IInv, TypeInv, RunTypes, AllocatorTypeOK, allocatorVars
  <2>3. QuietInv'
    <3>1. Lanes' = Lanes
      BY <1>1, SameRun DEF runVars
    <3>2. \A m \in Lanes : pc'[m] = IF m = l THEN "proof" ELSE pc[m]
      BY <2>1, SomeLanes DEF IInv, TypeInv, LaneTypes
    <3> QED  BY <1>1, <2>1, <3>1, <3>2, SameFlight DEF IInv, allocatorVars, chainVars
  <2> QED  BY <1>1, <1>2, <2>1, <2>2, <2>3, MoveIInv
<1> QED  BY <1>3, <1>4

LEMMA UnprovenIInv ==
  ASSUME IInv, NEW l \in Lanes, Unproven(l)
  PROVE  IInv'
<1>1. /\ pc[l] \in {"dedupe", "proof"} /\ Report(l, "failed")
      /\ UNCHANGED <<runVars, listVars, disturbed, allocatorVars, chainVars>>
  BY DEF Unproven
<1>2. pc[l] \in AtWork \ {"wait"} /\ pc[l] # "submit" /\ "failed" \in Results
  BY <1>1 DEF AtWork, Stages, Results
<1> QED  BY <1>1, <1>2, ReportIInv

LEMMA ReceiptIInv ==
  ASSUME IInv, NEW l \in Lanes, Receipt(l)
  PROVE  IInv'
<1> DEFINE r == Outcome(pc[l] = "receipt")
<1>1. /\ pc[l] \in {"receipt", "reverted"} /\ Report(l, r)
      /\ UNCHANGED <<runVars, listVars, disturbed, allocatorVars, chainVars>>
  BY DEF Receipt
<1>2. pc[l] \in AtWork \ {"wait"} /\ pc[l] # "submit"
  BY <1>1 DEF AtWork, Stages
<1>3. r \in Results /\ (r # "failed" => item[l] \in processed)
  BY DEF Outcome, Results, IInv, AnswerInv
<1> HIDE DEF r
<1> QED  BY <1>1, <1>2, <1>3, ReportIInv

\* take reads only if no nonce is known, and then nothing is in flight.
LEMMA ProvedIInv ==
  ASSUME IInv, NEW l \in Lanes, Proved(l)
  PROVE  IInv'
<1> USE DEF IInv, TypeInv
<1>1. /\ pc[l] = "proof" /\ callTake /\ pc' = [pc EXCEPT ![l] = "take"]
      /\ UNCHANGED <<runVars, item, nonce, listVars, reportVars, disturbed, chainVars>>
  BY DEF Proved, Goto
<1>2. pc[l] \in AtWork \ {"wait"} /\ "take" \in AtWork
  BY <1>1 DEF AtWork, Stages
<1>3. Lanes' = Lanes /\ \A m \in Lanes : pc'[m] = IF m = l THEN "take" ELSE pc[m]
  BY <1>1, SomeLanes, SameRun DEF LaneTypes, runVars
<1>4. disturbed' \in BOOLEAN /\ AllocatorTypeOK'
  BY <1>1 DEF RunTypes, AllocatorTypeOK, callTake, ASKED
<1>5. QuietInv'
  <2>1. UNCHANGED <<next, mined, pool, disturbed, nonce>>
    BY <1>1 DEF callTake, chainVars
  <2>2. CASE read' = read
    BY <1>1, <1>3, <2>1, <2>2, SameFlight
  <2>3. CASE read' # read
    <3>1. next = UNKNOWN /\ read' = ASKED
      BY <1>1, <2>3 DEF callTake
    <3>2. InFlight' = InFlight
      BY <1>1, <1>3 DEF InFlight, Awaiting
    <3> QED  BY <2>1, <3>1, <3>2 DEF QuietInv, Untouched
  <2> QED  BY <2>2, <2>3
<1> QED  BY <1>1, <1>2, <1>4, <1>5, MoveIInv

LEMMA WaitThrowsIInv ==
  ASSUME IInv, NEW l \in Lanes, WaitThrows(l)
  PROVE  IInv'
<1>1. /\ pc[l] = "reverted" /\ resync /\ pc' = [pc EXCEPT ![l] = "resync"] /\ disturbed' = TRUE
      /\ UNCHANGED <<runVars, item, nonce, listVars, reportVars, chainVars>>
  BY DEF WaitThrows, SubmitThrows, Goto
<1>2. pc[l] \in AtWork \ {"wait"} /\ "resync" \in AtWork
  BY <1>1 DEF AtWork, Stages
<1>3. AllocatorTypeOK' /\ QuietInv'
  BY <1>1, DisturbedQuiet DEF IInv, TypeInv, AllocatorTypeOK, resync, ASKED
<1> QED  BY <1>1, <1>2, <1>3, MoveIInv

LEMMA AlreadyProcessedIInv ==
  ASSUME IInv, NEW l \in Lanes, AlreadyProcessed(l)
  PROVE  IInv'
<1>1. pc[l] = "submit" /\ item[l] \in processed /\ UNCHANGED chainVars
  BY DEF AlreadyProcessed
<1>2. pc[l] \in AtWork \ {"wait"} /\ "refused" \in AtWork /\ "already-mirrored" \in Results
  BY <1>1 DEF AtWork, Stages, Results
<1>3. CASE program = "batch"
  <2>1. /\ resync /\ pc' = [pc EXCEPT ![l] = "refused"] /\ disturbed' = TRUE
        /\ UNCHANGED <<runVars, item, nonce, listVars, reportVars>>
    BY <1>3 DEF AlreadyProcessed, SubmitThrows, Goto
  <2>2. AllocatorTypeOK' /\ QuietInv'
    BY <2>1, DisturbedQuiet DEF IInv, TypeInv, AllocatorTypeOK, resync, ASKED
  <2> QED  BY <1>1, <1>2, <2>1, <2>2, MoveIInv
<1>4. CASE program # "batch"
  <2>1. /\ Report(l, "already-mirrored") /\ disturbed' = TRUE
        /\ UNCHANGED <<runVars, listVars, allocatorVars>>
    BY <1>4 DEF AlreadyProcessed
  <2> QED  BY <1>1, <1>2, <2>1, ReportIInv
<1> QED  BY <1>3, <1>4

\* The nonce a lane takes is the first one no lane in flight holds.
LEMMA NonceTakenIInv ==
  ASSUME IInv, NEW l \in Lanes, NonceTaken(l)
  PROVE  IInv'
<1> USE DEF IInv, TypeInv
<1>1. /\ pc[l] = "take" /\ read = NO_READ /\ next # UNKNOWN /\ next' = next + 1 /\ read' = read
      /\ nonce' = [nonce EXCEPT ![l] = next] /\ pc' = [pc EXCEPT ![l] = "submit"]
      /\ UNCHANGED <<mined, pool, processed, disturbed, item, result>>
      /\ UNCHANGED <<runVars, listVars, reportVars>>
  BY DEF NonceTaken, take, NonceReady, chainVars, reportVars
<1>2. pc[l] \in AtWork /\ "submit" \in AtWork /\ disturbed' \in BOOLEAN
  BY <1>1 DEF AtWork, Stages, RunTypes
<1>3. /\ Lanes' = Lanes /\ Groups' = Groups
      /\ \A m \in Lanes : pc'[m] = IF m = l THEN "submit" ELSE pc[m]
      /\ pc' \in [1..Width -> Stages] /\ item' \in [1..Width -> 0..N']
      /\ RunTypes' /\ ListTypes' /\ ListInv' /\ DeadInv' /\ AccountInv'
  BY <1>1, <1>2, MoveBooks
<1>4. next \in Nat /\ \A m \in Lanes : nonce'[m] = IF m = l THEN next ELSE nonce[m]
  BY <1>1, SomeLanes DEF LaneTypes, AllocatorTypeOK
<1>5. LaneTypes' /\ ChainTypes' /\ AllocatorTypeOK'
  BY <1>1, <1>3, <1>4 DEF AllocatorTypeOK, LaneTypes, ChainTypes
<1>6. PoolInv'
  BY <1>1, <1>3, <1>4, SamePool
<1>7. AnswerInv'
  BY <1>1, <1>3, SameAnswers
<1>8. QuietInv'
  <2> SUFFICES ASSUME ~disturbed PROVE Filled'
    BY <1>1, <1>4 DEF QuietInv, UNKNOWN
  <2>1. Filled
    BY <1>1 DEF QuietInv
  <2>2. InFlight' = InFlight \cup {l} /\ l \notin InFlight
    BY <1>1, <1>3 DEF InFlight, Awaiting
  <2>3. \A m \in InFlight : nonce'[m] = nonce[m] /\ nonce[m] \in mined..(next - 1)
    BY <1>4, <2>1, <2>2 DEF Filled, InFlight, Awaiting
  <2>4. nonce'[l] = next /\ mined \in Nat /\ mined <= next
    BY <1>4, <2>1 DEF Filled, ChainTypes
  <2>5. \A k, m \in InFlight' : nonce'[k] = nonce'[m] => k = m
    BY <1>4, <2>1, <2>2, <2>3, <2>4 DEF Filled
  <2>6. \A m \in InFlight' : nonce'[m] \in mined'..(next' - 1)
    BY <1>1, <1>4, <2>2, <2>3, <2>4
  <2>7. ASSUME NEW n \in mined'..(next' - 1)
        PROVE  n \in {nonce'[m] : m \in InFlight'}
    <3>1. CASE n = next
      BY <2>2, <2>4, <3>1
    <3>2. CASE n # next
      <4>1. n \in mined..(next - 1)
        BY <1>1, <1>4, <2>4, <3>2
      <4>2. PICK m \in InFlight : nonce[m] = n
        BY <2>1, <4>1 DEF Filled
      <4> QED  BY <2>2, <2>3, <4>2
    <3> QED  BY <3>1, <3>2
  <2>8. /\ \A m \in Lanes : pc'[m] = "wait" => pc[m] = "wait" /\ nonce'[m] = nonce[m]
        /\ \A m \in Lanes : pc[m] = "wait" => pc'[m] = "wait" /\ nonce'[m] = nonce[m]
    BY <1>1, <1>3, <1>4
  <2>9. /\ \A m \in Lanes' : pc'[m] = "wait" => nonce'[m] \in DOMAIN pool' /\ m \in pool'[nonce'[m]].waiting
        /\ \A n \in DOMAIN pool' : \E m \in Lanes' : pc'[m] = "wait" /\ nonce'[m] = n
    BY <1>1, <1>3, <2>1, <2>8 DEF Filled
  <2>10. read' = NO_READ /\ mined' <= next'
    BY <1>1, <1>4, <2>4
  <2>11. mined'..(next' - 1) \subseteq {nonce'[m] : m \in InFlight'}
    BY <2>7
  <2> QED  BY <2>5, <2>6, <2>9, <2>10, <2>11 DEF Filled
<1> QED  BY <1>3, <1>5, <1>6, <1>7, <1>8

\* The node takes a transaction: the pool, with the lane that sent it or nobody.
LEMMA AcceptKeeps ==
  ASSUME IInv, NEW l \in Lanes, pc[l] \in AtWork, NEW waiters \in {{l}, Nobody},
         Accept(nonce[l], item[l], waiters), Lanes' = Lanes, Groups' = Groups
  PROVE  /\ ChainTypes'
         /\ DOMAIN pool' = DOMAIN pool \cup {nonce[l]} /\ nonce[l] \notin DOMAIN pool
         /\ pool'[nonce[l]] = [query |-> item[l], waiting |-> waiters]
         /\ \A n \in DOMAIN pool : pool'[n] = pool[n]
<1> USE DEF IInv, TypeInv
<1>1. /\ nonce[l] >= mined /\ nonce[l] \notin DOMAIN pool /\ UNCHANGED <<mined, processed>>
      /\ pool' = [k \in DOMAIN pool \cup {nonce[l]} |->
                    IF k = nonce[l] THEN [query |-> item[l], waiting |-> waiters] ELSE pool[k]]
  BY DEF Accept, Acceptable
<1>2. nonce[l] \in Nat
  <2>1. nonce[l] \in Nat \cup {NO_NONCE} /\ mined \in Nat
    BY SomeLanes DEF LaneTypes, ChainTypes
  <2> QED  BY <1>1, <2>1 DEF NO_NONCE
<1>3. IsFiniteSet(DOMAIN pool \cup {nonce[l]})
  BY FS_AddElement DEF ChainTypes
<1>4. [query |-> item[l], waiting |-> waiters] \in [query: Groups, waiting: SUBSET Lanes]
  <2>1. item[l] \in Groups
    BY BusyItems DEF Busy, Awaiting
  <2> QED  BY <2>1 DEF Nobody
<1>5. ChainTypes'
  BY <1>1, <1>2, <1>3, <1>4 DEF ChainTypes
<1> QED  BY <1>1, <1>5

LEMMA BroadcastIInv ==
  ASSUME IInv, NEW l \in Lanes, Broadcast(l)
  PROVE  IInv'
<1> USE DEF IInv, TypeInv
<1>1. /\ pc[l] = "submit" /\ Accept(nonce[l], item[l], {l}) /\ pc' = [pc EXCEPT ![l] = "wait"]
      /\ UNCHANGED <<next, read, item, nonce, result, disturbed>>
      /\ UNCHANGED <<runVars, listVars, reportVars>>
  BY DEF Broadcast, Goto, allocatorVars, reportVars
<1>2. pc[l] \in AtWork /\ "wait" \in AtWork /\ disturbed' \in BOOLEAN
  BY <1>1 DEF AtWork, Stages, RunTypes
<1>3. /\ Lanes' = Lanes /\ Groups' = Groups
      /\ \A m \in Lanes : pc'[m] = IF m = l THEN "wait" ELSE pc[m]
      /\ pc' \in [1..Width -> Stages] /\ item' \in [1..Width -> 0..N']
      /\ RunTypes' /\ ListTypes' /\ ListInv' /\ DeadInv' /\ AccountInv'
  BY <1>1, <1>2, MoveBooks
<1>4. /\ ChainTypes'
      /\ DOMAIN pool' = DOMAIN pool \cup {nonce[l]} /\ nonce[l] \notin DOMAIN pool
      /\ pool'[nonce[l]] = [query |-> item[l], waiting |-> {l}]
      /\ \A n \in DOMAIN pool : pool'[n] = pool[n]
      /\ UNCHANGED <<mined, processed>>
  BY <1>1, <1>2, <1>3, AcceptKeeps DEF Accept
<1>5. LaneTypes' /\ AllocatorTypeOK'
  BY <1>1, <1>3 DEF AllocatorTypeOK, LaneTypes
<1>6. PoolInv'
  <2> SUFFICES ASSUME NEW n \in DOMAIN pool', NEW m \in pool'[n].waiting
               PROVE  pc'[m] = "wait" /\ item'[m] = pool'[n].query /\ nonce'[m] = n
    BY DEF PoolInv
  <2>1. CASE n = nonce[l]
    BY <1>1, <1>3, <1>4, <2>1
  <2>2. CASE n # nonce[l]
    <3>1. n \in DOMAIN pool /\ m \in pool[n].waiting /\ pool'[n] = pool[n] /\ m \in Lanes
      BY <1>4, <2>2 DEF ChainTypes
    <3> QED  BY <1>1, <1>3, <3>1 DEF PoolInv
  <2> QED  BY <2>1, <2>2
<1>7. AnswerInv'
  BY <1>1, <1>3, <1>4, SameAnswers
<1>8. QuietInv'
  <2> SUFFICES ASSUME ~disturbed PROVE next # UNKNOWN /\ Filled'
    BY <1>1 DEF QuietInv
  <2>1. l \in InFlight
    BY <1>1 DEF InFlight, Awaiting
  <2>2. next # UNKNOWN /\ Filled
    BY <2>1 DEF QuietInv, Untouched
  <2>3. InFlight' = InFlight
    BY <1>1, <1>3 DEF InFlight, Awaiting
  <2>4. \A k, m \in InFlight' : nonce'[k] = nonce'[m] => k = m
    BY <1>1, <2>2, <2>3 DEF Filled
  <2>5. \A m \in Lanes : pc'[m] = "wait" => nonce'[m] \in DOMAIN pool' /\ m \in pool'[nonce'[m]].waiting
    BY <1>1, <1>3, <1>4, <2>2 DEF Filled
  <2>6. \A n \in DOMAIN pool' : \E m \in Lanes : pc'[m] = "wait" /\ nonce'[m] = n
    BY <1>1, <1>3, <1>4, <2>2 DEF Filled
  <2> QED  BY <1>1, <1>3, <1>4, <2>2, <2>3, <2>4, <2>5, <2>6 DEF Filled
<1> QED  BY <1>3, <1>4, <1>5, <1>6, <1>7, <1>8

LEMMA BroadcastFailsIInv ==
  ASSUME IInv, NEW l \in Lanes, BroadcastFails(l)
  PROVE  IInv'
<1> USE DEF IInv, TypeInv
<1>1. /\ pc[l] = "submit" /\ resync /\ pc' = [pc EXCEPT ![l] = "resync"] /\ disturbed' = TRUE
      /\ UNCHANGED chainVars \/ Accept(nonce[l], item[l], Nobody)
      /\ UNCHANGED <<item, nonce, result>> /\ UNCHANGED <<runVars, listVars, reportVars>>
  BY DEF BroadcastFails, SubmitThrows, Goto, reportVars
<1>2. pc[l] \in AtWork /\ "resync" \in AtWork
  BY <1>1 DEF AtWork, Stages
<1>3. /\ Lanes' = Lanes /\ Groups' = Groups
      /\ \A m \in Lanes : pc'[m] = IF m = l THEN "resync" ELSE pc[m]
      /\ pc' \in [1..Width -> Stages] /\ item' \in [1..Width -> 0..N']
      /\ RunTypes' /\ ListTypes' /\ ListInv' /\ DeadInv' /\ AccountInv'
  BY <1>1, <1>2, MoveBooks
<1>4. ChainTypes' /\ UNCHANGED processed
  <2>1. CASE UNCHANGED chainVars
    BY <1>3, <2>1 DEF chainVars, ChainTypes
  <2>2. CASE Accept(nonce[l], item[l], Nobody)
    BY <1>2, <1>3, <2>2, AcceptKeeps DEF Accept
  <2> QED  BY <1>1, <2>1, <2>2
<1>5. LaneTypes' /\ AllocatorTypeOK'
  BY <1>1, <1>3 DEF AllocatorTypeOK, LaneTypes, resync, ASKED
<1>6. PoolInv'
  <2>1. CASE UNCHANGED chainVars
    BY <1>1, <1>3, <2>1, SamePool DEF chainVars
  <2>2. CASE Accept(nonce[l], item[l], Nobody)
    <3>1. /\ DOMAIN pool' = DOMAIN pool \cup {nonce[l]}
          /\ pool'[nonce[l]] = [query |-> item[l], waiting |-> Nobody]
          /\ \A n \in DOMAIN pool : pool'[n] = pool[n]
      BY <1>2, <1>3, <2>2, AcceptKeeps
    <3> SUFFICES ASSUME NEW n \in DOMAIN pool', NEW m \in pool'[n].waiting
                 PROVE  pc'[m] = "wait" /\ item'[m] = pool'[n].query /\ nonce'[m] = n
      BY DEF PoolInv
    <3>2. n \in DOMAIN pool /\ m \in pool[n].waiting /\ pool'[n] = pool[n]
      BY <3>1 DEF Nobody
    <3>3. m \in Lanes
      BY <3>2 DEF ChainTypes
    <3> QED  BY <1>1, <1>3, <3>2, <3>3 DEF PoolInv
  <2> QED  BY <1>1, <2>1, <2>2
<1>7. AnswerInv'
  BY <1>1, <1>3, <1>4, SameAnswers
<1>8. QuietInv'
  BY <1>1, DisturbedQuiet
<1> QED  BY <1>3, <1>4, <1>5, <1>6, <1>7, <1>8

LEMMA WaitTimesOutIInv ==
  ASSUME IInv, NEW l \in Lanes, WaitTimesOut(l)
  PROVE  IInv'
<1> USE DEF IInv, TypeInv
<1>1. /\ pc[l] = "wait" /\ resync /\ pc' = [pc EXCEPT ![l] = "resync"] /\ disturbed' = TRUE
      /\ pool' = [n \in DOMAIN pool |-> [pool[n] EXCEPT !.waiting = @ \ {l}]]
      /\ UNCHANGED <<item, nonce, result, mined, processed>>
      /\ UNCHANGED <<runVars, listVars, reportVars>>
  BY DEF WaitTimesOut, SubmitThrows, Goto, StopWaiting, reportVars
<1>2. pc[l] \in AtWork /\ "resync" \in AtWork
  BY <1>1 DEF AtWork, Stages
<1>3. /\ Lanes' = Lanes /\ Groups' = Groups
      /\ \A m \in Lanes : pc'[m] = IF m = l THEN "resync" ELSE pc[m]
      /\ pc' \in [1..Width -> Stages] /\ item' \in [1..Width -> 0..N']
      /\ RunTypes' /\ ListTypes' /\ ListInv' /\ DeadInv' /\ AccountInv'
  BY <1>1, <1>2, MoveBooks
<1>4. /\ DOMAIN pool' = DOMAIN pool
      /\ \A n \in DOMAIN pool : /\ pool'[n] \in [query: Groups, waiting: SUBSET Lanes]
                                /\ pool'[n].query = pool[n].query
                                /\ pool'[n].waiting = pool[n].waiting \ {l}
  BY <1>1 DEF ChainTypes
<1>5. LaneTypes' /\ ChainTypes' /\ AllocatorTypeOK'
  BY <1>1, <1>3, <1>4 DEF AllocatorTypeOK, LaneTypes, ChainTypes, resync, ASKED
<1>6. PoolInv'
  <2> SUFFICES ASSUME NEW n \in DOMAIN pool', NEW m \in pool'[n].waiting
               PROVE  pc'[m] = "wait" /\ item'[m] = pool'[n].query /\ nonce'[m] = n
    BY DEF PoolInv
  <2>1. n \in DOMAIN pool /\ m \in pool[n].waiting /\ m # l /\ m \in Lanes
    BY <1>4 DEF ChainTypes
  <2>2. pc[m] = "wait" /\ item[m] = pool[n].query /\ nonce[m] = n
    BY <2>1 DEF PoolInv
  <2> QED  BY <1>1, <1>3, <1>4, <2>1, <2>2
<1>7. AnswerInv'
  BY <1>1, <1>3, SameAnswers
<1>8. QuietInv'
  BY <1>1, DisturbedQuiet
<1> QED  BY <1>3, <1>5, <1>6, <1>7, <1>8

LEMMA LaneStepIInv ==
  ASSUME IInv, NEW l \in Lanes, LaneStep(l)
  PROVE  IInv'
BY ClaimIInv, DedupedIInv, UnprovenIInv, ProvedIInv, NonceTakenIInv, BroadcastIInv,
   BroadcastFailsIInv, AlreadyProcessedIInv, WaitTimesOutIInv, ReceiptIInv, WaitThrowsIInv
   DEF LaneStep

-----------------------------------------------------------------------------
(* Steps of the node and of the chain *)

\* Nothing happens in the lanes or to the list.
LEMMA IdleKeeps ==
  ASSUME IInv, UNCHANGED <<runVars, laneVars, listVars, reportVars, disturbed>>
  PROVE  /\ Lanes' = Lanes /\ Groups' = Groups
         /\ RunTypes' /\ LaneTypes' /\ ListTypes' /\ ListInv' /\ DeadInv' /\ AccountInv'
<1> USE DEF IInv, TypeInv, runVars, laneVars, listVars, reportVars
<1>1. Lanes' = Lanes /\ Groups' = Groups /\ batchEnd' = batchEnd
  BY SameRun
<1>2. RunTypes' /\ LaneTypes' /\ ListTypes'
  BY <1>1 DEF RunTypes, LaneTypes, ListTypes
<1>3. AllIdle' = AllIdle /\ Busy' = Busy
  BY <1>1 DEF AllIdle, Busy, Awaiting
<1>4. ListInv' /\ DeadInv' /\ AccountInv'
  BY <1>1, <1>3 DEF ListInv, DeadInv, AccountInv
<1> QED  BY <1>1, <1>2, <1>4

LEMMA NodeRepliesIInv ==
  ASSUME IInv, NodeReplies
  PROVE  IInv'
<1> USE DEF IInv, TypeInv
<1>1. /\ read = ASKED /\ read' = PendingCount /\ next' = next
      /\ UNCHANGED <<pc, item, nonce, result, mined, pool, processed, disturbed>>
      /\ UNCHANGED <<runVars, laneVars, listVars, reportVars, disturbed>>
  BY DEF NodeReplies, NodeCounts, laneVars, reportVars, chainVars
<1>2. PendingCount \in Nat /\ (DOMAIN pool = {} => PendingCount = mined)
  BY PendingCountIsFree
<1>3. /\ Lanes' = Lanes /\ Groups' = Groups
      /\ RunTypes' /\ LaneTypes' /\ ListTypes' /\ ListInv' /\ DeadInv' /\ AccountInv'
  BY <1>1, IdleKeeps
<1>4. ChainTypes' /\ AllocatorTypeOK'
  BY <1>1, <1>2, <1>3 DEF AllocatorTypeOK, ChainTypes
<1>5. PoolInv' /\ AnswerInv'
  BY <1>1, <1>3, SamePool, SameAnswers
<1>6. QuietInv'
  <2> SUFFICES ASSUME ~disturbed PROVE next = UNKNOWN /\ Untouched'
    BY <1>1 DEF QuietInv
  <2>1. next = UNKNOWN /\ Untouched
    BY <1>1 DEF QuietInv, Filled, NO_READ, ASKED
  <2>2. InFlight' = InFlight
    BY <1>1, <1>3 DEF InFlight, Awaiting
  <2> QED  BY <1>1, <1>2, <2>1, <2>2 DEF Untouched
<1> QED  BY <1>3, <1>4, <1>5, <1>6

LEMMA OthersProcessIInv ==
  ASSUME IInv, NEW g \in Groups, OthersProcess(g)
  PROVE  IInv'
<1> USE DEF IInv, TypeInv
<1>1. /\ processed' = processed \cup {g}
      /\ UNCHANGED <<pc, item, nonce, result, mined, pool, next, read, disturbed>>
      /\ UNCHANGED <<runVars, laneVars, listVars, reportVars, disturbed>>
  BY DEF OthersProcess, RetireQuery, laneVars, reportVars, allocatorVars
<1>2. /\ Lanes' = Lanes /\ Groups' = Groups
      /\ RunTypes' /\ LaneTypes' /\ ListTypes' /\ ListInv' /\ DeadInv' /\ AccountInv'
  BY <1>1, IdleKeeps
<1>3. ChainTypes' /\ AllocatorTypeOK'
  BY <1>1, <1>2 DEF AllocatorTypeOK, ChainTypes
<1>4. PoolInv' /\ AnswerInv' /\ QuietInv'
  BY <1>1, <1>2, SamePool, SameAnswers, SameFlight
<1> QED  BY <1>2, <1>3, <1>4

\* The lanes that wait for the transaction hold its nonce, and no others do.
LEMMA MineIInv ==
  ASSUME IInv, Mine
  PROVE  IInv'
<1> USE DEF IInv, TypeInv
<1> DEFINE ls == pool[mined].waiting
<1>1. PICK ok \in BOOLEAN :
        /\ mined \in DOMAIN pool /\ mined' = mined + 1
        /\ ok => pool[mined].query \notin processed
        /\ pool' = [n \in DOMAIN pool \ {mined} |-> pool[n]]
        /\ processed' = IF ok THEN processed \cup {pool[mined].query} ELSE processed
        /\ pc' = [l \in 1..Width |-> IF l \notin ls THEN pc[l]
                                     ELSE IF ok THEN "receipt" ELSE "reverted"]
        /\ UNCHANGED <<next, read, item, nonce, result, disturbed>>
        /\ UNCHANGED <<runVars, item, listVars, reportVars>>
  BY DEF Mine, Execute, allocatorVars, reportVars
<1>2. /\ mined \in Nat /\ ls \subseteq Lanes /\ pool[mined].query \in Groups
      /\ \A l \in ls : pc[l] = "wait" /\ item[l] = pool[mined].query /\ nonce[l] = mined
  BY <1>1 DEF ChainTypes, PoolInv
<1>3. \A l \in Lanes : pc'[l] = IF l \notin ls THEN pc[l]
                                ELSE IF ok THEN "receipt" ELSE "reverted"
  BY <1>1, SomeLanes
<1> HIDE DEF ls
<1>4. /\ DOMAIN pool' = DOMAIN pool \ {mined} /\ \A n \in DOMAIN pool' : pool'[n] = pool[n]
      /\ IsFiniteSet(DOMAIN pool \ {mined})
  BY <1>1, FS_RemoveElement DEF ChainTypes
<1>5. /\ Lanes' = Lanes /\ Groups' = Groups /\ LaneTypes'
      /\ RunTypes' /\ ListTypes' /\ ListInv' /\ DeadInv' /\ AccountInv'
  <2>1. pc' \in [1..Width -> Stages] /\ disturbed' \in BOOLEAN
    BY <1>1 DEF LaneTypes, Stages, RunTypes
  <2>2. {"wait", "receipt", "reverted"} \subseteq AtWork
    BY DEF AtWork, Stages
  <2>3. \A m \in Lanes : pc'[m] = pc[m] \/ (pc[m] \in AtWork /\ pc'[m] \in AtWork)
    BY <1>2, <1>3, <2>2
  <2>4. /\ Lanes' = Lanes /\ Groups' = Groups
        /\ item' \in [1..Width -> 0..N']
        /\ RunTypes' /\ ListTypes' /\ ListInv' /\ DeadInv' /\ AccountInv'
    BY <1>1, <2>1, <2>3, WorkBooks
  <2> QED  BY <1>1, <2>1, <2>4 DEF LaneTypes
<1>6. ChainTypes' /\ AllocatorTypeOK'
  BY <1>1, <1>2, <1>4, <1>5 DEF ChainTypes, AllocatorTypeOK
<1>7. PoolInv'
  <2> SUFFICES ASSUME NEW n \in DOMAIN pool', NEW l \in pool'[n].waiting
               PROVE  pc'[l] = "wait" /\ item'[l] = pool'[n].query /\ nonce'[l] = n
    BY DEF PoolInv
  <2>1. n \in DOMAIN pool /\ n # mined /\ l \in pool[n].waiting /\ pool'[n] = pool[n]
    BY <1>4
  <2>2. pc[l] = "wait" /\ item[l] = pool[n].query /\ nonce[l] = n /\ l \in Lanes
    BY <2>1 DEF PoolInv, ChainTypes
  <2> QED  BY <1>1, <1>2, <1>3, <2>1, <2>2
<1>8. AnswerInv'
  <2>1. processed \subseteq processed' /\ item' = item /\ result' = result
    BY <1>1
  <2>2. ASSUME NEW l \in Lanes, pc'[l] \in {"receipt", "refused"}
        PROVE  item'[l] \in processed' \/ (pc'[l] = pc[l] /\ item'[l] = item[l])
    BY <1>1, <1>2, <1>3, <2>1, <2>2
  <2> QED  BY <1>5, <2>1, <2>2, SameAnswers
<1>9. QuietInv'
  <2> SUFFICES ASSUME ~disturbed PROVE next # UNKNOWN /\ Filled'
    BY <1>1 DEF QuietInv
  <2>1. next # UNKNOWN /\ Filled
    BY <1>1 DEF QuietInv, Untouched
  <2>2. next \in Nat
    BY <2>1 DEF AllocatorTypeOK
  <2>3. ls = {l \in InFlight : nonce[l] = mined}
    <3>1. ASSUME NEW l \in InFlight, nonce[l] = mined
          PROVE  l \in ls
      <4>1. PICK m \in Lanes : pc[m] = "wait" /\ nonce[m] = mined
        BY <1>1, <2>1 DEF Filled
      <4>2. m = l
        BY <2>1, <3>1, <4>1 DEF Filled, InFlight, Awaiting
      <4> QED  BY <2>1, <4>1, <4>2 DEF Filled, ls
    <3> QED  BY <1>2, <3>1 DEF InFlight, Awaiting
  <2>4. InFlight' = InFlight \ ls
    BY <1>1, <1>2, <1>3, <1>5 DEF InFlight, Awaiting
  <2>5. \A l \in InFlight' : nonce'[l] = nonce[l] /\ nonce[l] \in (mined + 1)..(next - 1)
    BY <1>1, <1>2, <2>1, <2>2, <2>3, <2>4 DEF Filled
  <2>6. mined + 1 <= next
    BY <1>1, <1>2, <2>1, <2>2 DEF Filled, InFlight, Awaiting
  <2>7. \A k, m \in InFlight' : nonce'[k] = nonce'[m] => k = m
    BY <2>1, <2>4, <2>5 DEF Filled
  <2>8. ASSUME NEW n \in (mined + 1)..(next - 1)
        PROVE  \E l \in InFlight' : nonce'[l] = n
    <3>1. n \in mined..(next - 1) /\ n # mined
      BY <1>2, <2>2
    <3>2. PICK l \in InFlight : nonce[l] = n
      BY <2>1, <3>1 DEF Filled
    <3> QED  BY <2>3, <2>4, <2>5, <3>1, <3>2
  <2>9. \A l \in Lanes : pc'[l] = "wait" => nonce'[l] \in DOMAIN pool' /\ l \in pool'[nonce'[l]].waiting
    <3> SUFFICES ASSUME NEW l \in Lanes, pc'[l] = "wait"
                 PROVE  nonce[l] \in DOMAIN pool' /\ l \in pool'[nonce[l]].waiting
      BY <1>1
    <3>1. pc[l] = "wait" /\ l \notin ls
      BY <1>3
    <3>2. nonce[l] \in DOMAIN pool /\ l \in pool[nonce[l]].waiting
      BY <2>1, <3>1 DEF Filled
    <3>3. nonce[l] # mined
      BY <3>1, <3>2 DEF ls
    <3> QED  BY <1>4, <3>2, <3>3
  <2>10. \A n \in DOMAIN pool' : \E l \in Lanes : pc'[l] = "wait" /\ nonce'[l] = n
    <3> SUFFICES ASSUME NEW n \in DOMAIN pool'
                 PROVE  \E l \in Lanes : pc'[l] = "wait" /\ nonce'[l] = n
      OBVIOUS
    <3>1. n \in DOMAIN pool /\ n # mined
      BY <1>4
    <3>2. PICK l \in Lanes : pc[l] = "wait" /\ nonce[l] = n
      BY <2>1, <3>1 DEF Filled
    <3>3. l \notin ls
      BY <1>2, <3>1, <3>2
    <3> QED  BY <1>1, <1>3, <3>2, <3>3
  <2>11. /\ read' = NO_READ /\ mined' = mined + 1 /\ next' = next
         /\ mined'..(next' - 1) \subseteq {nonce'[l] : l \in InFlight'}
         /\ \A l \in InFlight' : nonce'[l] \in mined'..(next' - 1)
    BY <1>1, <2>1, <2>5, <2>8 DEF Filled
  <2> QED  BY <1>5, <2>1, <2>6, <2>7, <2>9, <2>10, <2>11 DEF Filled
<1> QED  BY <1>5, <1>6, <1>7, <1>8, <1>9

\* The lanes that waited for the allocator end.
LEMMA AllReportKeeps ==
  ASSUME IInv, NEW ls \in SUBSET Busy, NEW r \in {"already-mirrored", "failed"},
         AllReport(ls, r), \A l \in ls : pc[l] \notin {"submit", "wait"},
         disturbed' \in BOOLEAN, UNCHANGED <<runVars, listVars, lost, chainVars>>
  PROVE  /\ Lanes' = Lanes /\ Groups' = Groups
         /\ \A l \in Lanes : pc'[l] = IF l \in ls THEN "free" ELSE pc[l]
         /\ \A l \in Lanes \ ls : nonce'[l] = nonce[l]
         /\ RunTypes' /\ LaneTypes' /\ ListTypes' /\ ChainTypes'
         /\ ListInv' /\ DeadInv' /\ AccountInv' /\ PoolInv' /\ AnswerInv'
<1> USE DEF IInv, TypeInv, runVars, listVars, chainVars
<1>1. /\ pc' = [l \in 1..Width |-> IF l \in ls THEN "free" ELSE pc[l]]
      /\ item' = [l \in 1..Width |-> IF l \in ls THEN 0 ELSE item[l]]
      /\ nonce' = [l \in 1..Width |-> IF l \in ls THEN NO_NONCE ELSE nonce[l]]
      /\ result' = [g \in Groups |->
           IF \E l \in ls : item[l] = g /\ pc[l] = "refused" THEN r
           ELSE IF \E l \in ls : item[l] = g THEN "failed" ELSE result[g]]
  BY DEF AllReport
<1>2. Lanes' = Lanes /\ Groups' = Groups
  BY SameRun
<1>3. /\ \A l \in Lanes : pc'[l] = IF l \in ls THEN "free" ELSE pc[l]
      /\ \A l \in Lanes \ ls : nonce'[l] = nonce[l] /\ item'[l] = item[l]
  BY <1>1, SomeLanes
<1>4. N \in Nat /\ 0 \in 0..N
  BY DEF RunTypes
<1>5. RunTypes' /\ LaneTypes' /\ ChainTypes'
  <2>1. LaneTypes'
    BY <1>1, <1>4 DEF LaneTypes, Stages
  <2> QED  BY <1>2, <2>1 DEF RunTypes, ChainTypes
<1>6. ListTypes'
  <2>1. result' \in [Groups -> Results \cup {"none"}]
    BY <1>1 DEF ListTypes, Results
  <2> QED  BY <1>2, <2>1 DEF ListTypes
<1>7. \A g \in Groups : /\ (\E l \in ls : item[l] = g) => result'[g] \in {r, "failed"}
                        /\ (\A l \in ls : item[l] # g) => result'[g] = result[g]
  BY <1>1
<1>8. ListInv' /\ DeadInv' /\ AccountInv'
  <2>1. /\ ListInv /\ DeadInv /\ AccountInv /\ stage' = stage /\ lost' = lost
        /\ UNCHANGED <<program, N, cuts, from, idx, limit>>
    OBVIOUS
  <2>2. \A m \in Busy : m \in Lanes /\ item[m] \in Groups /\ result[item[m]] = "none" /\ item[m] \notin lost
    BY BusyItems DEF AccountInv
  <2>3. \A g \in Groups : result'[g] = "none" /\ g \notin lost' <=>
          result[g] = "none" /\ g \notin lost /\ \A m \in ls : item[m] # g
    <3>1. r # "none"
      OBVIOUS
    <3> QED  BY <1>7, <2>1, <2>2, <3>1
  <2>4. /\ \A m \in ls : pc'[m] \in {"free", "dead"} /\ (pc'[m] = "dead" => program # "batch" /\ item'[m] \in lost')
        /\ \A m \in Lanes \ ls : /\ item'[m] = item[m]
                                 /\ pc'[m] = pc[m] \/ (m \in Busy /\ pc'[m] \in AtWork)
        /\ lost \subseteq lost'
    BY <1>3, <2>1, <2>2
  <2>5. idx \in 1..(N + 1)
    BY DEF ListTypes
  <2> QED  BY <1>4, <2>1, <2>2, <2>3, <2>4, <2>5, LanesKeepBooks
<1>9. PoolInv'
  BY <1>3, SamePool
<1>10. AnswerInv'
  <2>1. \A g \in Groups : result'[g] \in {result[g], "failed", "none"} \/ g \in processed'
    <3> SUFFICES ASSUME NEW g \in Groups
                 PROVE  result'[g] \in {result[g], "failed"} \/ g \in processed
      BY Zenon
    <3>1. CASE \E l \in ls : item[l] = g /\ pc[l] = "refused"
      BY <3>1 DEF AnswerInv, Busy, Awaiting
    <3>2. CASE ~ \E l \in ls : item[l] = g /\ pc[l] = "refused"
      BY <1>1, <3>2
    <3> QED  BY <3>1, <3>2
  <2>2. \A l \in Lanes : pc'[l] \in {"receipt", "refused"} => pc'[l] = pc[l] /\ item'[l] = item[l]
    BY <1>3
  <2> QED  BY <1>2, <2>1, <2>2, SameAnswers
<1> QED  BY <1>2, <1>3, <1>5, <1>6, <1>8, <1>9, <1>10

LEMMA ResyncedIInv ==
  ASSUME IInv, Resynced
  PROVE  IInv'
<1> DEFINE ls == Awaiting({"resync", "refused"})
<1>1. /\ read \in Nat /\ next' = read /\ read' = NO_READ
      /\ AllReport(ls, "already-mirrored")
      /\ UNCHANGED <<runVars, listVars, lost, disturbed, chainVars>>
  BY DEF Resynced, ReadResolves
<1>2. /\ ls \in SUBSET Busy /\ \A l \in ls : pc[l] \notin {"submit", "wait"}
      /\ disturbed' \in BOOLEAN
  BY <1>1 DEF Awaiting, Busy, AtWork, Stages, IInv, TypeInv, RunTypes
<1> HIDE DEF ls
<1>3. /\ Lanes' = Lanes /\ Groups' = Groups
      /\ \A l \in Lanes : pc'[l] = IF l \in ls THEN "free" ELSE pc[l]
      /\ \A l \in Lanes \ ls : nonce'[l] = nonce[l]
      /\ RunTypes' /\ LaneTypes' /\ ListTypes' /\ ChainTypes'
      /\ ListInv' /\ DeadInv' /\ AccountInv' /\ PoolInv' /\ AnswerInv'
  BY <1>1, <1>2, AllReportKeeps
<1>4. AllocatorTypeOK'
  BY <1>1 DEF AllocatorTypeOK
<1>5. QuietInv'
  <2> SUFFICES ASSUME ~disturbed PROVE next' # UNKNOWN /\ Filled'
    BY <1>1 DEF QuietInv
  <2>1. Untouched /\ read = 0
    BY <1>1 DEF IInv, QuietInv, Untouched, Filled, NO_READ, ASKED
  <2>2. InFlight' = {}
    BY <1>3, <2>1 DEF InFlight, Awaiting, Untouched
  <2>3. \A l \in Lanes : pc'[l] # "wait"
    BY <1>3, <2>2 DEF InFlight, Awaiting
  <2> QED  BY <1>1, <1>3, <2>1, <2>2, <2>3 DEF Filled, Untouched, chainVars, UNKNOWN
<1> QED  BY <1>3, <1>4, <1>5 DEF IInv, TypeInv

LEMMA ReadFailsIInv ==
  ASSUME IInv, ReadFails
  PROVE  IInv'
<1> USE DEF IInv, TypeInv
<1> DEFINE ls == Awaiting({"take", "resync", "refused"})
<1>1. /\ read' = NO_READ /\ next' = next /\ disturbed' = TRUE
      /\ UNCHANGED <<runVars, from, idx, limit, chainVars>>
  BY DEF ReadFails, ReadRejects
<1>2. ls \in SUBSET Busy /\ \A l \in ls : pc[l] \in {"take", "resync", "refused"} /\ l \in Lanes
  BY DEF Awaiting, Busy, AtWork, Stages
<1>3. AllocatorTypeOK' /\ QuietInv'
  BY <1>1, DisturbedQuiet DEF AllocatorTypeOK
<1>4. CASE program = "batch"
  <2>1. AllReport(ls, "failed") /\ UNCHANGED <<lost, stage>>
    BY <1>4 DEF ReadFails
  <2>2. UNCHANGED listVars /\ disturbed' \in BOOLEAN
    BY <1>1, <2>1 DEF listVars
  <2> HIDE DEF ls
  <2> QED  BY <1>1, <1>2, <1>3, <2>1, <2>2, AllReportKeeps
<1>5. CASE program # "batch"
  <2>1. /\ pc' = [l \in 1..Width |-> IF l \in ls THEN "dead" ELSE pc[l]]
        /\ lost' = lost \cup {item[l] : l \in ls}
        /\ stage' = IF program = "worker" /\ ls # {} THEN "over" ELSE stage
        /\ UNCHANGED <<item, nonce, result>>
    BY <1>5 DEF ReadFails
  <2> HIDE DEF ls
  <2>2. Lanes' = Lanes /\ Groups' = Groups /\ UNCHANGED <<program, N, cuts>>
    BY <1>1, SameRun DEF runVars
  <2>3. \A l \in Lanes : pc'[l] = IF l \in ls THEN "dead" ELSE pc[l]
    BY <2>1, SomeLanes
  <2>4. \A m \in Busy : m \in Lanes /\ item[m] \in Groups
    BY BusyItems
  <2>5. RunTypes' /\ LaneTypes' /\ ListTypes' /\ ChainTypes'
    <3>1. RunTypes' /\ ChainTypes'
      BY <1>1, <2>2 DEF RunTypes, ChainTypes, runVars, chainVars
    <3>2. LaneTypes'
      BY <2>1, <2>2 DEF LaneTypes, Stages
    <3>3. lost' \subseteq Groups /\ stage' \in {"attest", "shared", "lanes", "over"}
      BY <1>2, <2>1, <2>4 DEF ListTypes
    <3> QED  BY <1>1, <2>1, <2>2, <3>1, <3>2, <3>3 DEF ListTypes
  <2>6. ListInv' /\ DeadInv' /\ AccountInv'
    <3>1. stage' = stage \/ (stage' = "over" /\ AllIdle' /\ lost' # {})
      <4>1. CASE program = "worker" /\ ls # {}
        <5>1. Lanes = {1} /\ ls = {1}
          BY <1>2, <4>1 DEF Lanes
        <5>2. AllIdle'
          BY <2>2, <2>3, <5>1 DEF AllIdle
        <5> QED  BY <2>1, <4>1, <5>2
      <4> QED  BY <2>1, <4>1
    <3>2. \A g \in Groups : result'[g] = "none" /\ g \notin lost' <=>
            result[g] = "none" /\ g \notin lost /\ \A m \in ls : item[m] # g
      BY <2>1
    <3>3. /\ \A m \in ls : pc'[m] \in {"free", "dead"} /\ (pc'[m] = "dead" => program # "batch" /\ item'[m] \in lost')
          /\ \A m \in Lanes \ ls : /\ item'[m] = item[m]
                                   /\ pc'[m] = pc[m] \/ (m \in Busy /\ pc'[m] \in AtWork)
          /\ lost \subseteq lost'
      BY <1>2, <1>5, <2>1, <2>3
    <3>4. /\ ListInv /\ DeadInv /\ AccountInv /\ N \in Nat /\ idx \in 1..(N + 1)
          /\ UNCHANGED <<program, N, cuts, from, idx, limit>>
      BY <1>1, <2>2 DEF RunTypes, ListTypes
    <3> QED  BY <1>2, <2>4, <3>1, <3>2, <3>3, <3>4, LanesKeepBooks
  <2>7. PoolInv'
    BY <1>1, <1>2, <2>1, <2>3, SamePool DEF chainVars
  <2>8. AnswerInv'
    BY <1>1, <2>1, <2>2, <2>3, SameAnswers DEF chainVars
  <2> QED  BY <1>3, <2>5, <2>6, <2>7, <2>8
<1> QED  BY <1>4, <1>5

\* The process begins again; what it has sent stays in the pool, and nobody waits.
LEMMA KillIInv ==
  ASSUME IInv, Kill
  PROVE  IInv'
<1> USE DEF IInv, TypeInv
<1>1. /\ kills < MaxKills /\ kills' = kills + 1 /\ disturbed' = TRUE
      /\ stage' = (IF program = "batch" THEN "attest" ELSE "lanes")
      /\ pc' = [l \in 1..Width |-> "free"] /\ item' = [l \in 1..Width |-> 0]
      /\ nonce' = [l \in 1..Width |-> NO_NONCE]
      /\ from' = 1 /\ idx' = 1 /\ limit' = (IF program = "batch" THEN 0 ELSE N)
      /\ result' = [g \in Groups |-> "none"] /\ lost' = {}
      /\ next' = UNKNOWN /\ read' = NO_READ
      /\ pool' = [n \in DOMAIN pool |-> [pool[n] EXCEPT !.waiting = Nobody]]
      /\ UNCHANGED <<program, N, cuts, mined, processed>>
  BY DEF Kill
<1>2. Lanes' = Lanes /\ Groups' = Groups /\ N \in Nat \ {0} /\ MaxKills \in Nat
  BY <1>1, SameRun, LanesAssumption DEF RunTypes
<1>3. RunTypes'
  BY <1>1, <1>2 DEF RunTypes
<1>4. LaneTypes'
  BY <1>1, <1>2 DEF LaneTypes, Stages
<1>5. ListTypes'
  BY <1>1, <1>2 DEF ListTypes
<1>6. /\ DOMAIN pool' = DOMAIN pool
      /\ \A n \in DOMAIN pool : /\ pool'[n] \in [query: Groups, waiting: SUBSET Lanes]
                                /\ pool'[n].waiting = {}
  BY <1>1 DEF ChainTypes, Nobody
<1>7. ChainTypes' /\ PoolInv' /\ AllocatorTypeOK'
  BY <1>1, <1>2, <1>6 DEF ChainTypes, PoolInv, AllocatorTypeOK
<1>8. \A l \in Lanes : pc'[l] = "free"
  BY <1>1, SomeLanes
<1>9. AllIdle' /\ Busy' = {} /\ DeadInv'
  BY <1>2, <1>8 DEF AllIdle, Busy, Awaiting, AtWork, DeadInv
<1>10. batchEnd' \in 1..N /\ (program # "batch" => batchEnd' = N)
  <2>1. batchEnd' = Min({N} \cup {c \in cuts : c >= from'})
    BY <1>1, Zenon DEF batchEnd
  <2>2. N \in Nat \ {0} /\ cuts \subseteq 1..(N - 1) /\ from' \in Nat \ {0}
    BY <1>1, <1>2 DEF RunTypes
  <2>3. batchEnd' \in 1..N
    BY <2>1, <2>2, BatchEndFrom, Zenon
  <2>4. ASSUME program # "batch" PROVE batchEnd' = N
    <3>1. cuts' = {} /\ N' = N
      BY <1>1, <2>4 DEF RunTypes
    <3>2. {N'} \cup {c \in cuts' : c >= from'} = {N}
      BY <3>1
    <3>3. batchEnd' = CHOOSE x \in {N} : \A y \in {N} : x =< y
      BY <3>2, Zenon DEF batchEnd, Min
    <3> QED  BY <1>2, <3>3
  <2> QED  BY <2>3, <2>4
<1>11. ListInv'
  <2>1. from' <= idx' /\ idx' <= batchEnd' + 1 /\ limit' <= batchEnd'
    BY <1>1, <1>2, <1>10
  <2> QED  BY <1>1, <1>2, <1>9, <2>1 DEF ListInv
<1>12. AccountInv'
  BY <1>1, <1>2, <1>9 DEF AccountInv, Groups
<1>13. AnswerInv'
  BY <1>1, <1>2, <1>8 DEF AnswerInv, ResultsAreTrue
<1>14. QuietInv'
  BY <1>1, DisturbedQuiet
<1> QED  BY <1>3, <1>4, <1>5, <1>7, <1>9, <1>11, <1>12, <1>13, <1>14

LEMMA StutterIInv ==
  ASSUME IInv, UNCHANGED lanesVars
  PROVE  IInv'
<1> USE DEF IInv, TypeInv
<1>1. /\ UNCHANGED <<pc, item, nonce, result, mined, pool, processed, next, read, disturbed>>
      /\ UNCHANGED <<runVars, laneVars, listVars, reportVars, disturbed>>
  BY DEF lanesVars, laneVars, reportVars, chainVars, allocatorVars
<1>2. /\ Lanes' = Lanes /\ Groups' = Groups
      /\ RunTypes' /\ LaneTypes' /\ ListTypes' /\ ListInv' /\ DeadInv' /\ AccountInv'
  BY <1>1, IdleKeeps
<1>3. ChainTypes' /\ AllocatorTypeOK'
  BY <1>1, <1>2 DEF AllocatorTypeOK, ChainTypes
<1>4. PoolInv' /\ AnswerInv' /\ QuietInv'
  BY <1>1, <1>2, SamePool, SameAnswers, SameFlight
<1> QED  BY <1>2, <1>3, <1>4

LEMMA LanesInvariant == LanesSpec => []IInv
<1>1. LanesInit => IInv
  BY InitIInv
<1>2. IInv /\ [LanesNext]_lanesVars => IInv'
  <2> SUFFICES ASSUME IInv, [LanesNext]_lanesVars PROVE IInv'
    OBVIOUS
  <2>1. CASE ListStep
    BY <2>1, AttestedIInv, AttestFailsIInv, SharedSubmittedIInv, SharedFailsIInv,
       NextSliceIInv, ListDoneIInv DEF ListStep
  <2>2. ASSUME NEW l \in Lanes, LaneStep(l) PROVE IInv'
    BY <2>2, LaneStepIInv
  <2>3. CASE ReadStep
    BY <2>3, NodeRepliesIInv, ResyncedIInv, ReadFailsIInv DEF ReadStep
  <2>4. CASE Mine
    BY <2>4, MineIInv
  <2>5. ASSUME NEW g \in Groups, OthersProcess(g) PROVE IInv'
    BY <2>5, OthersProcessIInv
  <2>6. CASE Kill
    BY <2>6, KillIInv
  <2>7. CASE UNCHANGED lanesVars
    BY <2>7, StutterIInv
  <2> QED  BY <2>1, <2>2, <2>3, <2>4, <2>5, <2>6, <2>7 DEF LanesNext
<1> QED  BY <1>1, <1>2, PTL DEF LanesSpec

-----------------------------------------------------------------------------
(* Theorems *)

\* Every variable of the run has its type; in particular a lane that loses its group,
\* or waits for a nonce, has one, and the node always has a count to answer.
THEOREM LanesTypeCorrect == LanesSpec => []LanesTypeOK
<1>1. IInv => LanesTypeOK
  <2> SUFFICES ASSUME IInv PROVE LanesTypeOK
    OBVIOUS
  <2>1. \A n \in DOMAIN pool : n \in Nat /\ pool[n].query \in Groups
    BY DEF IInv, TypeInv, ChainTypes
  <2> QED  BY <2>1 DEF IInv, TypeInv, RunTypes, LaneTypes, ListTypes, ChainTypes, LanesTypeOK
<1> QED  BY <1>1, LanesInvariant, PTL

\* What a run reports as mirrored is retired at the registry, whatever timed out, was
\* killed or was submitted by others meanwhile.
THEOREM LanesReportTheTruth == LanesSpec => []ResultsAreTrue
<1>1. IInv => ResultsAreTrue
  BY DEF IInv, AnswerInv
<1> QED  BY <1>1, LanesInvariant, PTL

\* Lists of any length in any cut: no group is forgotten or in two lanes.
THEOREM LanesLoseNoGroup == LanesSpec => []EveryGroupIsAccountedFor
<1>1. ASSUME IInv PROVE EveryGroupIsAccountedFor
  <2> USE <1>1 DEF IInv
  <2>1. ASSUME NEW g \in 1..(idx - 1)
        PROVE  Cardinality({l \in Busy : item[l] = g})
                 = IF result[g] = "none" /\ g \notin lost THEN 1 ELSE 0
    <3>1. CASE result[g] = "none" /\ g \notin lost
      <4>1. PICK l \in Busy : item[l] = g
        BY <2>1, <3>1 DEF AccountInv
      <4>2. {m \in Busy : item[m] = g} = {l}
        BY <4>1 DEF AccountInv
      <4> QED  BY <3>1, <4>2, FS_Singleton
    <3>2. CASE ~(result[g] = "none" /\ g \notin lost)
      <4>1. {m \in Busy : item[m] = g} = {}
        BY <3>2 DEF AccountInv
      <4> QED  BY <3>2, <4>1, FS_EmptySet
    <3> QED  BY <3>1, <3>2
  <2>2. ASSUME stage = "over", lost = {}, NEW g \in Groups
        PROVE  result[g] # "none"
    <3>1. idx = N + 1 /\ Busy = {}
      BY <2>2 DEF ListInv, AllIdle, Busy, Awaiting, AtWork
    <3>2. g \in 1..(idx - 1)
      BY <3>1 DEF Groups, TypeInv, RunTypes
    <3> QED  BY <2>2, <3>1, <3>2 DEF AccountInv
  <2> QED  BY <2>1, <2>2 DEF EveryGroupIsAccountedFor, Busy, AtWork
<1> QED  BY <1>1, LanesInvariant, PTL

\* Any number of lanes share the allocator without a collision or a gap, until the
\* first failure.
THEOREM LanesLeaveNoGap == LanesSpec => []NoGapUntilDisturbed
<1>1. IInv => NoGapUntilDisturbed
  BY DEF IInv, QuietInv, Filled, NoGapUntilDisturbed
<1> QED  BY <1>1, LanesInvariant, PTL


=============================================================================
