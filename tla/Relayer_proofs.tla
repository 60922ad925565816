--------------------------- MODULE Relayer_proofs ---------------------------
(***************************************************************************)
(* The relayer, for every capacity, interval, ceiling, number of requests  *)
(* in progress and set of clients.  First the limiter, which shares no     *)
(* variable with the rest: its types, the promise of its 429 and the burst *)
(* it bounds.  Then the requests: what the lanes hold, what they answer,   *)
(* what the guard lets them spend, and the nonces between them.            *)
(***************************************************************************)
EXTENDS Relayer, DataLemmas

\* While a client is refused its bucket stays, empty, and not refilled since
\* the first refusal; so what the hint says of time is said of the bucket.
RefusedInv ==
  \A ip \in Ips : refusedAt[ip] # NEVER =>
    /\ ip \in DOMAIN buckets
    /\ buckets[ip].tokens = 0
    /\ buckets[ip].lastRefillAt <= refusedAt[ip]
    /\ refusedLast[ip] < refusedAt[ip] + REFILL_INTERVAL

\* No bucket is dated in the future.
DatedInv == \A ip \in DOMAIN buckets : buckets[ip].lastRefillAt <= now

LimiterInv == LimiterTypeOK /\ DatedInv /\ RefusedInv

-----------------------------------------------------------------------------
\* Whole intervals in a stretch of time.
LEMMA Intervals ==
  ASSUME NEW t \in Nat
  PROVE  /\ t \div REFILL_INTERVAL \in Nat
         /\ t \div REFILL_INTERVAL < 1 => t < REFILL_INTERVAL
  BY RateAssumption

\* The bucket takeToken sees; when it is empty it is the one that is stored.
LEMMA BucketOfType ==
  ASSUME LimiterInv, NEW ip \in Ips
  PROVE  /\ BucketOf(ip) \in Bucket
         /\ BucketOf(ip).lastRefillAt <= now
         /\ BucketOf(ip).tokens = 0 =>
              /\ ip \in DOMAIN buckets /\ BucketOf(ip) = buckets[ip]
              /\ now - buckets[ip].lastRefillAt < REFILL_INTERVAL
<1> USE RateAssumption
<1>1. now \in Times /\ now \in Nat
  BY DEF LimiterInv, LimiterTypeOK, Times
<1>2. CASE ip \notin DOMAIN buckets
  BY <1>1, <1>2 DEF BucketOf, Bucket
<1>3. CASE ip \in DOMAIN buckets
  <2> DEFINE b == buckets[ip]
             grant == (now - b.lastRefillAt) \div REFILL_INTERVAL
  <2>1. b \in Bucket /\ b.tokens \in 0..CAPACITY /\ b.lastRefillAt \in Times
        /\ b.lastRefillAt <= now
    BY <1>3 DEF LimiterInv, LimiterTypeOK, DatedInv, Bucket
  <2>2. now - b.lastRefillAt \in Nat
    BY <1>1, <2>1 DEF Times
  <2>3. grant \in Nat /\ (grant < 1 => now - b.lastRefillAt < REFILL_INTERVAL)
    BY <2>2, Intervals
  <2>4. BucketOf(ip) = IF grant >= 1
                       THEN [tokens |-> AtMost(b.tokens + grant, CAPACITY), lastRefillAt |-> now]
                       ELSE b
    BY <1>3 DEF BucketOf, Refilled
  <2> HIDE DEF b, grant
  <2>5. CASE grant >= 1
    <3>1. AtMost(b.tokens + grant, CAPACITY) \in 0..CAPACITY
          /\ AtMost(b.tokens + grant, CAPACITY) # 0
      BY <2>1, <2>3, <2>5 DEF AtMost
    <3> QED  BY <1>1, <2>4, <2>5, <3>1 DEF Bucket
  <2>6. CASE ~(grant >= 1)
    BY <1>3, <2>1, <2>3, <2>4, <2>6 DEF b
  <2> QED  BY <2>5, <2>6
<1> QED  BY <1>2, <1>3

LEMMA SetBucketType ==
  ASSUME LimiterInv, NEW ip \in Ips, NEW b \in Bucket, b.lastRefillAt <= now,
         SetBucket(ip, b), UNCHANGED now
  PROVE  /\ DOMAIN buckets' = DOMAIN buckets \cup {ip} /\ DOMAIN buckets' \in SUBSET Ips
         /\ buckets'[ip] = b
         /\ \A i \in DOMAIN buckets \ {ip} : buckets'[i] = buckets[i]
         /\ \A i \in DOMAIN buckets' : buckets'[i] \in Bucket
         /\ DatedInv'
<1>1. /\ DOMAIN buckets' = DOMAIN buckets \cup {ip}
      /\ buckets'[ip] = b
      /\ \A i \in DOMAIN buckets \ {ip} : buckets'[i] = buckets[i]
  BY DEF SetBucket
<1> QED  BY <1>1 DEF LimiterInv, LimiterTypeOK, DatedInv

LEMMA InitLimiterInv == LimiterInit => LimiterInv
  BY RateAssumption DEF LimiterInit, LimiterInv, LimiterTypeOK, DatedInv, RefusedInv, Times, NEVER

LEMMA AdmitLimiterInv ==
  ASSUME LimiterInv, NEW ip \in Ips, Admit(ip)
  PROVE  LimiterInv'
<1> DEFINE b == Taken(BucketOf(ip))
<1>1. b \in Bucket /\ b.lastRefillAt <= now
  BY BucketOfType, RateAssumption DEF Admit, Bucket, Taken
<1>2. SetBucket(ip, b) /\ UNCHANGED now
  BY DEF Admit
<1> HIDE DEF b
<1>3. DatedInv'
  BY <1>1, <1>2, SetBucketType
<1>4. LimiterTypeOK'
  <2>1. now \in Times /\ admitted \in [Ips -> [BEFORE..MaxTime -> Nat]]
    BY DEF LimiterInv, LimiterTypeOK
  <2> DEFINE row == [t \in BEFORE..MaxTime |->
                      IF t >= now THEN admitted[ip][t] + 1 ELSE admitted[ip][t]]
  <2>2. admitted[ip] \in [BEFORE..MaxTime -> Nat]
    BY <2>1
  <2>3. row \in [BEFORE..MaxTime -> Nat]
    <3>1. \A t \in BEFORE..MaxTime : admitted[ip][t] \in Nat
      BY <2>2
    <3>2. \A t \in BEFORE..MaxTime :
            (IF t >= now THEN admitted[ip][t] + 1 ELSE admitted[ip][t]) \in Nat
      BY <3>1
    <3> QED  BY <3>2
  <2>4. admitted' = [admitted EXCEPT ![ip] = row]
    BY DEF Admit
  <2> HIDE DEF row
  <2>5. admitted' \in [Ips -> [BEFORE..MaxTime -> Nat]]
    BY <2>1, <2>3, <2>4
  <2> QED  BY <1>1, <1>2, <2>5, SetBucketType DEF Admit, LimiterInv, LimiterTypeOK, NEVER
<1>5. RefusedInv'
  BY <1>1, <1>2, SetBucketType DEF Admit, LimiterInv, LimiterTypeOK, RefusedInv
<1> QED  BY <1>3, <1>4, <1>5 DEF LimiterInv

LEMMA RefuseLimiterInv ==
  ASSUME LimiterInv, NEW ip \in Ips, Refuse(ip)
  PROVE  LimiterInv'
<1>1. /\ BucketOf(ip) \in Bucket /\ BucketOf(ip).lastRefillAt <= now
      /\ ip \in DOMAIN buckets /\ BucketOf(ip) = buckets[ip] /\ buckets[ip].tokens = 0
  BY BucketOfType DEF Refuse
<1>2. SetBucket(ip, buckets[ip]) /\ UNCHANGED now
  BY <1>1 DEF Refuse
<1>3. DatedInv'
  BY <1>1, <1>2, SetBucketType
<1>4. LimiterTypeOK'
  BY <1>1, <1>2, SetBucketType DEF Refuse, LimiterInv, LimiterTypeOK
<1>5. RefusedInv'
  <2> SUFFICES ASSUME NEW i \in Ips, refusedAt'[i] # NEVER
               PROVE  /\ i \in DOMAIN buckets' /\ buckets'[i].tokens = 0
                      /\ buckets'[i].lastRefillAt <= refusedAt'[i]
                      /\ refusedLast'[i] < refusedAt'[i] + REFILL_INTERVAL
    BY DEF RefusedInv
  <2>1. /\ ip \in DOMAIN buckets' /\ buckets'[ip] = buckets[ip]
        /\ \A j \in DOMAIN buckets \ {ip} : j \in DOMAIN buckets' /\ buckets'[j] = buckets[j]
    BY <1>1, <1>2, SetBucketType
  <2>2. CASE i # ip
    BY <2>1, <2>2 DEF Refuse, LimiterInv, LimiterTypeOK, RefusedInv
  <2>3. CASE i = ip
    <3>1. /\ refusedLast'[ip] = now
          /\ refusedAt'[ip] = IF refusedAt[ip] = NEVER THEN now ELSE refusedAt[ip]
      BY DEF Refuse, LimiterInv, LimiterTypeOK
    <3>2. now \in Int /\ buckets[ip].lastRefillAt \in Int /\ refusedAt[ip] \in Int
      BY <1>1, RateAssumption DEF LimiterInv, LimiterTypeOK, Bucket, Times, NEVER
    <3>3. now - buckets[ip].lastRefillAt < REFILL_INTERVAL
      BY <1>1, BucketOfType DEF Refuse
    <3>4. /\ buckets[ip].lastRefillAt <= now
          /\ refusedAt[ip] # NEVER => buckets[ip].lastRefillAt <= refusedAt[ip]
      BY <1>1 DEF LimiterInv, DatedInv, RefusedInv
    <3> QED  BY <1>1, <2>1, <2>3, <3>1, <3>2, <3>3, <3>4, RateAssumption
  <2> QED  BY <2>2, <2>3
<1> QED  BY <1>3, <1>4, <1>5 DEF LimiterInv

\* The sweep leaves empty buckets alone.
LEMMA SweepLimiterInv ==
  ASSUME LimiterInv, sweepStaleBuckets
  PROVE  LimiterInv'
<1>1. /\ DOMAIN buckets' = {i \in DOMAIN buckets : ~(Stale(i) /\ buckets[i].tokens >= CAPACITY)}
      /\ \A i \in DOMAIN buckets' : buckets'[i] = buckets[i]
  BY DEF sweepStaleBuckets
<1>2. LimiterTypeOK' /\ DatedInv'
  BY <1>1 DEF sweepStaleBuckets, LimiterInv, LimiterTypeOK, DatedInv
<1>3. \A ip \in DOMAIN buckets : buckets[ip].tokens = 0 => ip \in DOMAIN buckets'
  BY <1>1, RateAssumption
<1>4. RefusedInv'
  BY <1>1, <1>3 DEF sweepStaleBuckets, LimiterInv, RefusedInv
<1> QED  BY <1>2, <1>4 DEF LimiterInv

LEMMA TickLimiterInv ==
  ASSUME LimiterInv, Tick
  PROVE  LimiterInv'
<1>1. LimiterTypeOK' /\ RefusedInv'
  BY RateAssumption DEF Tick, LimiterInv, LimiterTypeOK, RefusedInv, Times
<1>2. DatedInv'
  BY RateAssumption DEF Tick, LimiterInv, LimiterTypeOK, DatedInv, Bucket, Times
<1> QED  BY <1>1, <1>2 DEF LimiterInv

LEMMA NextLimiterInv == LimiterInv /\ [LimiterNext]_limiterVars => LimiterInv'
<1> SUFFICES ASSUME LimiterInv, [LimiterNext]_limiterVars PROVE LimiterInv'
  OBVIOUS
<1>1. CASE UNCHANGED limiterVars
  BY <1>1 DEF limiterVars, LimiterInv, LimiterTypeOK, DatedInv, RefusedInv
<1> QED
  BY <1>1, AdmitLimiterInv, RefuseLimiterInv, SweepLimiterInv, TickLimiterInv DEF LimiterNext

LEMMA LimiterInvariant == LimiterSpec => []LimiterInv
  BY InitLimiterInv, NextLimiterInv, PTL DEF LimiterSpec

-----------------------------------------------------------------------------
\* No bucket ever holds more than the burst, nor less than nothing.
THEOREM LimiterTypeCorrect == LimiterSpec => []LimiterTypeOK
<1>1. LimiterInv => LimiterTypeOK
  BY DEF LimiterInv
<1> QED  BY <1>1, LimiterInvariant, PTL

\* A client that waits out the hint of a 429 is served, however often it asked
\* meanwhile and whatever the sweep did.
THEOREM HintIsHonoured == LimiterSpec => []RetryAfterIsHonoured
<1>1. ASSUME LimiterInv PROVE RetryAfterIsHonoured
  <2> SUFFICES ASSUME NEW ip \in Ips, refusedAt[ip] # NEVER,
                      now >= refusedAt[ip] + REFILL_INTERVAL
               PROVE  BucketOf(ip).tokens > 0
    BY <1>1 DEF RetryAfterIsHonoured, LimiterInv, RefusedInv
  <2>1. ip \in DOMAIN buckets /\ buckets[ip].lastRefillAt <= refusedAt[ip]
    BY <1>1 DEF LimiterInv, RefusedInv
  <2>2. buckets[ip].lastRefillAt \in Int /\ refusedAt[ip] \in Int /\ now \in Int
    BY <1>1, <2>1, RateAssumption DEF LimiterInv, LimiterTypeOK, Bucket, Times, NEVER
  <2>3. ~(now - buckets[ip].lastRefillAt < REFILL_INTERVAL)
    BY <2>1, <2>2, RateAssumption
  <2>4. BucketOf(ip) \in Bucket /\ BucketOf(ip).tokens # 0
    BY <1>1, <2>3, BucketOfType
  <2> QED  BY <2>4, RateAssumption DEF Bucket
<1> QED  BY <1>1, LimiterInvariant, PTL

\* A bucket is stored only by a request that took a token from it or found none.
StoredBucketsAreNotFull ==
  \A ip \in DOMAIN buckets : buckets[ip].tokens < CAPACITY

LEMMA NoBucketIsFull == LimiterSpec => []StoredBucketsAreNotFull
<1>1. LimiterInit => StoredBucketsAreNotFull
  BY DEF LimiterInit, StoredBucketsAreNotFull
<1>2. ASSUME LimiterInv, StoredBucketsAreNotFull, [LimiterNext]_limiterVars
      PROVE  StoredBucketsAreNotFull'
  <2> USE DEF StoredBucketsAreNotFull
  <2>1. ASSUME NEW ip \in Ips, Admit(ip)
        PROVE  StoredBucketsAreNotFull'
    <3>1. /\ Taken(BucketOf(ip)) \in Bucket /\ Taken(BucketOf(ip)).tokens < CAPACITY
          /\ Taken(BucketOf(ip)).lastRefillAt <= now
      BY <2>1, <1>2, BucketOfType, RateAssumption DEF Admit, Bucket, Taken
    <3>2. SetBucket(ip, Taken(BucketOf(ip))) /\ UNCHANGED now
      BY <2>1 DEF Admit
    <3> QED  BY <1>2, <3>1, <3>2, SetBucketType
  <2>2. ASSUME NEW ip \in Ips, Refuse(ip)
        PROVE  StoredBucketsAreNotFull'
    <3>1. /\ BucketOf(ip) \in Bucket /\ BucketOf(ip).tokens < CAPACITY
          /\ BucketOf(ip).lastRefillAt <= now
      BY <2>2, <1>2, BucketOfType, RateAssumption DEF Refuse, Bucket
    <3>2. SetBucket(ip, BucketOf(ip)) /\ UNCHANGED now
      BY <2>2 DEF Refuse
    <3> QED  BY <1>2, <3>1, <3>2, SetBucketType
  <2>3. CASE sweepStaleBuckets
    BY <1>2, <2>3 DEF sweepStaleBuckets
  <2>4. CASE Tick \/ UNCHANGED limiterVars
    BY <1>2, <2>4 DEF Tick, limiterVars
  <2> QED  BY <1>2, <2>1, <2>2, <2>3, <2>4 DEF LimiterNext
<1> QED  BY <1>1, <1>2, LimiterInvariant, PTL DEF LimiterSpec
\* Every bucket of ips is still there, as it was.
Kept(ips) == ips \subseteq DOMAIN buckets' /\ \A ip \in ips : buckets'[ip] = buckets[ip]

\* The sweep of rateLimit.ts drops no bucket, for it asks for full ones and none is:
\* however long a client has been away, its entry stays.
THEOREM SweepDropsNothing ==
  LimiterSpec => [][sweepStaleBuckets => Kept(DOMAIN buckets)]_limiterVars
<1>1. ASSUME LimiterInv, StoredBucketsAreNotFull, sweepStaleBuckets
      PROVE  Kept(DOMAIN buckets)
  <2>1. \A ip \in DOMAIN buckets : ~(buckets[ip].tokens >= CAPACITY)
    BY <1>1, RateAssumption DEF StoredBucketsAreNotFull, LimiterInv, LimiterTypeOK, Bucket
  <2>2. buckets' = [ip \in DOMAIN buckets |-> buckets[ip]]
    BY <1>1, <2>1 DEF sweepStaleBuckets
  <2> QED  BY <2>2 DEF Kept
<1> QED  BY <1>1, LimiterInvariant, NoBucketIsFull, PTL DEF LimiterSpec

-----------------------------------------------------------------------------
(* The burst *)

\* Whole intervals in a stretch of time.
Whole(t) == t \div REFILL_INTERVAL

LEMMA Times1 ==
  ASSUME NEW x \in Nat, NEW y \in Nat
  PROVE  /\ REFILL_INTERVAL * x \in Nat
         /\ REFILL_INTERVAL * (x + y) = REFILL_INTERVAL * x + REFILL_INTERVAL * y
         /\ x < y => REFILL_INTERVAL * x + REFILL_INTERVAL <= REFILL_INTERVAL * y
<1>1. REFILL_INTERVAL \in Nat /\ REFILL_INTERVAL > 0
  BY RateAssumption
<1>2. REFILL_INTERVAL * x \in Nat
  BY <1>1
<1>3. REFILL_INTERVAL * (x + y) = REFILL_INTERVAL * x + REFILL_INTERVAL * y
  BY <1>1
<1>4. ASSUME x < y PROVE REFILL_INTERVAL * x + REFILL_INTERVAL <= REFILL_INTERVAL * y
  <2>1. PICK z \in Nat : y = x + 1 + z
    <3>1. y - x - 1 \in Nat /\ y = x + 1 + (y - x - 1)
      BY <1>4
    <3> QED BY <3>1
  <2>2. REFILL_INTERVAL * y = REFILL_INTERVAL * x + REFILL_INTERVAL + REFILL_INTERVAL * z
    BY <1>1, <2>1
  <2>3. REFILL_INTERVAL * z \in Nat
    BY <1>1
  <2> QED BY <1>1, <1>2, <2>2, <2>3
<1> QED BY <1>2, <1>3, <1>4

LEMMA WholeDef ==
  ASSUME NEW t \in Nat
  PROVE  /\ Whole(t) \in Nat
         /\ REFILL_INTERVAL * Whole(t) <= t
         /\ t < REFILL_INTERVAL * Whole(t) + REFILL_INTERVAL
  BY RateAssumption DEF Whole

LEMMA WholeAtLeast ==
  ASSUME NEW t \in Nat, NEW q \in Nat, REFILL_INTERVAL * q <= t
  PROVE  q <= Whole(t)
<1>1. Whole(t) \in Nat /\ t < REFILL_INTERVAL * Whole(t) + REFILL_INTERVAL
  BY WholeDef
<1>2. ~(Whole(t) < q)
  <2> SUFFICES ASSUME Whole(t) < q PROVE FALSE
    OBVIOUS
  <2>1. REFILL_INTERVAL * Whole(t) + REFILL_INTERVAL <= REFILL_INTERVAL * q
    BY <1>1, Times1
  <2> HIDE DEF Whole
  <2>2. REFILL_INTERVAL * Whole(t) \in Nat /\ REFILL_INTERVAL * q \in Nat /\ REFILL_INTERVAL \in Nat
    BY <1>1, Times1, RateAssumption
  <2> QED BY <1>1, <2>1, <2>2
<1> QED BY <1>1, <1>2

LEMMA WholeProps ==
  ASSUME NEW s \in Nat, NEW t \in Nat
  PROVE  /\ s <= t => Whole(s) <= Whole(t)
         /\ Whole(s) + Whole(t) <= Whole(s + t)
         /\ t < s + REFILL_INTERVAL => Whole(t) <= Whole(s) + 1
<1> DEFINE R == REFILL_INTERVAL
           ws == R * Whole(s)
           wt == R * Whole(t)
<1>1. /\ Whole(s) \in Nat /\ ws <= s
      /\ Whole(t) \in Nat /\ wt <= t
  BY WholeDef
<1>2. ws \in Nat /\ wt \in Nat /\ R \in Nat /\ s + t \in Nat
  BY <1>1, Times1, RateAssumption
<1>3. R * (Whole(s) + Whole(t)) = ws + wt
  BY <1>1, Times1
<1>4. s <= t => Whole(s) <= Whole(t)
  <2> SUFFICES ASSUME s <= t PROVE ws <= t
    BY <1>1, WholeAtLeast
  <2> HIDE DEF ws, wt
  <2> QED BY <1>1, <1>2
<1>5. Whole(s) + Whole(t) <= Whole(s + t)
  <2> SUFFICES R * (Whole(s) + Whole(t)) <= s + t
    BY <1>1, <1>2, WholeAtLeast
  <2> HIDE DEF ws, wt
  <2> QED BY <1>1, <1>2, <1>3
<1>6. ASSUME t < s + R PROVE Whole(t) <= Whole(s) + 1
  <2>1. CASE Whole(t) = 0
    BY <1>1, <2>1
  <2>2. CASE Whole(t) # 0
    <3>1. PICK q \in Nat : Whole(t) = q + 1
      <4>1. Whole(t) - 1 \in Nat /\ Whole(t) = (Whole(t) - 1) + 1
        BY <1>1, <2>2
      <4> QED BY <4>1
    <3>2. R * (q + 1) = R * q + R * 1
      BY Times1
    <3>3. R * 1 = R /\ R * q \in Nat
      BY <1>2, Times1
    <3>4. wt = R * q + R
      BY <3>1, <3>2, <3>3
    <3>5. R * q <= s
      <4> DEFINE rq == R * q
      <4> HIDE DEF wt, ws, rq
      <4> QED BY <1>1, <1>2, <3>4, <3>3, <1>6 DEF rq
    <3>6. q <= Whole(s)
      BY <3>5, WholeAtLeast
    <3> QED BY <1>1, <3>1, <3>6
  <2> QED BY <2>1, <2>2
<1> QED BY <1>4, <1>5, <1>6

Since(ip, a) == AdmittedWithin(ip, a, now)

\* The history counts the admissions up to each instant.
CountInv(ip) ==
  /\ admitted[ip][BEFORE] = 0
  /\ \A s, t \in BEFORE..MaxTime : s <= t => admitted[ip][s] <= admitted[ip][t]
  /\ \A t \in now..MaxTime : admitted[ip][t] = admitted[ip][now]
  /\ ip \notin DOMAIN buckets => admitted[ip][now] = 0

\* What a bucket b still grants, with what was admitted since a, for an a before
\* and one after the bucket was last dated.
Covers(b, ip) ==
  /\ \A a \in 0..b.lastRefillAt :
       Since(ip, a) + b.tokens <= CAPACITY + Whole(b.lastRefillAt - a)
  /\ \A a \in (b.lastRefillAt + 1)..now : Since(ip, a) + b.tokens < CAPACITY
  /\ \A a \in (b.lastRefillAt + REFILL_INTERVAL)..now : Since(ip, a) = 0

Burst(ip) ==
  \A a \in 0..now : \A b \in a..now : AdmittedWithin(ip, a, b) <= CAPACITY + Whole(b - a)

Bounded(ip) ==
  CountInv(ip) /\ Burst(ip) /\ (ip \in DOMAIN buckets => Covers(buckets[ip], ip))

BurstInv == \A ip \in Ips : Bounded(ip)

LEMMA CountTypes ==
  ASSUME LimiterInv, NEW ip \in Ips
  PROVE  /\ now \in Nat /\ now <= MaxTime /\ MaxTime \in Nat
         /\ \A t \in BEFORE..MaxTime : admitted[ip][t] \in Nat
         /\ \A a \in 0..MaxTime : a - 1 \in BEFORE..MaxTime /\ a \in BEFORE..MaxTime /\ a \in Nat
         /\ \A a, b \in 0..MaxTime : AdmittedWithin(ip, a, b) \in Int
<1>1. now \in Nat /\ now <= MaxTime /\ MaxTime \in Nat
  BY RateAssumption DEF LimiterInv, LimiterTypeOK, Times
<1>3. \A t \in BEFORE..MaxTime : admitted[ip][t] \in Nat
  <2>1. admitted[ip] \in [BEFORE..MaxTime -> Nat]
    BY DEF LimiterInv, LimiterTypeOK
  <2> QED  BY <2>1
<1>2. \A a \in 0..MaxTime : a - 1 \in BEFORE..MaxTime /\ a \in BEFORE..MaxTime /\ a \in Nat
  BY <1>1 DEF BEFORE
<1> QED  BY <1>1, <1>2, <1>3 DEF AdmittedWithin

\* The bound up to this instant follows from what the bucket covers.
LEMMA CoversBurst ==
  ASSUME LimiterInv, NEW ip \in Ips, NEW b \in Bucket, b.lastRefillAt <= now, Covers(b, ip)
  PROVE  \A a \in 0..now : Since(ip, a) <= CAPACITY + Whole(now - a)
<1> SUFFICES ASSUME NEW a \in 0..now
             PROVE  Since(ip, a) <= CAPACITY + Whole(now - a)
  OBVIOUS
<1> DEFINE L == b.lastRefillAt
<1>1. L \in Nat /\ b.tokens \in Nat /\ CAPACITY \in Nat
  BY RateAssumption DEF Bucket, Times
<1>2. now \in Nat /\ a \in Nat /\ now - a \in Nat /\ Since(ip, a) \in Int
  BY CountTypes DEF Since
<1>3. Whole(now - a) \in Nat
  BY <1>2, WholeDef
<1>4. CASE a <= L
  <2>1. L - a \in Nat /\ L - a <= now - a
    BY <1>1, <1>2, <1>4
  <2>2. Whole(L - a) <= Whole(now - a) /\ Whole(L - a) \in Nat
    BY <1>2, <2>1, WholeProps, WholeDef
  <2>3. Since(ip, a) + b.tokens <= CAPACITY + Whole(L - a)
    BY <1>1, <1>2, <1>4 DEF Covers
  <2> QED  BY <1>1, <1>2, <1>3, <2>2, <2>3
<1>5. CASE a > L
  <2>1. Since(ip, a) + b.tokens < CAPACITY
    BY <1>1, <1>2, <1>5 DEF Covers
  <2> QED  BY <1>1, <1>2, <1>3, <2>1
<1> QED  BY <1>1, <1>2, <1>4, <1>5

\* The bucket takeToken sees covers as much as the stored one, and is dated less
\* than an interval ago.
LEMMA RefilledCovers ==
  ASSUME LimiterInv, StoredBucketsAreNotFull, NEW ip \in Ips, Bounded(ip)
  PROVE  Covers(BucketOf(ip), ip) /\ now < BucketOf(ip).lastRefillAt + REFILL_INTERVAL
<1>1. now \in Nat /\ \A a \in 0..now : Since(ip, a) \in Int /\ a \in Nat
  BY CountTypes DEF Since
<1>2. REFILL_INTERVAL \in Nat \ {0} /\ CAPACITY \in Nat \ {0}
  BY RateAssumption
<1>3. CASE ip \notin DOMAIN buckets
  <2>1. BucketOf(ip) = [tokens |-> CAPACITY, lastRefillAt |-> now]
    BY <1>3 DEF BucketOf
  <2>2. \A a \in 0..now : Since(ip, a) <= 0
    <3> SUFFICES ASSUME NEW a \in 0..now PROVE admitted[ip][now] - admitted[ip][a - 1] <= 0
      BY DEF Since, AdmittedWithin
    <3>1. admitted[ip][now] = 0
      BY <1>3 DEF Bounded, CountInv
    <3>2. admitted[ip][a - 1] \in Nat
      BY CountTypes
    <3> QED  BY <3>1, <3>2
  <2>3. \A a \in 0..now : Whole(now - a) \in Nat
    <3> SUFFICES ASSUME NEW a \in 0..now PROVE now - a \in Nat
      BY WholeDef
    <3> QED  BY <1>1
  <2> QED  BY <1>1, <1>2, <2>1, <2>2, <2>3 DEF Covers
<1>4. CASE ip \in DOMAIN buckets
  <2> DEFINE b == buckets[ip]
             L == b.lastRefillAt
             grant == Whole(now - L)
  <2>1. /\ b \in Bucket /\ L \in Nat /\ b.tokens \in Nat /\ L <= now /\ b.tokens < CAPACITY
        /\ Covers(b, ip)
    BY <1>4, RateAssumption
    DEF LimiterInv, LimiterTypeOK, DatedInv, Bucket, Times, Bounded, StoredBucketsAreNotFull
  <2>2. now - L \in Nat /\ grant \in Nat
    BY <1>1, <2>1, WholeDef
  <2>3. BucketOf(ip) = IF grant >= 1
                       THEN [tokens |-> AtMost(b.tokens + grant, CAPACITY), lastRefillAt |-> now]
                       ELSE b
    BY <1>4 DEF BucketOf, Refilled, Whole
  <2>4. CASE ~(grant >= 1)
    <3>1. now - L < REFILL_INTERVAL
      BY <2>2, <2>4, Intervals DEF Whole
    <3> QED  BY <1>1, <1>2, <2>1, <2>3, <2>4, <3>1
  <2>5. CASE grant >= 1
    <3> DEFINE tokens == AtMost(b.tokens + grant, CAPACITY)
    <3>1. tokens \in Nat /\ tokens <= CAPACITY /\ tokens <= b.tokens + grant
      BY <1>2, <2>1, <2>2 DEF AtMost
    <3>2. BucketOf(ip) = [tokens |-> tokens, lastRefillAt |-> now]
      BY <2>3, <2>5
    <3> HIDE DEF tokens
    <3>3. ASSUME NEW a \in 0..now
          PROVE  Since(ip, a) + tokens <= CAPACITY + Whole(now - a)
      <4>1. a \in Nat /\ now - a \in Nat /\ Since(ip, a) \in Int /\ Whole(now - a) \in Nat
        BY <1>1, WholeDef
      <4>2. CASE a <= L
        <5>1. L - a \in Nat /\ (now - L) + (L - a) = now - a
          BY <1>1, <2>1, <4>1, <4>2
        <5>2. Since(ip, a) + b.tokens <= CAPACITY + Whole(L - a)
          BY <2>1, <4>1, <4>2 DEF Covers
        <5>3. Whole(L - a) \in Nat
          BY <5>1, WholeDef
        <5>4. grant + Whole(L - a) <= Whole((now - L) + (L - a))
          BY <2>2, <5>1, WholeProps
        <5>5. grant + Whole(L - a) <= Whole(now - a)
          BY <5>1, <5>4
        <5> HIDE DEF grant, b, L
        <5> QED  BY <1>2, <2>1, <2>2, <3>1, <4>1, <5>2, <5>3, <5>5
      <4>3. CASE a > L /\ a >= L + REFILL_INTERVAL
        <5>1. Since(ip, a) = 0
          BY <1>2, <2>1, <4>1, <4>3 DEF Covers
        <5> QED  BY <1>2, <3>1, <4>1, <5>1
      <4>4. CASE a > L /\ a < L + REFILL_INTERVAL
        <5>1. Since(ip, a) + b.tokens < CAPACITY
          BY <2>1, <4>1, <4>4 DEF Covers
        <5>2. now - L < (now - a) + REFILL_INTERVAL
          BY <1>1, <1>2, <2>1, <4>1, <4>4
        <5>3. grant <= Whole(now - a) + 1
          BY <2>2, <4>1, <5>2, WholeProps
        <5> HIDE DEF grant, b, L
        <5> QED  BY <1>2, <2>1, <2>2, <3>1, <4>1, <5>1, <5>3
      <4> QED  BY <1>2, <2>1, <4>1, <4>2, <4>3, <4>4
    <3> QED  BY <1>1, <1>2, <3>2, <3>3 DEF Covers
  <2> QED  BY <2>4, <2>5
<1> QED  BY <1>3, <1>4

\* A step that leaves the bucket and the history of a client alone, and the clock.
LEMMA UntouchedBounded ==
  ASSUME NEW ip \in Ips, Bounded(ip), UNCHANGED now, admitted'[ip] = admitted[ip],
         ip \in DOMAIN buckets' <=> ip \in DOMAIN buckets,
         ip \in DOMAIN buckets => buckets'[ip] = buckets[ip]
  PROVE  Bounded(ip)'
<1>1. CountInv(ip)' /\ Burst(ip)'
  BY DEF Bounded, CountInv, Burst, AdmittedWithin
<1>2. ASSUME ip \in DOMAIN buckets' PROVE Covers(buckets[ip], ip)'
  BY <1>2 DEF Bounded, Covers, Since, AdmittedWithin
<1> QED  BY <1>1, <1>2 DEF Bounded

LEMMA AdmitBounded ==
  ASSUME LimiterInv, StoredBucketsAreNotFull, NEW ip \in Ips, Bounded(ip), Admit(ip)
  PROVE  Bounded(ip)'
<1> DEFINE b == BucketOf(ip)
           D == BEFORE..MaxTime
<1>1. /\ now \in Nat /\ now <= MaxTime /\ MaxTime \in Nat
      /\ \A t \in D : admitted[ip][t] \in Nat
      /\ \A a \in 0..MaxTime : a - 1 \in D /\ a \in D /\ a \in Nat
      /\ \A a, e \in 0..MaxTime : AdmittedWithin(ip, a, e) \in Int
  BY CountTypes
<1>2. b \in Bucket /\ b.lastRefillAt <= now /\ b.tokens > 0
  BY BucketOfType DEF Admit
<1>3. Covers(b, ip) /\ now < b.lastRefillAt + REFILL_INTERVAL
  BY RefilledCovers
<1>4. UNCHANGED now /\ ip \in DOMAIN buckets' /\ buckets'[ip] = Taken(b)
  BY DEF Admit, SetBucket
<1>5. \A t \in D : admitted'[ip][t] = IF t >= now THEN admitted[ip][t] + 1 ELSE admitted[ip][t]
  <2>1. ip \in DOMAIN admitted
    BY DEF LimiterInv, LimiterTypeOK
  <2>2. admitted'[ip] = [t \in D |-> IF t >= now THEN admitted[ip][t] + 1 ELSE admitted[ip][t]]
    BY <2>1 DEF Admit
  <2> QED  BY <2>2
<1>6. /\ Taken(b).lastRefillAt = b.lastRefillAt /\ Taken(b).tokens = b.tokens - 1
      /\ Taken(b) \in Bucket /\ b.tokens \in Nat /\ b.lastRefillAt \in Nat
  BY <1>2, RateAssumption DEF Taken, Bucket, Times
<1> HIDE DEF b, D
<1>7. \A a \in 0..now : Since(ip, a)' = Since(ip, a) + 1
  <2> SUFFICES ASSUME NEW a \in 0..now
               PROVE  admitted'[ip][now'] - admitted'[ip][a - 1]
                      = (admitted[ip][now] - admitted[ip][a - 1]) + 1
    BY DEF Since, AdmittedWithin
  <2>1. now \in D /\ a - 1 \in D /\ ~(a - 1 >= now)
    BY <1>1 DEF D
  <2>2. admitted'[ip][now] = admitted[ip][now] + 1 /\ admitted'[ip][a - 1] = admitted[ip][a - 1]
    BY <1>1, <1>5, <2>1
  <2> QED  BY <1>1, <1>4, <2>1, <2>2
<1>8. CountInv(ip)'
  <2>1. admitted'[ip][BEFORE] = 0
    BY <1>1, <1>5 DEF Bounded, CountInv, D, BEFORE
  <2>2. ASSUME NEW s \in D, NEW t \in D, s <= t
        PROVE  admitted'[ip][s] <= admitted'[ip][t]
    <3>1. admitted[ip][s] <= admitted[ip][t]
      BY <2>2 DEF Bounded, CountInv, D
    <3>2. s \in Int /\ t \in Int /\ (s >= now => t >= now)
      BY <1>1, <2>2 DEF D, BEFORE
    <3> QED  BY <1>1, <1>5, <3>1, <3>2
  <2>3. ASSUME NEW t \in now..MaxTime
        PROVE  admitted'[ip][t] = admitted'[ip][now]
    <3>1. t \in D /\ now \in D /\ t >= now
      BY <1>1 DEF D, BEFORE
    <3>2. admitted[ip][t] = admitted[ip][now]
      BY DEF Bounded, CountInv
    <3> QED  BY <1>1, <1>5, <3>1, <3>2
  <2> QED  BY <1>4, <2>1, <2>2, <2>3 DEF CountInv, D
<1>9. Covers(buckets[ip], ip)'
  <2>1. \A a \in 0..now : Since(ip, a) \in Int /\ a \in Nat
    BY <1>1 DEF Since
  <2>2. ASSUME NEW a \in 0..b.lastRefillAt
        PROVE  Since(ip, a)' + (b.tokens - 1) <= CAPACITY + Whole(b.lastRefillAt - a)
    <3>1. a \in 0..now
      BY <1>1, <1>2, <1>6
    <3>2. Since(ip, a) + b.tokens <= CAPACITY + Whole(b.lastRefillAt - a)
      BY <1>3 DEF Covers
    <3>3. Since(ip, a)' = Since(ip, a) + 1
      BY <1>7, <3>1
    <3> QED  BY <1>6, <2>1, <3>1, <3>2, <3>3
  <2>3. ASSUME NEW a \in (b.lastRefillAt + 1)..now
        PROVE  Since(ip, a)' + (b.tokens - 1) < CAPACITY
    <3>1. a \in 0..now
      BY <1>1, <1>6
    <3>2. Since(ip, a) + b.tokens < CAPACITY
      BY <1>3 DEF Covers
    <3>3. Since(ip, a)' = Since(ip, a) + 1
      BY <1>7, <3>1
    <3> QED  BY <1>6, <2>1, <3>1, <3>2, <3>3
  <2>4. (b.lastRefillAt + REFILL_INTERVAL)..now = {}
    BY <1>1, <1>3, <1>6, RateAssumption
  <2> QED  BY <1>4, <1>6, <2>2, <2>3, <2>4 DEF Covers
<1>10. Burst(ip)'
  <2> SUFFICES ASSUME NEW a \in 0..now, NEW e \in a..now
               PROVE  AdmittedWithin(ip, a, e)' <= CAPACITY + Whole(e - a)
    BY <1>4 DEF Burst
  <2>1. a \in 0..now /\ e \in 0..MaxTime /\ a \in 0..MaxTime /\ e \in D /\ a - 1 \in D
    BY <1>1 DEF D, BEFORE
  <2>2. CASE e = now
    <3>1. Since(ip, a)' <= CAPACITY + Whole(now - a)
      <4>1. \A c \in 0..now : Since(ip, c)' = Since(ip, c) + 1 /\ Since(ip, c) \in Int
        BY <1>1, <1>7 DEF Since
      <4>2. CASE a <= b.lastRefillAt
        <5>1. Since(ip, a) + b.tokens <= CAPACITY + Whole(b.lastRefillAt - a)
          BY <1>3, <1>6, <2>1, <4>2 DEF Covers
        <5>2. b.lastRefillAt - a \in Nat /\ now - a \in Nat /\ b.lastRefillAt - a <= now - a
          BY <1>1, <1>2, <1>6, <2>1, <4>2
        <5>3. Whole(b.lastRefillAt - a) <= Whole(now - a) /\ Whole(b.lastRefillAt - a) \in Nat
              /\ Whole(now - a) \in Nat
          BY <5>2, WholeProps, WholeDef
        <5> QED  BY <1>2, <1>6, <2>1, <4>1, <5>1, <5>3, RateAssumption
      <4>3. CASE a > b.lastRefillAt
        <5>1. Since(ip, a) + b.tokens < CAPACITY
          BY <1>1, <1>3, <1>6, <2>1, <4>3 DEF Covers
        <5>2. Whole(now - a) \in Nat
          BY <1>1, <2>1, WholeDef
        <5> QED  BY <1>2, <1>6, <2>1, <4>1, <5>1, <5>2, RateAssumption
      <4> QED  BY <1>1, <1>6, <2>1, <4>2, <4>3
    <3> QED  BY <1>4, <2>2, <3>1 DEF Since
  <2>3. CASE e # now
    <3>1. ~(e >= now) /\ ~(a - 1 >= now)
      BY <1>1, <2>1, <2>3
    <3>2. admitted'[ip][e] = admitted[ip][e] /\ admitted'[ip][a - 1] = admitted[ip][a - 1]
      BY <1>5, <2>1, <3>1
    <3> QED  BY <3>2 DEF Bounded, Burst, AdmittedWithin
  <2> QED  BY <2>2, <2>3
<1> QED  BY <1>8, <1>9, <1>10 DEF Bounded

\* A 429 leaves every bucket as it is.
LEMMA RefuseKeepsBuckets ==
  ASSUME LimiterInv, NEW ip \in Ips, Refuse(ip)
  PROVE  /\ DOMAIN buckets' = DOMAIN buckets
         /\ \A i \in DOMAIN buckets : buckets'[i] = buckets[i]
<1>1. ip \in DOMAIN buckets /\ BucketOf(ip) = buckets[ip]
  BY BucketOfType DEF Refuse
<1> QED  BY <1>1 DEF Refuse, SetBucket

\* Nor does the sweep touch one, for none is full.
LEMMA SweepKeepsBuckets ==
  ASSUME LimiterInv, StoredBucketsAreNotFull, sweepStaleBuckets
  PROVE  /\ DOMAIN buckets' = DOMAIN buckets
         /\ \A i \in DOMAIN buckets : buckets'[i] = buckets[i]
<1>1. \A i \in DOMAIN buckets : ~(buckets[i].tokens >= CAPACITY)
  BY RateAssumption DEF StoredBucketsAreNotFull, LimiterInv, LimiterTypeOK, Bucket
<1> QED  BY <1>1 DEF sweepStaleBuckets

LEMMA TickBounded ==
  ASSUME LimiterInv, StoredBucketsAreNotFull, NEW ip \in Ips, Bounded(ip), Tick
  PROVE  Bounded(ip)'
<1>1. /\ now \in Nat /\ now <= MaxTime /\ MaxTime \in Nat
      /\ \A t \in BEFORE..MaxTime : admitted[ip][t] \in Nat
      /\ \A a \in 0..MaxTime : a - 1 \in BEFORE..MaxTime /\ a \in BEFORE..MaxTime /\ a \in Nat
      /\ \A a, e \in 0..MaxTime : AdmittedWithin(ip, a, e) \in Int
  BY CountTypes
<1>2. now' = now + 1 /\ now < MaxTime /\ UNCHANGED <<buckets, admitted>>
  BY DEF Tick
<1>3. admitted[ip][now + 1] = admitted[ip][now]
  BY <1>1, <1>2 DEF Bounded, CountInv
<1>4. CountInv(ip)'
  BY <1>1, <1>2, <1>3 DEF Bounded, CountInv
<1>5. \A a \in 0..now : Since(ip, a)' = Since(ip, a)
  BY <1>2, <1>3 DEF Since, AdmittedWithin
<1>6. ASSUME NEW a \in Nat, a = now + 1
      PROVE  Since(ip, a)' = 0
  <2>1. admitted[ip][now] \in Nat /\ a - 1 = now
    BY <1>1, <1>6 DEF BEFORE
  <2>2. Since(ip, a)' = admitted[ip][now + 1] - admitted[ip][a - 1]
    BY <1>2 DEF Since, AdmittedWithin
  <2> QED  BY <1>3, <2>1, <2>2
<1>7. ASSUME ip \in DOMAIN buckets PROVE Covers(buckets[ip], ip)'
  <2> DEFINE b == buckets[ip]
  <2>1. /\ b.lastRefillAt \in Nat /\ b.tokens \in Nat /\ b.tokens < CAPACITY
        /\ b.lastRefillAt <= now /\ CAPACITY \in Nat
    BY <1>7, RateAssumption
    DEF LimiterInv, LimiterTypeOK, DatedInv, Bucket, Times, StoredBucketsAreNotFull
  <2>2. Covers(b, ip)
    BY <1>7 DEF Bounded
  <2> HIDE DEF b
  <2>3. \A a \in 0..b.lastRefillAt :
          Since(ip, a)' + b.tokens <= CAPACITY + Whole(b.lastRefillAt - a)
    BY <1>1, <1>5, <2>1, <2>2 DEF Covers
  <2>4. ASSUME NEW a \in (b.lastRefillAt + 1)..(now + 1)
        PROVE  Since(ip, a)' + b.tokens < CAPACITY
    <3>1. CASE a = now + 1
      BY <1>1, <1>6, <2>1, <3>1
    <3>2. CASE a # now + 1
      BY <1>1, <1>5, <2>1, <2>2, <3>2 DEF Covers
    <3> QED  BY <3>1, <3>2
  <2>5. ASSUME NEW a \in (b.lastRefillAt + REFILL_INTERVAL)..(now + 1)
        PROVE  Since(ip, a)' = 0
    <3>1. CASE a = now + 1
      BY <1>1, <1>6, <3>1
    <3>2. CASE a # now + 1
      BY <1>1, <1>5, <2>1, <2>2, <3>2, RateAssumption DEF Covers
    <3> QED  BY <3>1, <3>2
  <2> QED  BY <1>2, <2>3, <2>4, <2>5 DEF Covers, b
<1>8. Burst(ip)'
  <2> SUFFICES ASSUME NEW a \in 0..(now + 1), NEW e \in a..(now + 1)
               PROVE  AdmittedWithin(ip, a, e)' <= CAPACITY + Whole(e - a)
    BY <1>2 DEF Burst
  <2>1. a \in Nat /\ e \in Nat /\ e - a \in Nat
    BY <1>1
  <2>2. Whole(e - a) \in Nat /\ CAPACITY \in Nat
    BY <2>1, WholeDef, RateAssumption
  <2>3. AdmittedWithin(ip, a, e)' = AdmittedWithin(ip, a, e)
    BY <1>2 DEF AdmittedWithin
  <2>4. CASE e # now + 1
    BY <1>1, <2>1, <2>3, <2>4 DEF Bounded, Burst
  <2>5. CASE e = now + 1 /\ a = now + 1
    BY <1>2, <1>6, <2>1, <2>2, <2>5 DEF Since
  <2>6. CASE e = now + 1 /\ a # now + 1
    <3>1. a \in 0..now /\ now - a \in Nat /\ now \in a..now /\ now - a <= e - a
      BY <1>1, <2>1, <2>6
    <3>2. AdmittedWithin(ip, a, now) <= CAPACITY + Whole(now - a)
      BY <3>1 DEF Bounded, Burst
    <3>3. Whole(now - a) <= Whole(e - a) /\ Whole(now - a) \in Nat
      BY <2>1, <3>1, WholeProps, WholeDef
    <3>4. AdmittedWithin(ip, a, e) = AdmittedWithin(ip, a, now)
      BY <1>3, <2>6 DEF AdmittedWithin
    <3>5. AdmittedWithin(ip, a, now) \in Int
      BY <1>1, <3>1
    <3> QED  BY <2>2, <2>3, <3>2, <3>3, <3>4, <3>5
  <2> QED  BY <2>4, <2>5, <2>6
<1> QED  BY <1>2, <1>4, <1>7, <1>8 DEF Bounded

LEMMA InitBounded == LimiterInit => BurstInv
<1> SUFFICES ASSUME LimiterInit, NEW ip \in Ips PROVE Bounded(ip)
  BY DEF BurstInv
<1>1. /\ now = 0 /\ MaxTime \in Nat /\ CAPACITY \in Nat /\ buckets = [i \in {} |-> 0]
      /\ \A t \in BEFORE..MaxTime : admitted[ip][t] = 0
      /\ \A t \in 0..MaxTime : t \in BEFORE..MaxTime
      /\ BEFORE \in BEFORE..MaxTime
  BY RateAssumption DEF LimiterInit, BEFORE
<1>2. CountInv(ip)
  BY <1>1 DEF CountInv
<1>3. Burst(ip)
  <2>1. AdmittedWithin(ip, 0, 0) = 0
    BY <1>1 DEF AdmittedWithin, BEFORE
  <2>2. Whole(0) \in Nat
    BY WholeDef
  <2> QED  BY <1>1, <2>1, <2>2 DEF Burst
<1> QED  BY <1>1, <1>2, <1>3 DEF Bounded

LEMMA NextBounded ==
  LimiterInv /\ StoredBucketsAreNotFull /\ BurstInv /\ [LimiterNext]_limiterVars => BurstInv'
<1> SUFFICES ASSUME LimiterInv, StoredBucketsAreNotFull, BurstInv, [LimiterNext]_limiterVars,
                    NEW ip \in Ips
             PROVE  Bounded(ip)'
  BY DEF BurstInv
<1>1. Bounded(ip)
  BY DEF BurstInv
<1>2. ASSUME NEW i \in Ips, Admit(i)
      PROVE  Bounded(ip)'
  <2>1. CASE i = ip
    BY <1>1, <1>2, <2>1, AdmitBounded
  <2>2. CASE i # ip
    <3>1. UNCHANGED now /\ admitted'[ip] = admitted[ip]
      BY <1>2, <2>2 DEF Admit, LimiterInv, LimiterTypeOK
    <3>2. /\ ip \in DOMAIN buckets' <=> ip \in DOMAIN buckets
          /\ ip \in DOMAIN buckets => buckets'[ip] = buckets[ip]
      BY <1>2, <2>2 DEF Admit, SetBucket
    <3> QED  BY <1>1, <3>1, <3>2, UntouchedBounded
  <2> QED  BY <2>1, <2>2
<1>3. ASSUME NEW i \in Ips, Refuse(i)
      PROVE  Bounded(ip)'
  <2>1. UNCHANGED now /\ admitted'[ip] = admitted[ip]
    BY <1>3 DEF Refuse
  <2> QED  BY <1>1, <1>3, <2>1, RefuseKeepsBuckets, UntouchedBounded
<1>4. CASE sweepStaleBuckets
  <2>1. UNCHANGED now /\ admitted'[ip] = admitted[ip]
    BY <1>4 DEF sweepStaleBuckets
  <2> QED  BY <1>1, <1>4, <2>1, SweepKeepsBuckets, UntouchedBounded
<1>5. CASE Tick
  BY <1>1, <1>5, TickBounded
<1>6. CASE UNCHANGED limiterVars
  BY <1>1, <1>6, UntouchedBounded DEF limiterVars
<1> QED  BY <1>2, <1>3, <1>4, <1>5, <1>6 DEF LimiterNext

\* No client ever gets more than the burst and one request per whole interval, in
\* any stretch of time.
THEOREM BurstHolds == LimiterSpec => []BurstIsBounded
<1>1. BurstInv => BurstIsBounded
  BY DEF BurstInv, Bounded, Burst, BurstIsBounded, Whole
<1>2. LimiterInit => LimiterInv /\ StoredBucketsAreNotFull /\ BurstInv
  BY InitLimiterInv, InitBounded DEF LimiterInit, StoredBucketsAreNotFull
<1> QED  BY <1>1, <1>2, InitBounded, NextBounded, LimiterInvariant, NoBucketIsFull, PTL DEF LimiterSpec

-----------------------------------------------------------------------------
(* Requests: the invariant *)

LaneTypes ==
  /\ pc \in [Lanes -> Stages]
  /\ query \in [Lanes -> Queries]
  /\ nonce \in [Lanes -> Nat \cup {NO_NONCE}]
  /\ answer \in [Lanes -> {"none", "mirrored", "alreadyMirrored", "failed"}]
  /\ arrived \in 0..MaxRequests /\ spent \in Nat
  /\ jammed \in BOOLEAN /\ erred \in BOOLEAN

ChainTypes ==
  /\ mined \in Nat
  /\ DOMAIN pool \subseteq Nat /\ IsFiniteSet(DOMAIN pool)
  /\ \A n \in DOMAIN pool : pool[n] \in [query: Queries, waiting: SUBSET Lanes]
  /\ processed \in SUBSET Queries

\* Whoever the node's pool knows to wait for a transaction is at its await, for the
\* query and with the nonce of that transaction.
PoolInv ==
  \A n \in DOMAIN pool : \A l \in pool[n].waiting :
    pc[l] = "wait" /\ query[l] = pool[n].query /\ nonce[l] = n

\* A successful receipt is one of the lane's own query.
AnswerInv ==
  /\ AnswersAreTrue
  /\ \A l \in Lanes : pc[l] = "receipt" => query[l] \in processed

\* Each lane past the guard may still spend one unit.
PastTheGuard == {l \in Lanes : pc[l] \in {"take", "submit", "wait", "receipt", "reverted"}}
SpendInv == spent + Cardinality(PastTheGuard) <= CEILING + Cardinality(Lanes) - 1

\* Before the first read has answered nothing has been sent; after it the lanes in
\* flight hold exactly the nonces from the account's to the allocator's, and the
\* pool holds the transactions of those that wait.
Untouched == mined = 0 /\ DOMAIN pool = {} /\ InFlight = {} /\ read \in {NO_READ, ASKED, 0}

Filled ==
  /\ read = NO_READ /\ mined <= next
  /\ \A l \in InFlight : nonce[l] \in mined..(next - 1)
  /\ NoncesInFlightAreDistinct
  /\ mined..(next - 1) \subseteq {nonce[l] : l \in InFlight}
  /\ \A l \in Lanes : pc[l] = "wait" => nonce[l] \in DOMAIN pool /\ l \in pool[nonce[l]].waiting
  /\ \A n \in DOMAIN pool : \E l \in Lanes : pc[l] = "wait" /\ nonce[l] = n

QuietInv == ~erred => IF next = UNKNOWN THEN Untouched ELSE Filled

TypeInv == AllocatorTypeOK /\ LaneTypes /\ ChainTypes
IInv == TypeInv /\ PoolInv /\ AnswerInv /\ SpendInv /\ QuietInv

-----------------------------------------------------------------------------
(* What the steps have in common *)

\* The node's count is defined, and is the account's when nothing is in the pool.
LEMMA PendingCountIsFree ==
  ASSUME ChainTypes
  PROVE  /\ PendingCount \in Nat
         /\ DOMAIN pool = {} => PendingCount = mined
<1> DEFINE P(n) == n \notin DOMAIN pool /\ \A k \in mined..(n - 1) : k \in DOMAIN pool
<1>1. \E n \in mined..(mined + Cardinality(DOMAIN pool)) : P(n)
  BY FirstFree DEF ChainTypes
<1>2. PendingCount \in mined..(mined + Cardinality(DOMAIN pool)) /\ P(PendingCount)
  BY <1>1 DEF PendingCount
<1>3. PendingCount \in Nat
  BY <1>2, FS_CardinalityType DEF ChainTypes
<1>4. ASSUME DOMAIN pool = {} PROVE PendingCount = mined
  <2>1. Cardinality(DOMAIN pool) = 0
    BY <1>4, FS_EmptySet
  <2> QED  BY <1>2, <2>1 DEF ChainTypes
<1> QED  BY <1>3, <1>4

\* The lanes that wait are left alone, and so is the pool.
LEMMA SamePool ==
  ASSUME ChainTypes, PoolInv, UNCHANGED pool,
         \A l \in Lanes : pc[l] = "wait" =>
           pc'[l] = "wait" /\ query'[l] = query[l] /\ nonce'[l] = nonce[l]
  PROVE  PoolInv'
<1>1. ASSUME NEW n \in DOMAIN pool, NEW l \in pool[n].waiting
      PROVE  l \in Lanes
  BY <1>1 DEF ChainTypes
<1> QED  BY <1>1 DEF PoolInv

\* No lane passes the guard.
LEMMA SameSpend ==
  ASSUME SpendInv, LaneTypes, UNCHANGED spent,
         \A l \in Lanes : pc'[l] \in {"take", "submit", "wait", "receipt", "reverted"} =>
           pc[l] \in {"take", "submit", "wait", "receipt", "reverted"}
  PROVE  SpendInv'
<1>1. PastTheGuard' \subseteq PastTheGuard
  BY DEF PastTheGuard
<1>2. IsFiniteSet(PastTheGuard)
  BY FS_Subset, RelayerAssumption DEF PastTheGuard
<1>3. Cardinality(PastTheGuard') <= Cardinality(PastTheGuard)
  BY <1>1, <1>2, FS_Subset
<1>4. /\ Cardinality(PastTheGuard') \in Nat /\ Cardinality(PastTheGuard) \in Nat
      /\ Cardinality(Lanes) \in Nat /\ CEILING \in Nat /\ spent \in Nat
  BY <1>1, <1>2, FS_Subset, FS_CardinalityType, RelayerAssumption DEF LaneTypes
<1> QED  BY <1>3, <1>4 DEF SpendInv

\* The lanes in flight, the allocator and the chain are left alone.
LEMMA SameFlight ==
  ASSUME QuietInv, UNCHANGED <<next, read, mined, pool>>, erred' \/ erred' = erred,
         \A l \in Lanes : pc[l] \in {"submit", "wait"} \/ pc'[l] \in {"submit", "wait"} =>
           pc'[l] = pc[l] /\ nonce'[l] = nonce[l]
  PROVE  QuietInv'
<1> SUFFICES ASSUME ~erred' PROVE IF next = UNKNOWN THEN Untouched' ELSE Filled'
  BY DEF QuietInv
<1>1. IF next = UNKNOWN THEN Untouched ELSE Filled
  BY DEF QuietInv
<1>2. InFlight' = InFlight /\ \A l \in InFlight : nonce'[l] = nonce[l]
  BY DEF InFlight
<1>3. \A l \in Lanes : pc[l] = "wait" <=> pc'[l] = "wait"
  OBVIOUS
<1>4. \A l \in Lanes : pc[l] = "wait" => l \in InFlight
  BY DEF InFlight
<1>5. CASE next = UNKNOWN
  BY <1>1, <1>2, <1>5 DEF Untouched
<1>6. CASE next # UNKNOWN
  <2>1. Filled
    BY <1>1, <1>6
  <2>2. {nonce'[l] : l \in InFlight'} = {nonce[l] : l \in InFlight}
    BY <1>2
  <2>3. NoncesInFlightAreDistinct'
    BY <1>2, <2>1 DEF Filled, NoncesInFlightAreDistinct
  <2> QED  BY <1>2, <1>3, <1>4, <1>6, <2>1, <2>2, <2>3 DEF Filled
<1> QED  BY <1>5, <1>6

\* Nothing is said of the nonces once something has failed.
LEMMA ErredQuiet == erred' => QuietInv'
  BY DEF QuietInv

-----------------------------------------------------------------------------
(* Steps *)

LEMMA InitIInv == Init => IInv
<1> SUFFICES ASSUME Init PROVE IInv
  OBVIOUS
<1> USE DEF Init, WalletInit, AllocatorInit
<1>1. TypeInv
  <2>1. (CHOOSE q \in Queries : TRUE) \in Queries
    BY RelayerAssumption
  <2>2. /\ pc \in [Lanes -> Stages] /\ nonce \in [Lanes -> Nat \cup {NO_NONCE}]
        /\ answer \in [Lanes -> {"none", "mirrored", "alreadyMirrored", "failed"}]
    BY DEF Stages
  <2>3. query \in [Lanes -> Queries]
    <3> DEFINE any == CHOOSE q \in Queries : TRUE
    <3>1. any \in Queries /\ query = [l \in Lanes |-> any]
      BY <2>1
    <3> HIDE DEF any
    <3> QED  BY <3>1
  <2>4. LaneTypes
    <3>1. MaxRequests \in Nat /\ 0 \in 0..MaxRequests
      BY RelayerAssumption
    <3>2. spent \in Nat /\ arrived \in 0..MaxRequests
      BY <3>1
    <3>3. jammed \in BOOLEAN /\ erred \in BOOLEAN
      OBVIOUS
    <3> QED  BY <2>2, <2>3, <3>2, <3>3, Zenon DEF LaneTypes
  <2>5. ChainTypes
    BY FS_EmptySet DEF ChainTypes
  <2> QED  BY <2>4, <2>5 DEF TypeInv, AllocatorTypeOK
<1>2. PoolInv /\ AnswerInv
  BY DEF PoolInv, AnswerInv, AnswersAreTrue
<1>3. SpendInv
  <2>1. PastTheGuard = {}
    BY DEF PastTheGuard
  <2>2. Cardinality(PastTheGuard) = 0 /\ Cardinality(Lanes) \in Nat
    BY <2>1, FS_EmptySet, FS_CardinalityType, RelayerAssumption
  <2> QED  BY <2>2, RelayerAssumption DEF SpendInv
<1>4. QuietInv
  BY DEF QuietInv, Untouched, InFlight, NO_READ, UNKNOWN
<1> QED  BY <1>1, <1>2, <1>3, <1>4 DEF IInv

\* A lane moves on outside the flight, with the same nonce and query.
LEMMA MoveIInv ==
  ASSUME IInv, NEW l \in Lanes, NEW stage \in {"proof", "dedupe", "gas"},
         pc[l] \in {"body", "proof", "dedupe"}, Goto(l, stage),
         UNCHANGED <<allocatorVars, query, nonce, answer, arrived, chainVars, spent, jammed, erred>>
  PROVE  IInv'
<1> USE DEF allocatorVars, chainVars, Goto, IInv, TypeInv
<1>1. \A m \in Lanes : pc'[m] = IF m = l THEN stage ELSE pc[m]
  BY DEF LaneTypes
<1>2. TypeInv'
  BY DEF AllocatorTypeOK, LaneTypes, ChainTypes, Stages
<1>3. PoolInv'
  BY <1>1, SamePool
<1>4. AnswerInv'
  BY <1>1 DEF AnswerInv, AnswersAreTrue
<1>5. SpendInv' /\ QuietInv'
  BY <1>1, SameSpend, SameFlight
<1> QED  BY <1>2, <1>3, <1>4, <1>5

LEMMA ArriveIInv ==
  ASSUME IInv, NEW l \in Lanes, NEW q \in Queries, Arrive(l, q)
  PROVE  IInv'
<1> USE DEF allocatorVars, chainVars, Goto, IInv, TypeInv, Arrive
<1>1. \A m \in Lanes : /\ pc'[m] = IF m = l THEN "body" ELSE pc[m]
                       /\ query'[m] = IF m = l THEN q ELSE query[m]
                       /\ answer'[m] = IF m = l THEN "none" ELSE answer[m]
  BY DEF LaneTypes
<1>2. TypeInv'
  BY RelayerAssumption DEF AllocatorTypeOK, LaneTypes, ChainTypes, Stages
<1>3. PoolInv'
  BY <1>1, SamePool
<1>4. AnswerInv'
  BY <1>1 DEF AnswerInv, AnswersAreTrue
<1>5. SpendInv' /\ QuietInv'
  BY <1>1, SameSpend, SameFlight
<1> QED  BY <1>2, <1>3, <1>4, <1>5

LEMMA UnreadableIInv ==
  ASSUME IInv, NEW l \in Lanes, Unreadable(l)
  PROVE  IInv'
<1> USE DEF allocatorVars, chainVars, Goto, IInv, TypeInv, Unreadable
<1>1. \A m \in Lanes : /\ pc'[m] = IF m = l THEN "idle" ELSE pc[m]
                       /\ answer'[m] = IF m = l THEN "failed" ELSE answer[m]
  BY DEF LaneTypes
<1>2. TypeInv'
  BY DEF AllocatorTypeOK, LaneTypes, ChainTypes, Stages
<1>3. PoolInv'
  BY <1>1, SamePool
<1>4. AnswerInv'
  BY <1>1 DEF AnswerInv, AnswersAreTrue
<1>5. SpendInv' /\ QuietInv'
  BY <1>1, SameSpend, SameFlight
<1> QED  BY <1>2, <1>3, <1>4, <1>5

\* Lanes end, whether their lines are written or not.
LEMMA AnswerKeeps ==
  ASSUME IInv, NEW ls \in SUBSET Lanes, NEW a \in {"mirrored", "alreadyMirrored", "failed"},
         Answer(ls, a), UNCHANGED chainVars,
         \A l \in ls : pc[l] \notin {"submit", "wait"},
         a # "failed" => \A l \in ls : query[l] \in processed
  PROVE  /\ pc' \in [Lanes -> Stages] /\ nonce' \in [Lanes -> Nat \cup {NO_NONCE}]
         /\ answer' \in [Lanes -> {"none", "mirrored", "alreadyMirrored", "failed"}]
         /\ jammed' \in BOOLEAN /\ UNCHANGED <<query, arrived>>
         /\ ChainTypes' /\ PoolInv' /\ AnswerInv'
         /\ \A l \in ls : pc'[l] \in {"idle", "hung"}
         /\ \A l \in Lanes \ ls : pc'[l] = pc[l] /\ nonce'[l] = nonce[l]
<1> USE DEF IInv, TypeInv
<1>1. PICK written \in SUBSET ls :
        /\ jammed' = (jammed \/ written # ls)
        /\ pc' = [l \in Lanes |-> IF l \in written THEN "idle"
                                  ELSE IF l \in ls THEN "hung" ELSE pc[l]]
        /\ answer' = [l \in Lanes |-> IF l \in written THEN a ELSE answer[l]]
        /\ nonce' = [l \in Lanes |-> IF l \in ls THEN NO_NONCE ELSE nonce[l]]
        /\ UNCHANGED <<query, arrived>>
  BY DEF Answer
<1>2. /\ pc' \in [Lanes -> Stages] /\ nonce' \in [Lanes -> Nat \cup {NO_NONCE}]
      /\ answer' \in [Lanes -> {"none", "mirrored", "alreadyMirrored", "failed"}]
      /\ jammed' \in BOOLEAN
  BY <1>1 DEF LaneTypes, Stages
<1>3. ChainTypes'
  BY DEF ChainTypes, chainVars
<1>4. /\ \A l \in ls : pc'[l] \in {"idle", "hung"}
      /\ \A l \in Lanes \ ls : pc'[l] = pc[l] /\ nonce'[l] = nonce[l]
  BY <1>1
<1>5. PoolInv'
  BY <1>1, <1>4, SamePool DEF chainVars
<1>6. AnswerInv'
  <2>1. \A l \in Lanes : (answer'[l] = a /\ l \in ls) \/ answer'[l] = answer[l]
    BY <1>1
  <2>2. query' = query /\ processed' = processed
    BY <1>1 DEF chainVars
  <2>3. AnswersAreTrue'
    BY <2>1, <2>2 DEF AnswerInv, AnswersAreTrue
  <2>4. \A l \in Lanes : pc'[l] = "receipt" => query'[l] \in processed'
    BY <1>4, <2>2 DEF AnswerInv
  <2> QED  BY <2>3, <2>4 DEF AnswerInv
<1> QED  BY <1>1, <1>2, <1>3, <1>4, <1>5, <1>6

\* ... without a transaction of theirs having been mined.
LEMMA EndIInv ==
  ASSUME IInv, NEW ls \in SUBSET Lanes, NEW a \in {"alreadyMirrored", "failed"},
         Answer(ls, a), UNCHANGED <<chainVars, allocatorVars, spent, erred>>,
         \A l \in ls : pc[l] \notin {"submit", "wait"},
         a # "failed" => \A l \in ls : query[l] \in processed
  PROVE  IInv'
<1> USE DEF IInv, TypeInv
<1>1. /\ pc' \in [Lanes -> Stages] /\ nonce' \in [Lanes -> Nat \cup {NO_NONCE}]
      /\ answer' \in [Lanes -> {"none", "mirrored", "alreadyMirrored", "failed"}]
      /\ jammed' \in BOOLEAN /\ UNCHANGED <<query, arrived>>
      /\ ChainTypes' /\ PoolInv' /\ AnswerInv'
      /\ \A l \in ls : pc'[l] \in {"idle", "hung"}
      /\ \A l \in Lanes \ ls : pc'[l] = pc[l] /\ nonce'[l] = nonce[l]
  BY AnswerKeeps
<1>2. TypeInv'
  BY <1>1 DEF LaneTypes, AllocatorTypeOK, allocatorVars
<1>3. SpendInv'
  BY <1>1, SameSpend
<1>4. QuietInv'
  BY <1>1, SameFlight DEF allocatorVars, chainVars
<1> QED  BY <1>1, <1>2, <1>3, <1>4

LEMMA PlannedIInv ==
  ASSUME IInv, NEW l \in Lanes, Planned(l)
  PROVE  IInv'
<1>1. CASE wouldExceedCeiling
  BY <1>1, EndIInv DEF Planned
<1>2. CASE ~wouldExceedCeiling
  <2> USE DEF IInv, TypeInv
  <2>1. /\ pc[l] = "gas" /\ pc' = [pc EXCEPT ![l] = "take"]
        /\ callTake /\ ~(spent + 1 > CEILING)
        /\ UNCHANGED <<query, nonce, answer, arrived, jammed, mined, pool, processed, spent, erred>>
    BY <1>2 DEF Planned, Goto, chainVars, wouldExceedCeiling
  <2>2. \A m \in Lanes : pc'[m] = IF m = l THEN "take" ELSE pc[m]
    BY <2>1 DEF LaneTypes
  <2>3. TypeInv'
    BY <2>1 DEF AllocatorTypeOK, LaneTypes, ChainTypes, Stages, callTake, ASKED
  <2>4. PoolInv'
    BY <2>1, <2>2, SamePool
  <2>5. AnswerInv'
    BY <2>1, <2>2 DEF AnswerInv, AnswersAreTrue
  <2>6. SpendInv'
    <3>1. PastTheGuard' \subseteq Lanes /\ IsFiniteSet(Lanes)
      BY RelayerAssumption DEF PastTheGuard
    <3>2. Cardinality(PastTheGuard') \in Nat /\ Cardinality(PastTheGuard') <= Cardinality(Lanes)
          /\ Cardinality(Lanes) \in Nat
      BY <3>1, FS_Subset, FS_CardinalityType
    <3>3. spent \in Nat /\ CEILING \in Nat /\ spent + 1 <= CEILING /\ spent' = spent
      BY <2>1, RelayerAssumption DEF LaneTypes
    <3> QED  BY <3>2, <3>3 DEF SpendInv
  <2>7. QuietInv'
    <3>1. CASE read' = read
      BY <2>1, <2>2, <3>1, SameFlight DEF callTake
    <3>2. CASE read' # read
      <4>1. next = UNKNOWN /\ read' = ASKED /\ next' = next
        BY <2>1, <3>2 DEF callTake
      <4>2. InFlight' = InFlight
        BY <2>1, <2>2 DEF InFlight
      <4> QED  BY <2>1, <4>1, <4>2 DEF QuietInv, Untouched
    <3> QED  BY <3>1, <3>2
  <2> QED  BY <2>3, <2>4, <2>5, <2>6, <2>7
<1> QED  BY <1>1, <1>2

\* The nonce a lane takes is the first one no lane in flight holds.
LEMMA NonceTakenIInv ==
  ASSUME IInv, NEW l \in Lanes, NonceTaken(l)
  PROVE  IInv'
<1> USE DEF IInv, TypeInv
<1>1. /\ pc[l] = "take" /\ read = NO_READ /\ next # UNKNOWN /\ next' = next + 1 /\ read' = read
      /\ nonce' = [nonce EXCEPT ![l] = next] /\ pc' = [pc EXCEPT ![l] = "submit"]
      /\ UNCHANGED <<query, answer, arrived, mined, pool, processed, spent, jammed, erred>>
  BY DEF NonceTaken, take, NonceReady, Goto, chainVars
<1>2. /\ next \in Nat
      /\ \A m \in Lanes : /\ pc'[m] = IF m = l THEN "submit" ELSE pc[m]
                          /\ nonce'[m] = IF m = l THEN next ELSE nonce[m]
  BY <1>1 DEF LaneTypes, AllocatorTypeOK
<1>3. TypeInv'
  BY <1>1, <1>2 DEF AllocatorTypeOK, LaneTypes, ChainTypes, Stages
<1>4. PoolInv'
  BY <1>1, <1>2, SamePool
<1>5. AnswerInv'
  BY <1>1, <1>2 DEF AnswerInv, AnswersAreTrue
<1>6. SpendInv'
  BY <1>1, <1>2, SameSpend
<1>7. QuietInv'
  <2> SUFFICES ASSUME ~erred PROVE Filled'
    BY <1>1, <1>2 DEF QuietInv, UNKNOWN
  <2>1. Filled
    BY <1>1 DEF QuietInv
  <2>2. InFlight' = InFlight \cup {l} /\ l \notin InFlight
    BY <1>1, <1>2 DEF InFlight
  <2>3. \A m \in InFlight : nonce'[m] = nonce[m] /\ nonce[m] \in mined..(next - 1)
    BY <1>2, <2>1, <2>2 DEF Filled, InFlight
  <2>4. nonce'[l] = next /\ mined \in Nat /\ mined <= next
    BY <1>2, <2>1 DEF Filled, ChainTypes
  <2>5. NoncesInFlightAreDistinct'
    BY <1>2, <2>1, <2>2, <2>3, <2>4 DEF Filled, NoncesInFlightAreDistinct
  <2>6. \A m \in InFlight' : nonce'[m] \in mined'..(next' - 1)
    BY <1>1, <1>2, <2>2, <2>3, <2>4
  <2>7. ASSUME NEW n \in mined'..(next' - 1)
        PROVE  n \in {nonce'[m] : m \in InFlight'}
    <3>1. CASE n = next
      BY <2>2, <2>4, <3>1
    <3>2. CASE n # next
      <4>1. n \in mined..(next - 1)
        BY <1>1, <1>2, <2>4, <3>2
      <4>2. PICK m \in InFlight : nonce[m] = n
        BY <2>1, <4>1 DEF Filled
      <4> QED  BY <2>2, <2>3, <4>2
    <3> QED  BY <3>1, <3>2
  <2>8. /\ \A m \in Lanes : pc'[m] = "wait" => pc[m] = "wait" /\ nonce'[m] = nonce[m]
        /\ \A m \in Lanes : pc[m] = "wait" => pc'[m] = "wait" /\ nonce'[m] = nonce[m]
    BY <1>1, <1>2
  <2> QED  BY <1>1, <1>2, <2>1, <2>4, <2>5, <2>6, <2>7, <2>8 DEF Filled
<1> QED  BY <1>3, <1>4, <1>5, <1>6, <1>7

\* The node takes a transaction: the pool, with the lane that sent it or nobody.
LEMMA AcceptKeeps ==
  ASSUME IInv, NEW l \in Lanes, pc[l] = "submit", NEW waiters \in {{l}, Nobody},
         Accept(nonce[l], query[l], waiters)
  PROVE  /\ ChainTypes'
         /\ DOMAIN pool' = DOMAIN pool \cup {nonce[l]} /\ nonce[l] \notin DOMAIN pool
         /\ pool'[nonce[l]] = [query |-> query[l], waiting |-> waiters]
         /\ \A n \in DOMAIN pool : pool'[n] = pool[n]
<1> USE DEF IInv, TypeInv
<1>1. /\ nonce[l] >= mined /\ nonce[l] \notin DOMAIN pool /\ UNCHANGED <<mined, processed>>
      /\ pool' = [k \in DOMAIN pool \cup {nonce[l]} |->
                    IF k = nonce[l] THEN [query |-> query[l], waiting |-> waiters] ELSE pool[k]]
  BY DEF Accept, Acceptable
<1>2. nonce[l] \in Nat
  <2>1. nonce[l] \in Nat \cup {NO_NONCE} /\ mined \in Nat
    BY DEF LaneTypes, ChainTypes
  <2> QED  BY <1>1, <2>1 DEF NO_NONCE
<1>3. IsFiniteSet(DOMAIN pool \cup {nonce[l]})
  BY FS_AddElement DEF ChainTypes
<1>4. [query |-> query[l], waiting |-> waiters] \in [query: Queries, waiting: SUBSET Lanes]
  BY DEF LaneTypes, Nobody
<1>5. ChainTypes'
  BY <1>1, <1>2, <1>3, <1>4 DEF ChainTypes
<1> QED  BY <1>1, <1>5

LEMMA BroadcastIInv ==
  ASSUME IInv, NEW l \in Lanes, Broadcast(l)
  PROVE  IInv'
<1> USE DEF IInv, TypeInv
<1>1. /\ pc[l] = "submit" /\ Accept(nonce[l], query[l], {l}) /\ pc' = [pc EXCEPT ![l] = "wait"]
      /\ UNCHANGED <<next, read, query, nonce, answer, arrived, spent, jammed, erred>>
  BY DEF Broadcast, Goto, allocatorVars
<1>2. /\ ChainTypes'
      /\ DOMAIN pool' = DOMAIN pool \cup {nonce[l]} /\ nonce[l] \notin DOMAIN pool
      /\ pool'[nonce[l]] = [query |-> query[l], waiting |-> {l}]
      /\ \A n \in DOMAIN pool : pool'[n] = pool[n]
      /\ UNCHANGED <<mined, processed>>
  BY <1>1, AcceptKeeps DEF Accept
<1>3. \A m \in Lanes : pc'[m] = IF m = l THEN "wait" ELSE pc[m]
  BY <1>1 DEF LaneTypes
<1>4. TypeInv'
  BY <1>1, <1>2 DEF AllocatorTypeOK, LaneTypes, Stages
<1>5. PoolInv'
  <2> SUFFICES ASSUME NEW n \in DOMAIN pool', NEW m \in pool'[n].waiting
               PROVE  pc'[m] = "wait" /\ query'[m] = pool'[n].query /\ nonce'[m] = n
    BY DEF PoolInv
  <2>1. CASE n = nonce[l]
    BY <1>1, <1>2, <1>3, <2>1
  <2>2. CASE n # nonce[l]
    <3>1. n \in DOMAIN pool /\ m \in pool[n].waiting /\ pool'[n] = pool[n] /\ m \in Lanes
      BY <1>2, <2>2 DEF ChainTypes
    <3> QED  BY <1>1, <1>3, <3>1 DEF PoolInv
  <2> QED  BY <2>1, <2>2
<1>6. AnswerInv'
  BY <1>1, <1>2, <1>3 DEF AnswerInv, AnswersAreTrue
<1>7. SpendInv'
  BY <1>1, <1>3, SameSpend
<1>8. QuietInv'
  <2> SUFFICES ASSUME ~erred PROVE next # UNKNOWN /\ Filled'
    BY <1>1 DEF QuietInv
  <2>1. l \in InFlight
    BY <1>1 DEF InFlight
  <2>2. next # UNKNOWN /\ Filled
    BY <2>1 DEF QuietInv, Untouched
  <2>3. InFlight' = InFlight
    BY <1>1, <1>3 DEF InFlight
  <2>4. NoncesInFlightAreDistinct'
    BY <1>1, <2>2, <2>3 DEF Filled, NoncesInFlightAreDistinct
  <2>5. \A m \in Lanes : pc'[m] = "wait" => nonce'[m] \in DOMAIN pool' /\ m \in pool'[nonce'[m]].waiting
    BY <1>1, <1>2, <1>3, <2>2 DEF Filled
  <2>6. \A n \in DOMAIN pool' : \E m \in Lanes : pc'[m] = "wait" /\ nonce'[m] = n
    BY <1>1, <1>2, <1>3, <2>2 DEF Filled
  <2> QED  BY <1>1, <1>2, <2>2, <2>3, <2>4, <2>5, <2>6 DEF Filled
<1> QED  BY <1>4, <1>5, <1>6, <1>7, <1>8

LEMMA BroadcastFailsIInv ==
  ASSUME IInv, NEW l \in Lanes, BroadcastFails(l)
  PROVE  IInv'
<1> USE DEF IInv, TypeInv
<1>1. /\ pc[l] = "submit" /\ resync /\ pc' = [pc EXCEPT ![l] = "resync"] /\ erred'
      /\ UNCHANGED chainVars \/ Accept(nonce[l], query[l], Nobody)
      /\ UNCHANGED <<query, nonce, answer, arrived, spent, jammed>>
  BY DEF BroadcastFails, SubmitThrows, Goto
<1>2. \A m \in Lanes : pc'[m] = IF m = l THEN "resync" ELSE pc[m]
  BY <1>1 DEF LaneTypes
<1>3. ChainTypes' /\ UNCHANGED processed
  <2>1. CASE UNCHANGED chainVars
    BY <2>1 DEF chainVars, ChainTypes
  <2>2. CASE Accept(nonce[l], query[l], Nobody)
    BY <1>1, <2>2, AcceptKeeps DEF Accept
  <2> QED  BY <1>1, <2>1, <2>2
<1>4. TypeInv'
  BY <1>1, <1>3 DEF AllocatorTypeOK, LaneTypes, Stages, resync, ASKED
<1>5. PoolInv'
  <2>1. CASE UNCHANGED chainVars
    BY <1>1, <1>2, <2>1, SamePool DEF chainVars
  <2>2. CASE Accept(nonce[l], query[l], Nobody)
    <3>1. /\ DOMAIN pool' = DOMAIN pool \cup {nonce[l]}
          /\ pool'[nonce[l]] = [query |-> query[l], waiting |-> Nobody]
          /\ \A n \in DOMAIN pool : pool'[n] = pool[n]
      BY <1>1, <2>2, AcceptKeeps
    <3> SUFFICES ASSUME NEW n \in DOMAIN pool', NEW m \in pool'[n].waiting
                 PROVE  pc'[m] = "wait" /\ query'[m] = pool'[n].query /\ nonce'[m] = n
      BY DEF PoolInv
    <3>2. n \in DOMAIN pool /\ m \in pool[n].waiting /\ pool'[n] = pool[n]
      BY <3>1 DEF Nobody
    <3>3. m \in Lanes
      BY <3>2 DEF ChainTypes
    <3> QED  BY <1>1, <1>2, <3>2, <3>3 DEF PoolInv
  <2> QED  BY <1>1, <2>1, <2>2
<1>6. AnswerInv'
  BY <1>1, <1>2, <1>3 DEF AnswerInv, AnswersAreTrue
<1>7. SpendInv' /\ QuietInv'
  BY <1>1, <1>2, SameSpend, ErredQuiet
<1> QED  BY <1>4, <1>5, <1>6, <1>7

LEMMA WaitTimesOutIInv ==
  ASSUME IInv, NEW l \in Lanes, WaitTimesOut(l)
  PROVE  IInv'
<1> USE DEF IInv, TypeInv
<1>1. /\ pc[l] = "wait" /\ resync /\ pc' = [pc EXCEPT ![l] = "resync"] /\ erred'
      /\ pool' = [n \in DOMAIN pool |-> [pool[n] EXCEPT !.waiting = @ \ {l}]]
      /\ UNCHANGED <<query, nonce, answer, arrived, spent, jammed, mined, processed>>
  BY DEF WaitTimesOut, SubmitThrows, Goto, StopWaiting
<1>2. \A m \in Lanes : pc'[m] = IF m = l THEN "resync" ELSE pc[m]
  BY <1>1 DEF LaneTypes
<1>3. /\ DOMAIN pool' = DOMAIN pool
      /\ \A n \in DOMAIN pool : /\ pool'[n] \in [query: Queries, waiting: SUBSET Lanes]
                                /\ pool'[n].query = pool[n].query
                                /\ pool'[n].waiting = pool[n].waiting \ {l}
  BY <1>1 DEF ChainTypes
<1>4. TypeInv'
  BY <1>1, <1>3 DEF AllocatorTypeOK, LaneTypes, ChainTypes, Stages, resync, ASKED
<1>5. PoolInv'
  <2> SUFFICES ASSUME NEW n \in DOMAIN pool', NEW m \in pool'[n].waiting
               PROVE  pc'[m] = "wait" /\ query'[m] = pool'[n].query /\ nonce'[m] = n
    BY DEF PoolInv
  <2>1. n \in DOMAIN pool /\ m \in pool[n].waiting /\ m # l /\ m \in Lanes
    BY <1>3 DEF ChainTypes
  <2> QED  BY <1>1, <1>2, <1>3, <2>1 DEF PoolInv
<1>6. AnswerInv'
  BY <1>1, <1>2 DEF AnswerInv, AnswersAreTrue
<1>7. SpendInv' /\ QuietInv'
  BY <1>1, <1>2, SameSpend, ErredQuiet
<1> QED  BY <1>4, <1>5, <1>6, <1>7

LEMMA WaitThrowsIInv ==
  ASSUME IInv, NEW l \in Lanes, WaitThrows(l)
  PROVE  IInv'
<1> USE DEF IInv, TypeInv
<1>1. /\ pc[l] = "reverted" /\ resync /\ pc' = [pc EXCEPT ![l] = "resync"] /\ erred'
      /\ UNCHANGED <<query, nonce, answer, arrived, spent, jammed, mined, pool, processed>>
  BY DEF WaitThrows, SubmitThrows, Goto, chainVars
<1>2. \A m \in Lanes : pc'[m] = IF m = l THEN "resync" ELSE pc[m]
  BY <1>1 DEF LaneTypes
<1>3. TypeInv'
  BY <1>1 DEF AllocatorTypeOK, LaneTypes, ChainTypes, Stages, resync, ASKED
<1>4. PoolInv'
  BY <1>1, <1>2, SamePool
<1>5. AnswerInv'
  BY <1>1, <1>2 DEF AnswerInv, AnswersAreTrue
<1>6. SpendInv' /\ QuietInv'
  BY <1>1, <1>2, SameSpend, ErredQuiet
<1> QED  BY <1>3, <1>4, <1>5, <1>6

\* The lane spends the unit the guard counted for it.
LEMMA ReceiptIInv ==
  ASSUME IInv, NEW l \in Lanes, Receipt(l)
  PROVE  IInv'
<1> USE DEF IInv, TypeInv
<1> DEFINE a == Outcome(pc[l] = "receipt")
<1>1. /\ pc[l] \in {"receipt", "reverted"} /\ spent' = spent + 1 /\ Answer({l}, a)
      /\ UNCHANGED <<allocatorVars, chainVars, erred>>
  BY DEF Receipt
<1>2. a \in {"mirrored", "alreadyMirrored", "failed"} /\ (a # "failed" => query[l] \in processed)
  BY DEF Outcome, AnswerInv
<1> HIDE DEF a
<1>3. /\ pc' \in [Lanes -> Stages] /\ nonce' \in [Lanes -> Nat \cup {NO_NONCE}]
      /\ answer' \in [Lanes -> {"none", "mirrored", "alreadyMirrored", "failed"}]
      /\ jammed' \in BOOLEAN /\ UNCHANGED <<query, arrived>>
      /\ ChainTypes' /\ PoolInv' /\ AnswerInv'
      /\ \A m \in {l} : pc'[m] \in {"idle", "hung"}
      /\ \A m \in Lanes \ {l} : pc'[m] = pc[m] /\ nonce'[m] = nonce[m]
  BY <1>1, <1>2, AnswerKeeps
<1>4. TypeInv'
  BY <1>1, <1>3 DEF LaneTypes, AllocatorTypeOK, allocatorVars
<1>5. SpendInv'
  <2>1. PastTheGuard' = PastTheGuard \ {l} /\ l \in PastTheGuard
    BY <1>1, <1>3 DEF PastTheGuard
  <2>2. IsFiniteSet(PastTheGuard)
    BY FS_Subset, RelayerAssumption DEF PastTheGuard
  <2>3. Cardinality(PastTheGuard') = Cardinality(PastTheGuard) - 1
    BY <2>1, <2>2, FS_RemoveElement
  <2>4. Cardinality(PastTheGuard) \in Nat /\ Cardinality(Lanes) \in Nat
        /\ spent \in Nat /\ CEILING \in Nat
    BY <2>2, FS_CardinalityType, RelayerAssumption DEF LaneTypes
  <2> QED  BY <1>1, <2>3, <2>4 DEF SpendInv
<1>6. QuietInv'
  BY <1>1, <1>3, SameFlight DEF allocatorVars, chainVars
<1> QED  BY <1>3, <1>4, <1>5, <1>6

-----------------------------------------------------------------------------
(* Steps of the node and of the chain *)

LEMMA NodeRepliesIInv ==
  ASSUME IInv, NodeReplies
  PROVE  IInv'
<1> USE DEF IInv, TypeInv
<1>1. /\ read = ASKED /\ read' = PendingCount /\ next' = next
      /\ UNCHANGED <<pc, query, nonce, answer, arrived, mined, pool, processed, spent, jammed, erred>>
  BY DEF NodeReplies, NodeCounts, laneVars, chainVars
<1>2. PendingCount \in Nat /\ (DOMAIN pool = {} => PendingCount = mined)
  BY PendingCountIsFree
<1>3. TypeInv'
  BY <1>1, <1>2 DEF AllocatorTypeOK, LaneTypes, ChainTypes
<1>4. PoolInv' /\ AnswerInv' /\ SpendInv'
  BY <1>1, SamePool, SameSpend DEF AnswerInv, AnswersAreTrue
<1>5. QuietInv'
  BY <1>1, <1>2 DEF QuietInv, Untouched, Filled, InFlight, NO_READ, ASKED
<1> QED  BY <1>3, <1>4, <1>5

LEMMA ResyncedIInv ==
  ASSUME IInv, Resynced
  PROVE  IInv'
<1> USE DEF IInv, TypeInv
<1> DEFINE ls == {l \in Lanes : pc[l] = "resync"}
<1>1. /\ read \in Nat /\ next' = read /\ read' = NO_READ
      /\ Answer(ls, "failed") /\ UNCHANGED <<chainVars, spent, erred>>
  BY DEF Resynced, ReadResolves
<1>2. /\ pc' \in [Lanes -> Stages] /\ nonce' \in [Lanes -> Nat \cup {NO_NONCE}]
      /\ answer' \in [Lanes -> {"none", "mirrored", "alreadyMirrored", "failed"}]
      /\ jammed' \in BOOLEAN /\ UNCHANGED <<query, arrived>>
      /\ ChainTypes' /\ PoolInv' /\ AnswerInv'
      /\ \A l \in ls : pc'[l] \in {"idle", "hung"}
      /\ \A l \in Lanes \ ls : pc'[l] = pc[l] /\ nonce'[l] = nonce[l]
  BY <1>1, AnswerKeeps
<1>3. TypeInv'
  BY <1>1, <1>2 DEF LaneTypes, AllocatorTypeOK
<1>4. SpendInv'
  BY <1>1, <1>2, SameSpend
<1>5. QuietInv'
  <2> SUFFICES ASSUME ~erred PROVE next' # UNKNOWN /\ Filled'
    BY <1>1 DEF QuietInv
  <2>1. Untouched /\ read = 0
    BY <1>1 DEF QuietInv, Untouched, Filled, NO_READ, ASKED
  <2>2. InFlight' = {}
    BY <1>2, <2>1 DEF InFlight, Untouched
  <2>3. \A l \in Lanes : pc'[l] # "wait"
    BY <2>2 DEF InFlight
  <2> QED  BY <1>1, <2>1, <2>2, <2>3
           DEF Filled, Untouched, NoncesInFlightAreDistinct, chainVars, UNKNOWN
<1> QED  BY <1>2, <1>3, <1>4, <1>5

LEMMA ReadFailsIInv ==
  ASSUME IInv, ReadFails
  PROVE  IInv'
<1> USE DEF IInv, TypeInv
<1> DEFINE ls == {l \in Lanes : pc[l] \in {"resync", "take"}}
<1>1. /\ read' = NO_READ /\ next' = next /\ erred' = TRUE
      /\ Answer(ls, "failed") /\ UNCHANGED <<chainVars, spent>>
  BY DEF ReadFails, ReadRejects
<1>2. /\ pc' \in [Lanes -> Stages] /\ nonce' \in [Lanes -> Nat \cup {NO_NONCE}]
      /\ answer' \in [Lanes -> {"none", "mirrored", "alreadyMirrored", "failed"}]
      /\ jammed' \in BOOLEAN /\ UNCHANGED <<query, arrived>>
      /\ ChainTypes' /\ PoolInv' /\ AnswerInv'
      /\ \A l \in ls : pc'[l] \in {"idle", "hung"}
      /\ \A l \in Lanes \ ls : pc'[l] = pc[l] /\ nonce'[l] = nonce[l]
  BY <1>1, AnswerKeeps
<1>3. TypeInv'
  BY <1>1, <1>2 DEF LaneTypes, AllocatorTypeOK, NO_READ
<1>4. SpendInv' /\ QuietInv'
  BY <1>1, <1>2, SameSpend, ErredQuiet
<1> QED  BY <1>2, <1>3, <1>4

LEMMA OthersProcessIInv ==
  ASSUME IInv, NEW q \in Queries, OthersProcess(q)
  PROVE  IInv'
<1> USE DEF IInv, TypeInv
<1>1. /\ processed' = processed \cup {q}
      /\ UNCHANGED <<next, read, pc, query, nonce, answer, arrived, mined, pool, spent, jammed, erred>>
  BY DEF OthersProcess, RetireQuery, laneVars, allocatorVars
<1>2. TypeInv' /\ AnswerInv'
  BY <1>1 DEF AllocatorTypeOK, LaneTypes, ChainTypes, AnswerInv, AnswersAreTrue
<1>3. PoolInv' /\ SpendInv' /\ QuietInv'
  BY <1>1, SamePool, SameSpend, SameFlight
<1> QED  BY <1>2, <1>3

\* The lanes that wait for the transaction hold its nonce, and no others do.
LEMMA MineIInv ==
  ASSUME IInv, Mine
  PROVE  IInv'
<1> USE DEF IInv, TypeInv
<1> DEFINE ls == pool[mined].waiting
<1>1. PICK ok \in BOOLEAN :
        /\ mined \in DOMAIN pool /\ mined' = mined + 1
        /\ pool' = [n \in DOMAIN pool \ {mined} |-> pool[n]]
        /\ processed' = IF ok THEN processed \cup {pool[mined].query} ELSE processed
        /\ pc' = [l \in Lanes |-> IF l \notin ls THEN pc[l]
                                  ELSE IF ok THEN "receipt" ELSE "reverted"]
        /\ UNCHANGED <<next, read, query, nonce, answer, arrived, spent, jammed, erred>>
  BY DEF Mine, Execute, allocatorVars
<1>2. /\ mined \in Nat /\ ls \subseteq Lanes /\ pool[mined].query \in Queries
      /\ \A l \in ls : pc[l] = "wait" /\ query[l] = pool[mined].query /\ nonce[l] = mined
  BY <1>1 DEF ChainTypes, PoolInv
<1>3. \A l \in Lanes : pc'[l] = IF l \notin ls THEN pc[l]
                                ELSE IF ok THEN "receipt" ELSE "reverted"
  BY <1>1
<1> HIDE DEF ls
<1>4. /\ DOMAIN pool' = DOMAIN pool \ {mined} /\ \A n \in DOMAIN pool' : pool'[n] = pool[n]
      /\ IsFiniteSet(DOMAIN pool \ {mined})
  BY <1>1, FS_RemoveElement DEF ChainTypes
<1>5. TypeInv'
  <2>1. ChainTypes'
    BY <1>1, <1>2, <1>4 DEF ChainTypes
  <2>2. pc' \in [Lanes -> Stages]
    BY <1>1 DEF LaneTypes, Stages
  <2> QED  BY <1>1, <2>1, <2>2 DEF AllocatorTypeOK, LaneTypes
<1>6. PoolInv'
  <2> SUFFICES ASSUME NEW n \in DOMAIN pool', NEW l \in pool'[n].waiting
               PROVE  pc'[l] = "wait" /\ query'[l] = pool'[n].query /\ nonce'[l] = n
    BY DEF PoolInv
  <2>1. n \in DOMAIN pool /\ n # mined /\ l \in pool[n].waiting /\ pool'[n] = pool[n]
    BY <1>4
  <2>2. pc[l] = "wait" /\ query[l] = pool[n].query /\ nonce[l] = n /\ l \in Lanes
    BY <2>1 DEF PoolInv, ChainTypes
  <2> QED  BY <1>1, <1>2, <1>3, <2>1, <2>2
<1>7. AnswerInv'
  <2>1. processed \subseteq processed' /\ query' = query /\ answer' = answer
    BY <1>1
  <2>2. ASSUME NEW l \in Lanes, pc'[l] = "receipt"
        PROVE  query'[l] \in processed'
    BY <1>1, <1>2, <1>3, <2>1, <2>2 DEF AnswerInv
  <2> QED  BY <2>1, <2>2 DEF AnswerInv, AnswersAreTrue
<1>8. SpendInv'
  BY <1>1, <1>2, <1>3, SameSpend
<1>9. QuietInv'
  <2> SUFFICES ASSUME ~erred PROVE next # UNKNOWN /\ Filled'
    BY <1>1 DEF QuietInv
  <2>1. next # UNKNOWN /\ Filled
    BY <1>1 DEF QuietInv, Untouched
  <2>2. next \in Nat
    BY <2>1 DEF AllocatorTypeOK
  <2>3. ls = {l \in InFlight : nonce[l] = mined}
    <3>1. ASSUME NEW l \in InFlight, nonce[l] = mined
          PROVE  l \in ls
      <4>1. PICK m \in Lanes : pc[m] = "wait" /\ nonce[m] = mined
        BY <1>1, <2>1 DEF Filled
      <4>2. m = l
        BY <2>1, <3>1, <4>1 DEF Filled, NoncesInFlightAreDistinct, InFlight
      <4> QED  BY <2>1, <4>1, <4>2 DEF Filled, ls
    <3> QED  BY <1>2, <3>1 DEF InFlight
  <2>4. InFlight' = InFlight \ ls
    BY <1>1, <1>2, <1>3 DEF InFlight
  <2>5. \A l \in InFlight' : nonce'[l] = nonce[l] /\ nonce[l] \in (mined + 1)..(next - 1)
    BY <1>1, <1>2, <2>1, <2>2, <2>3, <2>4 DEF Filled
  <2>6. mined + 1 <= next
    BY <1>1, <1>2, <2>1, <2>2 DEF Filled, InFlight
  <2>7. NoncesInFlightAreDistinct'
    BY <2>1, <2>4, <2>5 DEF Filled, NoncesInFlightAreDistinct
  <2>8. ASSUME NEW n \in (mined + 1)..(next - 1)
        PROVE  \E l \in InFlight' : nonce'[l] = n
    <3>1. n \in mined..(next - 1) /\ n # mined
      BY <1>2, <2>2
    <3>2. PICK l \in InFlight : nonce[l] = n
      BY <2>1, <3>1 DEF Filled
    <3> QED  BY <2>3, <2>4, <2>5, <3>1, <3>2
  <2>9. \A l \in Lanes : pc'[l] = "wait" => nonce'[l] \in DOMAIN pool' /\ l \in pool'[nonce'[l]].waiting
    <3> SUFFICES ASSUME NEW l \in Lanes, pc'[l] = "wait"
                 PROVE  nonce[l] \in DOMAIN pool' /\ l \in pool'[nonce[l]].waiting
      BY <1>1
    <3>1. pc[l] = "wait" /\ l \notin ls
      BY <1>3
    <3>2. nonce[l] \in DOMAIN pool /\ l \in pool[nonce[l]].waiting
      BY <2>1, <3>1 DEF Filled
    <3>3. nonce[l] # mined
      BY <3>1, <3>2 DEF ls
    <3> QED  BY <1>4, <3>2, <3>3
  <2>10. \A n \in DOMAIN pool' : \E l \in Lanes : pc'[l] = "wait" /\ nonce'[l] = n
    <3> SUFFICES ASSUME NEW n \in DOMAIN pool'
                 PROVE  \E l \in Lanes : pc'[l] = "wait" /\ nonce'[l] = n
      OBVIOUS
    <3>1. n \in DOMAIN pool /\ n # mined
      BY <1>4
    <3>2. PICK l \in Lanes : pc[l] = "wait" /\ nonce[l] = n
      BY <2>1, <3>1 DEF Filled
    <3>3. l \notin ls
      BY <1>2, <3>1, <3>2
    <3> QED  BY <1>1, <1>3, <3>2, <3>3
  <2>11. /\ read' = NO_READ /\ mined' = mined + 1 /\ next' = next
         /\ mined'..(next' - 1) \subseteq {nonce'[l] : l \in InFlight'}
         /\ \A l \in InFlight' : nonce'[l] \in mined'..(next' - 1)
    BY <1>1, <2>1, <2>5, <2>8 DEF Filled
  <2> QED  BY <2>1, <2>6, <2>7, <2>9, <2>10, <2>11 DEF Filled
<1> QED  BY <1>5, <1>6, <1>7, <1>8, <1>9

LEMMA NextIInv == IInv /\ [RequestNext]_requestVars => IInv'
<1> SUFFICES ASSUME IInv, [RequestNext]_requestVars PROVE IInv'
  OBVIOUS
<1>1. ASSUME NEW l \in Lanes, Parsed(l) \/ Derived(l)
      PROVE  IInv'
  BY <1>1, MoveIInv DEF Parsed, Derived
<1>2. ASSUME NEW l \in Lanes, Failed(l)
      PROVE  IInv'
  BY <1>2, EndIInv DEF Failed
<1>3. ASSUME NEW l \in Lanes, Deduped(l)
      PROVE  IInv'
  BY <1>3, MoveIInv, EndIInv DEF Deduped
<1>4. ASSUME NEW l \in Lanes, LaneStep(l)
      PROVE  IInv'
  BY <1>1, <1>2, <1>3, <1>4, UnreadableIInv, PlannedIInv, NonceTakenIInv, BroadcastIInv,
     BroadcastFailsIInv, WaitTimesOutIInv, ReceiptIInv, WaitThrowsIInv DEF LaneStep
<1>5. ASSUME NEW l \in Lanes, NEW q \in Queries, Arrive(l, q)
      PROVE  IInv'
  BY <1>5, ArriveIInv
<1>6. CASE ReadStep
  BY <1>6, NodeRepliesIInv, ResyncedIInv, ReadFailsIInv DEF ReadStep
<1>7. CASE Mine
  BY <1>7, MineIInv
<1>8. ASSUME NEW q \in Queries, OthersProcess(q)
      PROVE  IInv'
  BY <1>8, OthersProcessIInv
<1>9. CASE UNCHANGED requestVars
  <2> USE <1>9 DEF requestVars, allocatorVars, laneVars, chainVars, IInv, TypeInv
  <2>1. TypeInv' /\ AnswerInv'
    BY DEF AllocatorTypeOK, LaneTypes, ChainTypes, AnswerInv, AnswersAreTrue
  <2>2. PoolInv' /\ SpendInv' /\ QuietInv'
    BY SamePool, SameSpend, SameFlight
  <2> QED  BY <2>1, <2>2
<1> QED  BY <1>4, <1>5, <1>6, <1>7, <1>8, <1>9 DEF RequestNext

\* The inductive invariant, with the facet the behaviour is about.
FacetInv == IInv /\ facet \in {"limiter", "requests"}

LEMMA RequestInvariant == Spec => []FacetInv
<1>1. Init => FacetInv
  BY InitIInv DEF Init, FacetInv
<1>2. FacetInv /\ [Next]_vars => FacetInv'
  <2> SUFFICES ASSUME FacetInv, [Next]_vars
               PROVE  FacetInv'
    OBVIOUS
  <2>1. [RequestNext]_requestVars /\ UNCHANGED facet
    BY DEF Next, vars
  <2> QED  BY <2>1, NextIInv DEF FacetInv
<1> QED  BY <1>1, <1>2, PTL DEF Spec

\* Whatever the requests do, the limiter takes its own steps and no others.
LEMMA SpecOfLimiter == Spec => LimiterSpec
<1>1. Init => LimiterInit
  BY DEF Init
<1>2. [Next]_vars => [LimiterNext]_limiterVars
  BY DEF Next, vars
<1> QED  BY <1>1, <1>2, PTL DEF Spec, LimiterSpec

-----------------------------------------------------------------------------
(* Theorems of the relayer *)

\* Every lane, nonce, answer and pooled transaction has its type; in particular the
\* node always has a count to answer.
THEOREM RelayerTypeCorrect == Spec => []TypeOK
<1>1. FacetInv /\ LimiterTypeOK => TypeOK
  BY DEF FacetInv, IInv, TypeInv, LaneTypes, ChainTypes, TypeOK
<1> QED  BY <1>1, RequestInvariant, SpecOfLimiter, LimiterTypeCorrect, PTL

\* Until something fails, no nonce collides and none waits for a gap, however many
\* requests share the wallet.
THEOREM RelayerLeavesNoGap == Spec => []NoGapUntilAnError
<1>1. FacetInv => NoGapUntilAnError
  BY DEF FacetInv, IInv, QuietInv, Filled, NoGapUntilAnError
<1> QED  BY <1>1, RequestInvariant, PTL

\* Who is told mirrored or alreadyMirrored can rely on it.
THEOREM RelayerAnswersAreTrue == Spec => []AnswersAreTrue
<1>1. FacetInv => AnswersAreTrue
  BY DEF FacetInv, IInv, AnswerInv
<1> QED  BY <1>1, RequestInvariant, PTL

\* The guard is overshot by less than one unit per request in progress.
THEOREM RelayerOvershootIsBounded == Spec => []OvershootIsBounded
<1>1. ASSUME FacetInv PROVE OvershootIsBounded
  <2>1. IsFiniteSet(PastTheGuard) /\ IsFiniteSet(Lanes)
    BY FS_Subset, RelayerAssumption DEF PastTheGuard
  <2>2. Cardinality(PastTheGuard) \in Nat /\ Cardinality(Lanes) \in Nat
        /\ spent \in Nat /\ CEILING \in Nat
    BY <1>1, <2>1, FS_CardinalityType, RelayerAssumption
       DEF FacetInv, IInv, TypeInv, LaneTypes
  <2> QED  BY <1>1, <2>2 DEF FacetInv, IInv, SpendInv, OvershootIsBounded
<1> QED  BY <1>1, RequestInvariant, PTL

\* The limiter keeps its promises inside the relayer: the burst and the hint of a 429.
THEOREM RelayerLimits == Spec => []BurstIsBounded /\ []RetryAfterIsHonoured
  BY SpecOfLimiter, BurstHolds, HintIsHonoured, PTL

=============================================================================
