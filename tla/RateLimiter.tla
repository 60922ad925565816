---------------------------- MODULE RateLimiter ----------------------------
(***************************************************************************)
(* relayer/src/rateLimit.ts: the token bucket per client address that      *)
(* every POST /mirror pays before any work starts, and the sweep that      *)
(* index.ts runs on a timer.  Both run to completion between two turns of  *)
(* the event loop.  Time is counted in ticks; a tick is any fraction of    *)
(* REFILL_INTERVAL_MS.                                                     *)
(***************************************************************************)
EXTENDS Integers, FiniteSets

CONSTANTS
  Ips,                \* client addresses
  CAPACITY,           \* RELAYER_RATE_LIMIT_BURST
  REFILL_INTERVAL,    \* ticks per token
  MaxAge,             \* maxAgeMs, in ticks
  MaxTime             \* bound on the clock

ASSUME RateAssumption ==
  /\ CAPACITY \in Nat \ {0} /\ REFILL_INTERVAL \in Nat \ {0}
  /\ MaxAge \in Nat /\ MaxTime \in Nat

VARIABLES
  now,
  buckets,      \* the map: a function on the addresses that have a bucket
  admitted,     \* history: admitted[ip][t], requests of ip admitted by t
  refusedAt,    \* history: the first refusal of ip since it was last admitted
  refusedLast   \* history: the latest one

limiterVars == <<now, buckets, admitted, refusedAt, refusedLast>>

NEVER == -1
Times == 0..MaxTime
BEFORE == -1    \* the instant before the process starts
Bucket == [tokens: 0..CAPACITY, lastRefillAt: Times]

LimiterTypeOK ==
  /\ now \in Times
  /\ DOMAIN buckets \in SUBSET Ips
  /\ \A ip \in DOMAIN buckets : buckets[ip] \in Bucket
  /\ admitted \in [Ips -> [BEFORE..MaxTime -> Nat]]
  /\ refusedAt \in [Ips -> Times \cup {NEVER}]
  /\ refusedLast \in [Ips -> Times \cup {NEVER}]

LimiterInit ==
  /\ now = 0
  /\ buckets = [ip \in {} |-> 0]
  /\ admitted = [ip \in Ips |-> [t \in BEFORE..MaxTime |-> 0]]
  /\ refusedAt = [ip \in Ips |-> NEVER] /\ refusedLast = [ip \in Ips |-> NEVER]

AtMost(n, bound) == IF n > bound THEN bound ELSE n

\* Mistakes: the refill is not dated; there is no refill.
RefilledUndated(bucket) ==
  [bucket EXCEPT !.tokens =
     AtMost(@ + (now - bucket.lastRefillAt) \div REFILL_INTERVAL, CAPACITY)]

RefilledNever(bucket) == bucket

\* refill: whole tokens only, and the rest of the interval is forgotten.
Refilled(bucket) ==
  LET grant == (now - bucket.lastRefillAt) \div REFILL_INTERVAL
  IN  IF grant >= 1
      THEN [tokens |-> AtMost(bucket.tokens + grant, CAPACITY), lastRefillAt |-> now]
      ELSE bucket

\* The bucket of ip as takeToken sees it.
BucketOf(ip) ==
  IF ip \in DOMAIN buckets THEN Refilled(buckets[ip])
  ELSE [tokens |-> CAPACITY, lastRefillAt |-> now]

SetBucket(ip, bucket) ==
  buckets' = [i \in DOMAIN buckets \cup {ip} |-> IF i = ip THEN bucket ELSE buckets[i]]

Taken(bucket) == [bucket EXCEPT !.tokens = @ - 1]

Admit(ip) ==
  /\ BucketOf(ip).tokens > 0
  /\ SetBucket(ip, Taken(BucketOf(ip)))
  /\ admitted' = [admitted EXCEPT ![ip] =
                    [t \in BEFORE..MaxTime |-> IF t >= now THEN @[t] + 1 ELSE @[t]]]
  /\ refusedAt' = [refusedAt EXCEPT ![ip] = NEVER]
  /\ refusedLast' = [refusedLast EXCEPT ![ip] = NEVER]
  /\ UNCHANGED now

\* 429, with REFILL_INTERVAL as the hint when to retry.
Refuse(ip) ==
  /\ BucketOf(ip).tokens = 0
  /\ SetBucket(ip, BucketOf(ip))
  /\ refusedAt' = [refusedAt EXCEPT ![ip] = IF @ = NEVER THEN now ELSE @]
  /\ refusedLast' = [refusedLast EXCEPT ![ip] = now]
  /\ UNCHANGED <<now, admitted>>

Stale(ip) == now - buckets[ip].lastRefillAt > MaxAge

sweepStaleBuckets ==
  /\ buckets' = [ip \in {i \in DOMAIN buckets :
                           ~(Stale(i) /\ buckets[i].tokens >= CAPACITY)} |-> buckets[ip]]
  /\ UNCHANGED <<now, admitted, refusedAt, refusedLast>>

Tick ==
  /\ now < MaxTime
  /\ now' = now + 1
  /\ UNCHANGED <<buckets, admitted, refusedAt, refusedLast>>

LimiterNext ==
  \/ \E ip \in Ips : Admit(ip) \/ Refuse(ip)
  \/ sweepStaleBuckets
  \/ Tick

LimiterSpec == LimiterInit /\ [][LimiterNext]_limiterVars

-----------------------------------------------------------------------------
(* Properties *)

AdmittedWithin(ip, a, b) == admitted[ip][b] - admitted[ip][a - 1]

\* In any stretch of time a client gets the burst and one request per whole
\* interval of it, however it spaces its requests and whatever the sweep does.
BurstIsBounded ==
  \A ip \in Ips : \A a \in 0..now : \A b \in a..now :
    AdmittedWithin(ip, a, b) <= CAPACITY + (b - a) \div REFILL_INTERVAL

\* The hint of a 429 holds: REFILL_INTERVAL after the first refusal since it was last
\* admitted a client finds a token, and from then on it has not been refused again,
\* even if it kept asking all the time and whatever the sweep does.
RetryAfterIsHonoured ==
  \A ip \in Ips : refusedAt[ip] # NEVER =>
    /\ refusedLast[ip] < refusedAt[ip] + REFILL_INTERVAL
    /\ now >= refusedAt[ip] + REFILL_INTERVAL => BucketOf(ip).tokens > 0

=============================================================================
