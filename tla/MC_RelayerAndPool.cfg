CONSTANTS
  Lanes = {l1, l2}
  Queries = {q1, q2}
  CEILING = 1
  MaxRequests = 3
  Ips = {"ip1"}
  CAPACITY = 2
  REFILL_INTERVAL = 3
  MaxAge = 4
  MaxTime = 11
  ChainKeys = {3}
  Uids = {"u1"}
  Parties = {"lender", "alice", "issuer"}
  Schemas = {"kyc"}
  Null = "zero"
  Accounts = {"lender", "alice"}
  Contracts = {"alice"}
  Attestations <- MCAttestations
  Deployer = "lender"
  Requirements <- CompleteRequirements
  Caps = {0, 1}
  Wealth <- MCWealth
  MaxAmount = 2
  MaxDepth = 2
SPECIFICATION RelayerAndPoolSpec
INVARIANTS
  TypeOK
  NoGapUntilAnError
  AnswersAreTrue
  OvershootIsBounded
  BurstIsBounded
  RetryAfterIsHonoured
  PoolTypeOK
  BooksBalance
  DebtWithinCap
  DebtIsWarranted
  EligibilityExplainsBorrow
PROPERTIES
  EveryRequestIsAnswered
CHECK_DEADLOCK FALSE
