CONSTANTS
  ChainKeys = {3}
  Uids = {"u1", "u2"}
  Parties = {"lender", "alice", "issuer"}
  Schemas = {"kyc"}
  Null = "zero"
  Accounts = {"lender", "alice"}
  Contracts = {}
  Attestations <- MCAttestations
  Deployer = "lender"
  Requirements <- PartialRequirements
  Caps = {0, 1}
  Wealth <- MCWealth
  MaxAmount = 1
  MaxDepth = 0
SPECIFICATION PoolSpec
INVARIANTS
  EligibilityExplainsBorrow
