CONSTANTS
  ChainKeys <- MCChainKeys
  Uids = {"u1", "u2", "u3"}
  Contracts = {"eas", "clone"}
  Parties = {"alice", "bob", "mallory"}
  Schemas = {"schema"}
  Accounts = {"deployer", "heir"}
  Deployer = "deployer"
  Tx <- MCTx
  SourceTx <- MCSourceTx
  SeededEas <- MCSeededEas
  TxHashes = {"h1"}
  Null = "zero"
  MaxTime = 2
  Programs = {"bench", "worker", "batch"}
  MaxGroups = 3
  Width = 2
  MaxKills = 1
  KillGroups = 2
SPECIFICATION RegistryAndLanesSpec
INVARIANTS
  RecordsMatchQueries
  ValidIffAttestedNotRevoked
  TotalsAreExact
  EveryRecordIsProven
  LanesTypeOK
  ResultsAreTrue
  EveryGroupIsAccountedFor
  NoGapUntilDisturbed
PROPERTIES
  RevocationIsFinal
  MirrorIsWrittenOnce
  LedgerSpec
  RunEnds
CHECK_DEADLOCK FALSE
