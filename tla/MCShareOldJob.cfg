SPECIFICATION Spec
CONSTANTS
  Clients <- MCOneClient
  RemoteAddr <- MCOneAddr
  Blocks <- MCBlocks3
  NoJob = NoJob
  MaxJobs = 2
  MaxIssued = 3
  NetworkTarget <- MCNetworkTarget3
  Diffs <- MCDiffs
  MaxTarget = 8
  Wallets <- MCWallets
  Workers <- MCWorkers
  Identities <- MCOneIdentity
  SV2Clients <- MCNobody
  Unconvertible <- MCNobody
  MayMalform <- MCNobody
  MayDisconnect <- MCOneClient
  JobIds <- MCJobIds3
  Nonces <- MCShareNonces
  BlueScore <- MCBlueScore
  PowValue <- MCPow3
  MinShareDiff = 2
  WorkWindow = 1
  MaxTracked = 2
  MaxSubmits <- MCTwoSubmits
INVARIANTS
  OldJobAnsweredStale
CHECK_DEADLOCK FALSE
