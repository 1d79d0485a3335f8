SPECIFICATION Spec
CONSTANTS
  Clients <- MCClients
  RemoteAddr <- MCSameAddr
  Blocks <- MCBlocks2
  NoJob = NoJob
  MaxJobs = 1
  MaxIssued = 1
  NetworkTarget <- MCNetworkTarget2
  Diffs <- MCDiff
  MaxTarget = 8
  Wallets <- MCWallets
  Workers <- MCWorkers
  Identities <- MCIdentities
  SV2Clients <- MCSecondClient
  Unconvertible <- MCSecondBlock
  MayMalform <- MCFirstClient
  MayDisconnect <- MCNobody
  JobIds <- MCJobId
  Nonces <- MCBlockShare
  BlueScore <- MCBlueScore2
  PowValue <- MCPow2
  MinShareDiff = 2
  WorkWindow = 1
  MaxTracked = 2
  MaxSubmits <- MCOneSubmit
INVARIANTS
  TypeOK
  StatsReachableOnce
  RowsAddUp
PROPERTIES
  ImplementsLedger
CHECK_DEADLOCK FALSE
