SPECIFICATION Spec
CONSTANTS
  Clients <- MCClients
  RemoteAddr <- MCSameAddr
  Blocks <- MCBlocks2
  NoJob = NoJob
  MaxJobs = 1
  MaxIssued = 1
  NetworkTarget <- MCNetworkTarget2
  Diffs <- MCDiff
  MaxTarget = 8
  Wallets <- MCWallets
  Workers <- MCWorkers
  Identities <- MCSameIdentity
  SV2Clients <- MCNobody
  Unconvertible <- MCNobody
  MayMalform <- MCNobody
  MayDisconnect <- MCSecondClient
  JobIds <- MCJobId
  Nonces = {n1, n2}
  BlueScore <- MCBlueScore2
  PowValue <- MCWeakPow
  MinShareDiff = 2
  WorkWindow = 0
  MaxTracked = 1
  MaxSubmits <- MCTwoAndOne
SYMMETRY MCNonceSymmetry
INVARIANTS
  HistoryConsistent
  DuplicateWindow
  StalenessJustified
PROPERTIES
  TipNeverFalls
CHECK_DEADLOCK FALSE
