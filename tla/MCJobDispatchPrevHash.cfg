SPECIFICATION Spec
CONSTANTS
  Clients <- MCClients
  Blocks = {b1}
  NoJob = NoJob
  MaxJobs = 2
  MaxIssued = 2
  NetworkTarget <- MCNetworkTarget
  Diffs <- MCDiffs
  MaxTarget = 8
  Goroutines = {g1, g2}
  Wallets <- MCWallets
  Workers <- MCWorkers
  Identities <- MCNoName
  MinShareDiff = 2
  SoloMining = FALSE
  MaxChannels = 1
  SendsMayFail = FALSE
SYMMETRY MCSymmetry
INVARIANT PrevHashFollowsItsJob
CHECK_DEADLOCK FALSE
