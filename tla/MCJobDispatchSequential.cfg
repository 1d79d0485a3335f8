SPECIFICATION Spec
CONSTANTS
  Clients <- MCClients
  Blocks = {b1, b2}
  NoJob = NoJob
  MaxJobs = 2
  MaxIssued = 3
  NetworkTarget <- MCNetworkTarget
  Diffs <- MCDiffs
  MaxTarget = 8
  Goroutines = {g1}
  Wallets <- MCWallets
  Workers <- MCWorkers
  Identities <- MCTwoNames
  MinShareDiff = 2
  SoloMining = FALSE
  MaxChannels = 0
  SendsMayFail = TRUE
SYMMETRY MCSymmetry
INVARIANTS
  MinerKnowsItsDiff
  StoppedTrackerRestarts
  RecentJobsKeepTheirTemplate
CHECK_DEADLOCK FALSE
