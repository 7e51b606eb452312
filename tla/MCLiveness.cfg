SPECIFICATION FairSpec
CONSTANTS
  h1 = h1
  h2 = h2
  f = f
  Honest = {h1, h2}
  Faulty = {f}
  Quorums <- MCQuorums
  EthLog <- MCSmallEthLog
  End <- MCSmallEnd
  MaxEthBlock = 2
  Panicking = {}
  Mempools <- MCMempools
  BlockIntervals = {1}
  GenesisUpdateTimes = {0}
  MaxOutages = 1
  MaxHeight = 30
  MaxArbitrary = 1
  MaxTxBytes = 10
  MaxGas = 3
  AllocNum = 1
  AllocDen = 2
  InjectedEventTxMaxBytes = 4
  SupplyDeltaPeriod = 3
  MaxEthBlockUpdateDelay = 1
  IndexTxSize = 1
  DeltaTxSize = 1
  SkipTxSize = 1
PROPERTIES
  EthereumIsSynced
