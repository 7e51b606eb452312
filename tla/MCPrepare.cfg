SPECIFICATION Spec
CONSTANTS
  h1 = h1
  h2 = h2
  f = f
  Honest = {h1}
  Faulty = {}
  Quorums <- MCSoloQuorums
  EthLog <- MCEthLog
  End <- MCEnd
  MaxEthBlock = 3
  Panicking = {}
  Mempools <- MCManyMempools
  BlockIntervals = {1, 2}
  GenesisUpdateTimes <- MCGenesisUpdateTimes
  MaxOutages = 1
  MaxHeight = 7
  MaxArbitrary = 3
  MaxTxBytes = 10
  MaxGas = 3
  AllocNum = 1
  AllocDen = 2
  InjectedEventTxMaxBytes = 4
  SupplyDeltaPeriod = 2
  MaxEthBlockUpdateDelay = 2
  IndexTxSize = 1
  DeltaTxSize = 1
  SkipTxSize = 2
INVARIANTS
  PreparedIsAccepted
  PreparedFits
