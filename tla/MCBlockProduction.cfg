SPECIFICATION Spec
CONSTANTS
  h1 = h1
  h2 = h2
  f = f
  Honest = {h1, h2}
  Faulty = {f}
  Quorums <- MCQuorums
  EthLog <- MCEthLog
  End <- MCEnd
  MaxEthBlock = 3
  Panicking = {}
  Mempools <- MCFewMempools
  BlockIntervals = {1}
  GenesisUpdateTimes <- MCGenesisUpdateTimes
  MaxOutages = 0
  MaxHeight = 6
  MaxArbitrary = 2
  MaxTxBytes = 10
  MaxGas = 3
  AllocNum = 1
  AllocDen = 2
  InjectedEventTxMaxBytes = 4
  SupplyDeltaPeriod = 2
  MaxEthBlockUpdateDelay = 2
  IndexTxSize = 1
  DeltaTxSize = 1
  SkipTxSize = 2
INVARIANTS
  TypeOK
  EveryEventOnceInOrder
  
  SyncNeverStale
  SupplyDeltaOncePerPeriod
  SpecialTxsAreUnique
PROPERTIES
  ImplementsDelivery
