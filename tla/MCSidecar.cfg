SPECIFICATION FairSpec
CONSTANTS
  q1 = q1
  EthLogs <- MCEthLogs
  MaxEthBlock = 4
  MaxQueryRange = 2
  PruneBuffer = 1
  EndQueryBlock = 0
  UnsafeStart = 1
  GenesisBlock = 0
  Handlers = {q1}
  MaxErrors = 1
  MaxRestarts = 1
INVARIANTS
  TypeOK
  LogsAreProcessed
  StoreIsFaithful
  SettledAnswersAreTrue
  AnswersAreFinal
PROPERTIES
  NeverMovesBack
  CatchesUp
