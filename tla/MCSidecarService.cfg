SPECIFICATION FairSpec
CONSTANTS
  MaxRequests = 2
  MaxRestarts = 1
INVARIANTS
  TypeOK
  AnswersAreOwn
  StrandedWereCancelled
PROPERTIES
  OnlyCancelledLeak
  ShutdownReturns
  CloseReturns
