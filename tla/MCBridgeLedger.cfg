CONSTANTS
  alice = alice
  bob = bob
  t1 = t1
  t2 = t2
  t3 = t3
  NoOwner = NoOwner
  Senders <- MCSenders
  Topics <- MCTopics
  BadTopics = {t3}
  Amounts = {2}
  Provisions = {1}
  Burns = {0, 1}
  Periods = {1, 2}
  BlobSizes = {1, 2}
  GenesisSupply = 3
  GenesisLastSupply = 3
  MaxHeight = 3
  MaxResponses = 3
  MaxDeposits = 1
  MaxExports = 1
SPECIFICATION Spec
SYMMETRY Symmetry
INVARIANTS TypeOK ReportsAddUp NoncesAreConsecutive TopicsAreLogs
