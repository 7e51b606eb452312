SPECIFICATION Spec
CONSTANTS
  alice = alice
  val = val
  Gov = Gov
  Bridge = Bridge
  Null = Null
  Unreadable = Unreadable
  Addrs = {alice, val}
  Barred = {val}
  Amounts = {1, 3}
  Lockups = {0, 1, 2, 5, 6, 8}
  MaxInt64 = 7
  Nanos = 3
  Precision = 100
  StartTimes = {1, 2}
  MaxTime = 3
  MaxDeposits = 2
  MaxUpdates = 1
INVARIANTS
  PanicsOnlyOnAmount
