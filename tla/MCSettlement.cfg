SPECIFICATION FairSpec
CONSTANTS
  alice = alice
  bob = bob
  p1 = p1
  p2 = p2
  Nodes = {alice, bob}
  Payments = {p1}
  Initiator <- MCInitiator
  Amount <- MCAmount
  Deposit <- MCDeposit
  Closers = {alice, bob}
  UINT256_MAX = 5
  MAXIMUM_PENDING_TRANSFERS = 2
  CONFIRMATIONS = 1
  REVEAL_TIMEOUT = 3
  SETTLE_TIMEOUT = 6
  MaxBlock = 18
  LastStart = 1
  LastClose = 2
  MaxLag = 0
  MaxDown = 2
  MaxCrashes = 1
INVARIANTS
  PaidByLatest
PROPERTIES
  ClosedIsSettled
CHECK_DEADLOCK FALSE
