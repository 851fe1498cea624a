SPECIFICATION Spec
CONSTANTS
  alice = alice
  bob = bob
  p1 = p1
  p2 = p2
  Nodes = {alice, bob}
  Payments = {p1, p2}
  Initiator <- MCInitiator
  Amount <- MCAmount
  Deposit <- MCDeposit
  DepositTotals <- MCNoTotals
  WithdrawTotals <- MCNoTotals
  CoopSettlers = {}
  UINT256_MAX = 5
  MAXIMUM_PENDING_TRANSFERS = 2
  CONFIRMATIONS = 1
  REVEAL_TIMEOUT = 3
  SETTLE_TIMEOUT = 6
  MaxBlock = 9
  LastStart = 1
  MaxLag = 2
  MineDelay = 12
INVARIANTS
  
  CopiesAgree
  ExpiryIsFinal
CHECK_DEADLOCK FALSE
