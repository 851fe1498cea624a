SPECIFICATION FairSpec
CONSTANTS
  p1 = p1
  Payments = {p1}
  Amount <- MCAmount
  EstimatedFee = 1
  FlatFee = 1
  Deposit <- MCDeposit
  LaterDeposit <- MCLaterDeposit
  Closers = {"initiator", "target"}
  MaxCloses = 1
  UINT256_MAX = 5
  MAXIMUM_PENDING_TRANSFERS = 2
  CONFIRMATIONS = 1
  REVEAL_TIMEOUT = 3
  SETTLE_TIMEOUT = 6
  MaxBlock = 10
  LastStart = 2
  MaxLag = 1
  MineDelay = 1
PROPERTIES
  MediatorNeverLoses
  
  MediatorIsPaid
CHECK_DEADLOCK FALSE
