CONSTANTS
  a = a
  b = b
  c = c
  h1 = h1
  none = none
  Participants = {a, b}
  MAX_SAFE_UINT256 = 3
  SettleTimeout = 1
  ParticipantLimit = 2
  NetworkLimit = 3
  Supply = 2
  SecretHashes <- mcSecretHashes
  LockLists <- mcLockLists
  BalanceHashes <- mcBalanceHashes
  EmptyBalanceHash = none
  MaxChannels = 1
  MaxNonce = 2
  MaxTime = 3
SYMMETRY mcSymmetry
SPECIFICATION Spec
INVARIANTS TypeOK Solvency SettleNeverFails
PROPERTIES ClosedChannelFrozen
CHECK_DEADLOCK FALSE
