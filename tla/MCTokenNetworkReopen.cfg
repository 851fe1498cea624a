CONSTANTS
  a = a
  b = b
  c = c
  h1 = h1
  none = none
  Participants = {a, b}
  MAX_SAFE_UINT256 = 2
  SettleTimeout = 1
  ParticipantLimit = 2
  NetworkLimit = 2
  Supply = 1
  SecretHashes <- mcSecretHashes
  LockLists <- mcLockLists
  BalanceHashes <- mcOneBalanceHash
  EmptyBalanceHash = none
  MaxChannels = 2
  MaxNonce = 1
  MaxTime = 3
SPECIFICATION FairSpec
INVARIANTS ChannelsConsistent
PROPERTIES IdentifiersNotReused ClosedChannelPaidOut
CHECK_DEADLOCK FALSE
