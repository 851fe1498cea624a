SPECIFICATION FairSpec
CONSTANTS
  p1 = p1
  p2 = p2
  s1 = s1
  s2 = s2
  Partners = {p1, p2}
  Secrets = {s1, s2}
  SettleTimeout = 1
  Expiration = 2
  PartnerDeposit = 1
  DepositLimit = 4
  Balance = 4
  Scenarios <- MCScenarios
  MaxBlock = 4
  MaxOthers = 1
  MaxTrouble = 1
INVARIANTS NoncesInSequence AllowanceKept RegisteredOnce 
 
CHECK_DEADLOCK FALSE
