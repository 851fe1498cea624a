SPECIFICATION Spec
CONSTANTS
  ChallengePeriod = 1
  DepositLimit = 6
  NConfirmations = 1
  Price = 1
  InitialDeposit = 1
  TopupDeposit = 3
  MaxBlock = 5
  MaxRequests = 2
  MaxIncidents = 2
  MaxReorgs = 1
INVARIANTS ConfirmedIsFinal TopupsCounted  ClientExposure
CHECK_DEADLOCK FALSE
